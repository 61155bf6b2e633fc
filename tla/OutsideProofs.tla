---------------------------- MODULE OutsideProofs ----------------------------
(***************************************************************************)
(* Proofs about what rows promise of the world outside the database: ports *)
(* (PortMappings), snapshots, backups (Snapshots, Backups) and bandwidth   *)
(* (TrafficThrottle) of an instance on its host, domains at the provider of*)
(* mail (MailDomains), for every number of instances, ports, snapshots,    *)
(* backups, uploads, domains and handlers, and every limit.                *)
(*                                                                         *)
(* Each theorem names the faults it excludes; what they break is told with *)
(* the components.                                                         *)
(***************************************************************************)
EXTENDS PortMappings, TLAPS, FiniteSetTheorems, SequenceTheorems

(* The five share no state.                                                *)
CONSTANTS Snapshot, SnapLimit, Attempts, SnapFaults

VARIABLES snaps, automatic, snapHost, snapDue, snapLock, snapPc, snapOn, attempt, evicted

Snap == INSTANCE Snapshots
    WITH Limit <- SnapLimit, Faults <- SnapFaults,
         rows <- snaps, onHost <- snapHost, due <- snapDue, lock <- snapLock,
         pc <- snapPc, on <- snapOn

CONSTANTS Backup, Task, BackupLimit, MaxRetries, BackupFaults

VARIABLES backup, copies, maker, remover, early, upload, uploadOf, retries, late,
          uploadPc, overtime, again, file, stored

Copy == INSTANCE Backups
    WITH Limit <- BackupLimit, Faults <- BackupFaults,
         row <- backup, task <- upload, of <- uploadOf, pc <- uploadPc

CONSTANTS BandwidthFaults

VARIABLES level, overrun, line, limits, bandwidth, bandwidthLock, throttlePc, next,
          seenLevel, seenOverrun, speed, alone, direct

Band == INSTANCE TrafficThrottle
    WITH Faults <- BandwidthFaults,
         status <- overrun, host <- bandwidth, lock <- bandwidthLock, pc <- throttlePc,
         seen <- seenLevel, seenStatus <- seenOverrun

CONSTANTS Domain, MailFaults

VARIABLES sub, past, domain, upstream, subLock, mailPc, mailLoop, mailOn, mailLeft

Mail == INSTANCE MailDomains
    WITH Faults <- MailFaults,
         row <- domain, lock <- subLock, pc <- mailPc, loop <- mailLoop, on <- mailOn,
         left <- mailLeft

----------------------------------------------------------------------------
(* Ports                                                                   *)

(* The devices of a list.                                                  *)
Among(d, s) == \E n \in 1 .. Len(s) : s[n] = d

(* Appending to a list adds a member, and a list is its head and its tail. *)
LEMMA Lists ==
    ASSUME NEW D, NEW s \in Seq(D)
    PROVE  /\ \A e \in D : /\ Append(s, e) \in Seq(D) /\ Append(s, e) # <<>>
                           /\ \A d : Among(d, Append(s, e)) <=> Among(d, s) \/ d = e
           /\ s # <<>> => /\ Head(s) \in D /\ Tail(s) \in Seq(D)
                          /\ \A d : Among(d, s) <=> d = Head(s) \/ Among(d, Tail(s))
                          /\ Len(s) > 1 => Tail(s) # <<>>
                          /\ ~(Len(s) > 1) => Tail(s) = <<>>
<1>1. ASSUME NEW e \in D
      PROVE  /\ Append(s, e) \in Seq(D) /\ Append(s, e) # <<>>
             /\ \A d : Among(d, Append(s, e)) <=> Among(d, s) \/ d = e
  BY DEF Among
<1>2. ASSUME s # <<>>
      PROVE  /\ Head(s) \in D /\ Tail(s) \in Seq(D)
             /\ Len(s) > 1 => Tail(s) # <<>>
             /\ ~(Len(s) > 1) => Tail(s) = <<>>
  <2>1. Len(s) \in Nat \ {0} /\ Len(Tail(s)) = Len(s) - 1
    BY <1>2
  <2>2. Head(s) \in D /\ Tail(s) \in Seq(D)
    BY <1>2
  <2>3. Len(s) > 1 => Tail(s) # <<>>
    <3>1. Len(<<>>) = 0
      OBVIOUS
    <3>2. Tail(s) = <<>> => Len(Tail(s)) = 0
      BY <3>1, Zenon
    <3> QED BY <2>1, <3>2
  <2>4. ~(Len(s) > 1) => Tail(s) = <<>>
    BY <2>1, <2>2
  <2> QED BY <2>2, <2>3, <2>4
<1>3. ASSUME s # <<>>, NEW d
      PROVE  Among(d, s) <=> d = Head(s) \/ Among(d, Tail(s))
  <2>1. /\ Len(s) \in Nat \ {0} /\ Head(s) = s[1] /\ Len(Tail(s)) = Len(s) - 1
        /\ \A n \in 1 .. Len(s) - 1 : Tail(s)[n] = s[n + 1]
    BY <1>3
  <2>2. \A n \in 1 .. Len(s) : n = 1 \/ n - 1 \in 1 .. Len(s) - 1
    BY <2>1
  <2>3. \A n \in 2 .. Len(s) : Tail(s)[n - 1] = s[n]
    BY <2>1
  <2>4. Among(d, s) => d = Head(s) \/ Among(d, Tail(s))
    BY <2>1, <2>2, <2>3 DEF Among
  <2>5. d = Head(s) => Among(d, s)
    BY <2>1 DEF Among
  <2>6. Among(d, Tail(s)) => Among(d, s)
    <3>1. ASSUME NEW n \in 1 .. Len(Tail(s)), Tail(s)[n] = d PROVE Among(d, s)
      <4>1. n + 1 \in 1 .. Len(s) /\ s[n + 1] = d
        BY <2>1, <3>1
      <4> QED BY <4>1 DEF Among
    <3> QED BY <3>1 DEF Among
  <2> QED BY <2>4, <2>5, <2>6
<1> QED BY <1>1, <1>2, <1>3

(* The devices of a port.                                                  *)
LEMMA DevicesOfPort ==
    ASSUME PortMappingsConstants, NEW p \in Port
    PROVE  /\ DevicesOf(p) \in Seq(Device) /\ DevicesOf(p) # <<>>
           /\ <<DevicesOf(p)[1]>> \in Seq(Device)
           /\ \A d \in Device : Among(d, DevicesOf(p)) => d[1] = p
<1>1. CASE Families = <<"v4">>
  <2>1. DevicesOf(p) = <<<<p, "v4">>>>
    BY <1>1 DEF DevicesOf
  <2> QED BY <2>1 DEF Device, Among
<1>2. CASE Families = <<"v4", "v6">>
  <2>1. DevicesOf(p) = <<<<p, "v4">>, <<p, "v6">>>>
    BY <1>2 DEF DevicesOf
  <2>2. <<p, "v4">> \in Device /\ <<p, "v6">> \in Device
    BY DEF Device
  <2> QED BY <2>1, <2>2 DEF Device, Among
<1> QED BY <1>1, <1>2 DEF PortMappingsConstants

(* What a handler does is one of these.                                    *)
Shape(w) ==
    /\ w \in Work
    /\ w.pc = "idle" => w = Idle
    /\ w.pc # "idle" => w.on \in Instance /\ w.kind # "none"
    /\ w.pc \in {"reserve", "device"} \/ w.kind = "delete" => w.port \in Port
    /\ w.pc = "forget" /\ w.kind # "undo" => w.port \in Port
    /\ w.pc = "lock" => w.kind \in {"add", "delete"} /\ w.made = {}
    /\ w.pc = "quota" => w.kind = "add"
    /\ w.pc \in {"check", "reserve"} => w.kind \in {"add", "auto"}
    /\ w.pc = "forget" /\ w.kind # "strip" => w.todo = <<>>
    /\ w.pc = "next" => w.kind \in {"back", "strip"}
    /\ w.pc = "forget" => w.kind \in {"undo", "back", "delete", "strip"}
    /\ w.pc = "device" => w.todo # <<>>
    /\ w.read => w.pc = "device"

(* The state is typed and every handler has one of these shapes.           *)
Typed ==
    /\ rows \in [Port -> Instance \cup {None}] /\ managed \subseteq Port
    /\ devices \in [Instance -> SUBSET Device]
    /\ lock \in [Instance -> Handler \cup {None}]
    /\ work \in [Handler -> Work]
    /\ torn \subseteq Port
    /\ \A h \in Handler : Shape(work[h])

(* A handler that goes on keeps its shape.                                 *)
LEMMA ShapeGoto ==
    ASSUME NEW w, Shape(w), w.pc \notin {"idle", "device"},
           NEW p \in {"quota", "check", "unlock"},
           p \in {"quota", "check"} => w.kind = "add"
    PROVE  Shape([w EXCEPT !.pc = p])
  BY DEF Shape, Work

(* What no step but a reservation changes of a handler.                    *)
Same(u, w) ==
    u.on = w.on /\ u.port = w.port /\ u.made = w.made /\ u.gone = w.gone

(* So does one that undoes what it has made (the catch block of POST).     *)
LEMMA ShapeUndo ==
    ASSUME NEW w, Shape(w), w.pc \in {"reserve", "device"}, NEW u \in Undo(w)
    PROVE  /\ Shape(u) /\ Same(u, w) /\ u.kind = "undo" /\ ~u.read
           /\ u.ports = w.made /\ u.todo = w.added /\ u.added = w.added
           /\ u.pc \in {"device", "forget", "unlock"}
           /\ "host" \notin Faults /\ w.made # {} => u.pc # "unlock"
<1> DEFINE v == [w EXCEPT !.kind = "undo", !.ports = w.made, !.todo = w.added, !.read = FALSE,
                          !.seen = {}]
<1>1. /\ v \in Work /\ v.kind = "undo" /\ Same(v, w)
      /\ v.todo = w.added /\ v.ports = w.made /\ v.added = w.added /\ v.read = FALSE
  BY DEF Shape, Work, Same
<1>2. PICK p \in {"device", "forget", "unlock"} :
        /\ u = [v EXCEPT !.pc = p] /\ (p = "device" => w.added # <<>>)
        /\ p = "forget" => w.added = <<>>
        /\ "host" \notin Faults /\ w.made # {} => p # "unlock"
  BY DEF Undo
<1> HIDE DEF v
<1>3. /\ u \in Work /\ u.pc = p /\ u.kind = "undo" /\ Same(u, v) /\ u.ports = v.ports
      /\ u.todo = w.added /\ u.added = v.added /\ u.read = FALSE
  BY <1>1, <1>2 DEF Work, Same
<1>4. Shape(u)
  BY <1>1, <1>2, <1>3 DEF Shape, Same
<1> QED BY <1>1, <1>2, <1>3, <1>4 DEF Same

(* And one whose call to the host has succeeded, with what it goes on to.  *)
LEMMA ShapeDone ==
    ASSUME NEW w, Shape(w), w.pc = "device"
    PROVE  LET u == Done(w) IN
           /\ Shape(u) /\ Same(u, w) /\ u.kind = w.kind /\ ~u.read
           /\ u.todo = Tail(w.todo)
           /\ u.added = IF Adding(w) THEN Append(w.added, Head(w.todo)) ELSE w.added
           /\ \/ u.pc = "device" /\ u.ports = w.ports
              \/ ~Adding(w) /\ u.pc = "forget" /\ u.ports = w.ports /\ u.todo = <<>>
              \/ /\ Adding(w) /\ u.pc \in {"unlock", "check"} /\ u.todo = <<>>
                 /\ u.ports = w.ports \ {w.port}
<1> DEFINE v == [w EXCEPT !.todo = Tail(@), !.read = FALSE, !.seen = {},
                       !.added = IF Adding(w) THEN Append(@, Head(w.todo)) ELSE @]
<1>1. /\ w.todo \in Seq(Device) /\ w.todo # <<>> /\ w.added \in Seq(Device) /\ w \in Work
  BY DEF Shape, Work
<1>2. /\ Tail(w.todo) \in Seq(Device) /\ (Len(w.todo) > 1 => Tail(w.todo) # <<>>)
      /\ ~(Len(w.todo) > 1) => Tail(w.todo) = <<>>
      /\ Append(w.added, Head(w.todo)) \in Seq(Device)
  BY <1>1, Lists
<1>3. /\ v \in Work /\ Same(v, w) /\ v.kind = w.kind /\ v.read = FALSE /\ v.ports = w.ports
      /\ v.todo = Tail(w.todo) /\ v.pc = "device"
      /\ v.added = IF Adding(w) THEN Append(w.added, Head(w.todo)) ELSE w.added
  BY <1>1, <1>2 DEF Work, Same
<1>4. \/ Len(w.todo) > 1 /\ Done(w) = v
      \/ ~(Len(w.todo) > 1) /\ ~Adding(w) /\ Done(w) = [v EXCEPT !.pc = "forget"]
      \/ /\ ~(Len(w.todo) > 1) /\ Adding(w)
         /\ \E p \in {"unlock", "check"} :
                Done(w) = [v EXCEPT !.pc = p, !.ports = @ \ {w.port}]
  BY DEF Done
<1> HIDE DEF v
<1> DEFINE u == Done(w)
<1>5. CASE Len(w.todo) > 1 /\ u = v
  BY <1>1, <1>2, <1>3, <1>5 DEF Shape, Same
<1>6. CASE ~(Len(w.todo) > 1) /\ ~Adding(w) /\ u = [v EXCEPT !.pc = "forget"]
  <2>1. /\ u \in Work /\ Same(u, v) /\ u.kind = v.kind /\ u.read = FALSE
        /\ u.ports = v.ports /\ u.todo = v.todo /\ u.added = v.added /\ u.pc = "forget"
    BY <1>3, <1>6 DEF Work, Same
  <2>2. u.kind \in {"undo", "back", "delete", "strip"}
    <3>1. w.kind \in {"none", "add", "auto", "undo", "back", "delete", "strip"} \ {"none"}
      BY <1>1 DEF Shape, Work
    <3> QED BY <1>3, <1>6, <2>1, <3>1 DEF Adding
  <2>3. u.todo = <<>>
    BY <1>2, <1>3, <1>6, <2>1
  <2>4. Shape(u)
    BY <1>3, <2>1, <2>2, <2>3 DEF Shape, Same
  <2> QED BY <1>2, <1>3, <1>6, <2>1, <2>4 DEF Same
<1>7. ASSUME ~(Len(w.todo) > 1), Adding(w), NEW p \in {"unlock", "check"},
             u = [v EXCEPT !.pc = p, !.ports = @ \ {w.port}]
      PROVE  /\ Shape(u) /\ Same(u, w) /\ u.kind = w.kind /\ ~u.read
             /\ u.todo = Tail(w.todo) /\ u.todo = <<>>
             /\ u.added = Append(w.added, Head(w.todo))
             /\ u.pc \in {"unlock", "check"} /\ u.ports = w.ports \ {w.port}
  <2>1. /\ u \in Work /\ Same(u, v) /\ u.kind = v.kind /\ u.read = FALSE
        /\ u.ports = v.ports \ {w.port} /\ u.todo = v.todo /\ u.added = v.added /\ u.pc = p
    BY <1>3, <1>7 DEF Work, Same
  <2>2. Shape(u)
    BY <1>2, <1>3, <1>7, <2>1 DEF Shape, Same, Adding
  <2> QED BY <1>2, <1>3, <1>7, <2>1, <2>2 DEF Same
<1>8. CASE ~(Len(w.todo) > 1) /\ Adding(w)
  BY <1>4, <1>7, <1>8
<1> QED BY <1>4, <1>5, <1>6, <1>8

(* And one whose call has failed.                                          *)
LEMMA ShapeFailed ==
    ASSUME NEW w, Shape(w), w.pc = "device", NEW u \in Failed(w)
    PROVE  /\ Shape(u) /\ Same(u, w) /\ ~u.read
           /\ \/ /\ Adding(w) /\ u.kind = "undo" /\ u.ports = w.made
                 /\ u.todo = w.added /\ u.added = w.added
                 /\ u.pc \in {"device", "forget", "unlock"}
                 /\ "host" \notin Faults /\ w.made # {} => u.pc # "unlock"
              \/ /\ w.kind = "back" /\ u.kind = "back" /\ u.pc = "next"
                 /\ u.ports = w.ports \ {w.port}
              \/ /\ w.kind = "strip" /\ u.kind = "strip" /\ u.pc = "forget"
                 /\ u.ports = w.ports
              \/ /\ ~Adding(w) /\ u.kind = w.kind /\ u.pc = "unlock" /\ u.ports = w.ports
                 /\ w.kind \notin {"back", "strip"}
<1> DEFINE v == [w EXCEPT !.read = FALSE, !.seen = {}]
<1>1. /\ v \in Work /\ v.pc = "device" /\ Same(v, w) /\ v.kind = w.kind /\ ~v.read
      /\ v.ports = w.ports /\ v.todo = w.todo /\ v.added = w.added
  BY DEF Shape, Work, Same
<1>2. Shape(v)
  BY <1>1 DEF Shape, Same
<1>3. CASE Adding(w)
  <2>1. u \in Undo(v)
    BY <1>3 DEF Failed
  <2> HIDE DEF v
  <2> QED BY <1>1, <1>2, <1>3, <2>1, ShapeUndo DEF Same
<1>4. CASE ~Adding(w)
  <2>1. \/ w.kind = "back" /\ u = [v EXCEPT !.pc = "next", !.ports = @ \ {w.port}]
        \/ w.kind = "strip" /\ u = [v EXCEPT !.pc = "forget"]
        \/ w.kind \notin {"back", "strip"} /\ u = [v EXCEPT !.pc = "unlock"]
    BY <1>4 DEF Failed
  <2> HIDE DEF v
  <2>2. CASE w.kind = "back" /\ u = [v EXCEPT !.pc = "next", !.ports = @ \ {w.port}]
    <3>1. /\ u \in Work /\ Same(u, v) /\ u.kind = v.kind /\ ~u.read
          /\ u.ports = v.ports \ {w.port} /\ u.pc = "next"
      BY <1>1, <2>2 DEF Work, Same
    <3> QED BY <1>1, <1>2, <2>2, <3>1 DEF Shape, Same
  <2>3. CASE w.kind = "strip" /\ u = [v EXCEPT !.pc = "forget"]
    <3>1. /\ u \in Work /\ Same(u, v) /\ u.kind = v.kind /\ ~u.read
          /\ u.ports = v.ports /\ u.pc = "forget" /\ u.todo = v.todo
      BY <1>1, <2>3 DEF Work, Same
    <3> QED BY <1>1, <1>2, <2>3, <3>1 DEF Shape, Same
  <2>4. CASE w.kind \notin {"back", "strip"} /\ u = [v EXCEPT !.pc = "unlock"]
    <3>1. /\ u \in Work /\ Same(u, v) /\ u.kind = v.kind /\ ~u.read
          /\ u.ports = v.ports /\ u.pc = "unlock"
      BY <1>1, <2>4 DEF Work, Same
    <3> QED BY <1>1, <1>2, <1>4, <2>4, <3>1 DEF Shape, Same
  <2> QED BY <2>1, <2>2, <2>3, <2>4
<1> QED BY <1>3, <1>4

(* Every action keeps the types and the shapes.                            *)
LEMMA TypedStep ==
    ASSUME PortMappingsConstants, Typed, [Next]_vars PROVE Typed'
<1>h. torn' \subseteq Port
  <2>1. torn \subseteq Port
    BY DEF Typed
  <2>2. ASSUME NEW h \in Handler, Put(h) PROVE torn' \subseteq Port
    <3>1. Shape(work[h]) /\ work[h].pc = "device"
      BY <2>2 DEF Typed, Put
    <3>2. Head(work[h].todo) \in Device
      BY <3>1, Lists DEF Shape, Work
    <3>3. Head(work[h].todo)[1] \in Port
      BY <3>2 DEF Device
    <3> QED BY <2>1, <2>2, <3>3 DEF Put
  <2>3. ASSUME NEW h \in Handler, Forget(h) PROVE torn' \subseteq Port
    BY <2>1, <2>3 DEF Forget, Drop, Goto, Becomes
  <2> QED
    BY <2>1, <2>2, <2>3 DEF Next, vars, Strip, Add, AutoPort, Delete, Lock, Busy, Unlock, Quota,
       Check, Reserve, NextPort, Fetch, Crash, Expire
<1>b. ASSUME NEW h \in Handler, NEW u, Shape(u), Becomes(h, u),
             rows' \in [Port -> Instance \cup {None}], managed' \subseteq Port,
             devices' \in [Instance -> SUBSET Device],
             lock' \in [Instance -> Handler \cup {None}]
      PROVE  Typed'
  BY <1>b, <1>h DEF Typed, Becomes, Shape
<1>0. /\ rows \in [Port -> Instance \cup {None}] /\ managed \subseteq Port
      /\ devices \in [Instance -> SUBSET Device]
      /\ lock \in [Instance -> Handler \cup {None}]
      /\ work \in [Handler -> Work]
      /\ \A h \in Handler : Shape(work[h]) /\ work[h] \in Work
  BY DEF Typed, Shape
<1>i. Shape(Idle) /\ Idle \in Work /\ ~Idle.read /\ Idle.made = {}
  BY DEF Shape, Idle, Work
<1>n. ASSUME NEW h \in Handler, NEW i \in Instance, NEW ps \in SUBSET Port,
             NEW p \in {"lock", "check", "next"}, NEW k \in {"add", "auto", "strip"},
             p = "lock" => k = "add", p = "check" => k = "auto", p = "next" => k = "strip",
             Becomes(h, [Idle EXCEPT !.pc = p, !.kind = k, !.on = i, !.ports = ps]),
             UNCHANGED <<rows, managed, devices, lock>>
      PROVE  Typed'
  <2> DEFINE u == [Idle EXCEPT !.pc = p, !.kind = k, !.on = i, !.ports = ps]
  <2>1. u \in Work /\ u.pc = p /\ u.kind = k /\ u.on = i /\ ~u.read
        /\ u.made = {}
    BY <1>i DEF Work
  <2>2. Shape(u)
    BY <1>n, <2>1 DEF Shape
  <2> QED BY <1>0, <1>n, <2>2, <1>b
<1>1. ASSUME NEW h \in Handler, NEW i \in Instance, Strip(h, i) PROVE Typed'
  <2>1. RowsOf(i) \in SUBSET Port
    BY DEF RowsOf
  <2> QED BY <1>1, <2>1, <1>n DEF Strip
<1>2. ASSUME NEW h \in Handler, NEW i \in Instance, NEW ps \in SUBSET Port, Add(h, i, ps)
      PROVE  Typed'
  BY <1>2, <1>n DEF Add
<1>3. ASSUME NEW h \in Handler, NEW i \in Instance, NEW p \in Port, AutoPort(h, i, p)
      PROVE  Typed'
  <2>1. {p} \in SUBSET Port
    OBVIOUS
  <2> QED BY <1>3, <2>1, <1>n DEF AutoPort
<1>4. ASSUME NEW h \in Handler, NEW p \in Port, Delete(h, p) PROVE Typed'
  <2>1. rows[p] \in Instance
    BY <1>0, <1>4 DEF Delete
  <2> DEFINE u == [Idle EXCEPT !.pc = "lock", !.kind = "delete", !.on = rows[p], !.port = p]
  <2>2. /\ u \in Work /\ u.pc = "lock" /\ u.kind = "delete" /\ u.on \in Instance
        /\ u.port \in Port /\ ~u.read /\ u.made = {}
    BY <1>i, <2>1 DEF Work
  <2>3. Shape(u)
    BY <2>2 DEF Shape
  <2> QED BY <1>0, <1>4, <2>3, <1>b DEF Delete
<1>5. ASSUME NEW h \in Handler, Lock(h) PROVE Typed'
  <2>1. work[h].on \in Instance /\ work[h].pc = "lock"
    BY <1>0, <1>5 DEF Lock, Shape
  <2>2. /\ UNCHANGED <<rows, managed, devices>>
        /\ lock' \in [Instance -> Handler \cup {None}]
    BY <1>0, <1>5, <2>1 DEF Lock
  <2>3. CASE work[h].kind = "add"
    BY <1>0, <1>5, <2>1, <2>2, <2>3, <1>b, ShapeGoto DEF Lock, Goto
  <2>4. CASE work[h].kind # "add"
    <3>1. Becomes(h, [work[h] EXCEPT !.pc = "device", !.todo = DevicesOf(work[h].port)])
      BY <1>5, <2>4 DEF Lock
    <3>2. work[h].port \in Port
      BY <1>0, <2>1, <2>4 DEF Shape
    <3>3. Shape([work[h] EXCEPT !.pc = "device", !.todo = DevicesOf(work[h].port)])
      BY <1>0, <2>1, <3>2, DevicesOfPort DEF Shape, Work
    <3> QED BY <1>0, <2>2, <3>1, <3>3, <1>b
  <2> QED BY <2>3, <2>4
<1>6. ASSUME NEW h \in Handler, Busy(h) \/ Crash(h) PROVE Typed'
  BY <1>0, <1>6, <1>b, <1>i DEF Busy, Crash
<1>7. ASSUME NEW h \in Handler, Unlock(h) PROVE Typed'
  <2>1. lock' \in [Instance -> Handler \cup {None}]
    BY <1>0, <1>7 DEF Unlock
  <2> QED BY <1>0, <1>7, <2>1, <1>b, <1>i DEF Unlock
<1>8. ASSUME NEW h \in Handler, Quota(h) PROVE Typed'
  <2>1. work[h].kind = "add" /\ work[h].pc = "quota"
    BY <1>0, <1>8 DEF Quota, Shape
  <2> QED BY <1>0, <1>8, <2>1, <1>b, ShapeGoto DEF Quota, Goto
<1>9. ASSUME NEW h \in Handler, Check(h) PROVE Typed'
  BY <1>0, <1>9, <1>b DEF Check, Shape, Work
<1>10. ASSUME NEW h \in Handler, Reserve(h) PROVE Typed'
  <2>1. ASSUME NEW u \in Undo(work[h]), Becomes(h, u), UNCHANGED <<rows, managed>> PROVE Typed'
    BY <1>0, <1>10, <2>1, <1>b, ShapeUndo DEF Reserve
  <2>2. /\ work[h].port \in Port /\ work[h].on \in Instance /\ work[h].pc = "reserve"
    BY <1>0, <1>10 DEF Reserve, Shape
  <2>3. CASE Becomes(h, [work[h] EXCEPT !.pc = "device", !.made = @ \cup {work[h].port},
                                        !.todo = DevicesOf(work[h].port)])
    <3>1. Shape([work[h] EXCEPT !.pc = "device", !.made = @ \cup {work[h].port},
                                !.todo = DevicesOf(work[h].port)])
      <4> DEFINE w == work[h]
                 u == [w EXCEPT !.pc = "device", !.made = @ \cup {w.port},
                                !.todo = DevicesOf(w.port)]
      <4>1. w \in Work /\ Shape(w)
        BY <1>0
      <4>2. /\ u \in Work /\ u.pc = "device" /\ u.kind = w.kind /\ u.on = w.on
            /\ u.port = w.port /\ u.todo = DevicesOf(w.port)
        BY <2>2, <4>1, DevicesOfPort DEF Work
      <4>3. w.kind # "none" /\ DevicesOf(w.port) # <<>>
        BY <2>2, <4>1, DevicesOfPort DEF Shape
      <4> HIDE DEF w
      <4>4. Shape(u)
        BY <2>2, <4>2, <4>3 DEF Shape, w
      <4> QED BY <4>4 DEF w
    <3> QED BY <1>0, <1>10, <2>2, <2>3, <3>1, <1>b DEF Reserve
  <2> QED BY <1>10, <2>1, <2>3 DEF Reserve
<1>11. ASSUME NEW h \in Handler, Forget(h) PROVE Typed'
  <2> DEFINE w == work[h]
  <2>1. /\ UNCHANGED <<devices, lock>> /\ w \in Work /\ Shape(w) /\ w.pc = "forget"
    BY <1>0, <1>11 DEF Forget
  <2>2. ASSUME NEW p \in Port, NEW u, Shape(u), Drop(h, p, u) PROVE Typed'
    <3>1. ASSUME NEW k \in Handler PROVE work'[k] \in Work /\ Shape(work'[k])
      <4>1. Shape([work[k] EXCEPT !.gone = @ \cup {p}]) \/ p \notin Knows(work[k])
        <5>1. CASE work[k] = Idle
          BY <5>1 DEF Idle, Knows
        <5>2. CASE work[k] # Idle
          <6> DEFINE v == work[k]
                     g == [v EXCEPT !.gone = @ \cup {p}]
          <6>1. Shape(v) /\ v \in Work /\ v.pc # "idle"
            BY <1>0, <5>2 DEF Shape
          <6> HIDE DEF v
          <6>2. /\ g \in Work /\ g.pc = v.pc /\ g.kind = v.kind /\ g.on = v.on
                /\ g.port = v.port /\ g.todo = v.todo /\ g.read = v.read /\ g.made = v.made
            BY <6>1 DEF Work
          <6>3. Shape(g)
            BY <6>1, <6>2 DEF Shape
          <6> QED BY <6>3 DEF v
        <5> QED BY <5>1, <5>2
      <4> QED BY <1>0, <2>2, <4>1 DEF Drop, Shape
    <3>2. work' \in [Handler -> Work]
      BY <2>2, <3>1 DEF Drop
    <3>3. rows' \in [Port -> Instance \cup {None}] /\ managed' \subseteq Port
      BY <1>0, <2>2 DEF Drop
    <3> QED BY <1>0, <1>h, <2>1, <3>1, <3>2, <3>3 DEF Typed
  <2>3. ASSUME NEW q \in {"forget", "next", "unlock"}, NEW p,
               q = "forget" => w.kind = "undo", q = "next" => w.kind \in {"back", "strip"}
        PROVE  Shape([w EXCEPT !.pc = q, !.ports = @ \ {p}])
    BY <2>1, <2>3 DEF Shape, Work
  <2>4. CASE w.kind = "undo"
    <3>1. ASSUME NEW p \in w.ports, ~IsThere(w, p), Goto(h, "unlock"),
                 UNCHANGED <<rows, managed>>
          PROVE  Typed'
      BY <1>0, <2>1, <3>1, <1>b, ShapeGoto DEF Goto
    <3>2. ASSUME NEW p \in w.ports,
                 Drop(h, p, [w EXCEPT !.pc = IF w.ports = {p} THEN "unlock" ELSE @,
                                      !.ports = @ \ {p}])
          PROVE  Typed'
      <4>1. p \in Port
        BY <2>1 DEF Work
      <4>2. Shape([w EXCEPT !.pc = IF w.ports = {p} THEN "unlock" ELSE @,
                            !.ports = @ \ {p}])
        BY <2>1, <2>3, <2>4
      <4> QED BY <3>2, <4>1, <4>2, <2>2
    <3> QED BY <1>11, <2>4, <3>1, <3>2 DEF Forget
  <2>5. CASE w.kind # "undo"
    <3> DEFINE u == [w EXCEPT !.pc = IF w.kind = "delete" THEN "unlock" ELSE "next",
                              !.ports = @ \ {w.port}]
    <3>1. Shape(u) /\ w.port \in Port
      <4>1. w.port \in Port
        BY <2>1, <2>5 DEF Shape
      <4>2. /\ (IF w.kind = "delete" THEN "unlock" ELSE "next") \in {"next", "unlock"}
            /\ w.kind \in {"back", "strip", "delete"}
        BY <2>1, <2>5 DEF Shape
      <4>3. Shape(u)
        BY <2>3, <4>2
      <4> QED BY <4>1, <4>3
    <3>2. \/ Drop(h, w.port, u)
          \/ Becomes(h, u) /\ UNCHANGED <<rows, managed>>
      BY <1>11, <2>5 DEF Forget
    <3> QED BY <1>0, <2>1, <3>1, <3>2, <2>2, <1>b
  <2> QED BY <2>4, <2>5
<1>12. ASSUME NEW h \in Handler, NextPort(h) PROVE Typed'
  <2>1. CASE Goto(h, "unlock")
    BY <1>0, <1>12, <2>1, <1>b, ShapeGoto DEF NextPort, Goto
  <2>2. ASSUME NEW p \in work[h].ports, NEW t, t = DevicesOf(p) \/ t = <<DevicesOf(p)[1]>>,
               Becomes(h, [work[h] EXCEPT !.pc = "device", !.port = p, !.todo = t])
        PROVE  Typed'
    <3>1. p \in Port
      BY <1>0 DEF Work
    <3>2. t \in Seq(Device) /\ t # <<>>
      BY <2>2, <3>1, DevicesOfPort
    <3>3. Shape([work[h] EXCEPT !.pc = "device", !.port = p, !.todo = t])
      <4> DEFINE v == work[h]
                 g == [v EXCEPT !.pc = "device", !.port = p, !.todo = t]
      <4>1. Shape(v) /\ v \in Work /\ v.pc = "next"
        BY <1>0, <1>12 DEF NextPort
      <4> HIDE DEF v
      <4>2. g \in Work /\ g.pc = "device" /\ g.on = v.on /\ g.port = p /\ g.todo = t
        BY <3>1, <3>2, <4>1 DEF Work
      <4>3. Shape(g)
        BY <3>1, <3>2, <4>1, <4>2 DEF Shape
      <4> QED BY <4>3 DEF v
    <3> QED BY <1>0, <1>12, <2>2, <3>3, <1>b DEF NextPort
  <2> QED BY <1>12, <2>1, <2>2 DEF NextPort
<1>13. ASSUME NEW h \in Handler, Fetch(h) PROVE Typed'
  <2>1. work[h].pc = "device" /\ work[h].on \in Instance
    BY <1>0, <1>13 DEF Fetch, Shape
  <2>2. ASSUME NEW u \in Failed(work[h]), Becomes(h, u) PROVE Typed'
    BY <1>0, <1>13, <2>1, <2>2, <1>b, ShapeFailed DEF Fetch
  <2>3. Shape([work[h] EXCEPT !.read = TRUE, !.seen = devices[work[h].on]])
    <3> DEFINE v == work[h]
               g == [v EXCEPT !.read = TRUE, !.seen = devices[v.on]]
    <3>1. Shape(v) /\ v \in Work /\ v.pc = "device" /\ devices[v.on] \subseteq Device
      BY <1>0, <2>1
    <3> HIDE DEF v
    <3>2. /\ g \in Work /\ g.pc = v.pc /\ g.kind = v.kind /\ g.on = v.on /\ g.port = v.port
          /\ g.made = v.made /\ g.todo = v.todo
      BY <3>1 DEF Work
    <3>3. Shape(g)
      BY <3>1, <3>2 DEF Shape
    <3> QED BY <3>3 DEF v
  <2> QED BY <1>0, <1>13, <2>2, <2>3, <1>b DEF Fetch
<1>14. ASSUME NEW h \in Handler, Put(h) PROVE Typed'
  <2>1. work[h].pc = "device" /\ work[h].on \in Instance
    BY <1>0, <1>14 DEF Put, Shape
  <2>2. /\ UNCHANGED <<rows, managed, lock>>
        /\ Becomes(h, Done(work[h])) \/ \E u \in Failed(work[h]) : Becomes(h, u)
    BY <1>14 DEF Put
  <2>3. devices' \in [Instance -> SUBSET Device]
    <3>1. /\ work[h].seen \subseteq Device /\ Head(work[h].todo) \in Device
      BY <1>0, <2>1, Lists DEF Shape, Work
    <3> QED BY <1>0, <1>14, <2>1, <3>1 DEF Put
  <2>4. ASSUME NEW u \in Failed(work[h]), Becomes(h, u) PROVE Typed'
    BY <1>0, <2>1, <2>2, <2>3, <2>4, <1>b, ShapeFailed
  <2>5. CASE Becomes(h, Done(work[h]))
    BY <1>0, <2>1, <2>2, <2>3, <2>5, <1>b, ShapeDone
  <2> QED BY <2>2, <2>4, <2>5
<1>15. ASSUME NEW i \in Instance, Expire(i) PROVE Typed'
  BY <1>15 DEF Expire, Typed
<1>16. CASE UNCHANGED vars
  BY <1>16 DEF vars, Typed
<1> QED
  BY <1>1, <1>2, <1>3, <1>4, <1>5, <1>6, <1>7, <1>8, <1>9, <1>10, <1>11, <1>12, <1>13, <1>14,
     <1>15, <1>16 DEF Next

(* The ports that count are finitely many.                                 *)
LEMMA CountedSize ==
    ASSUME PortMappingsConstants, NEW i
    PROVE  IsFiniteSet(Counted(i)) /\ Cardinality(Counted(i)) \in Nat
<1>1. IsFiniteSet(Counted(i))
  BY FS_Subset DEF PortMappingsConstants, Counted, RowsOf
<1> QED BY <1>1, FS_CardinalityType

(* The size of a set of ports, with a port and without it.                 *)
LEMMA PortsSize ==
    ASSUME PortMappingsConstants, NEW ps \in SUBSET Port, NEW p
    PROVE  /\ Cardinality(ps) \in Nat
           /\ p \in ps => Cardinality(ps \ {p}) = Cardinality(ps) - 1
BY FS_Subset, FS_CardinalityType, FS_RemoveElement DEF PortMappingsConstants

(* Who adds ports of an instance has its lock, and there is room for them. *)
Fits(w, h) ==
    w.kind = "add" =>
      /\ w.pc # "lock" => lock[w.on] = h
      /\ w.pc \in {"check", "reserve"} =>
            Cardinality(Counted(w.on)) + Cardinality(w.ports) <= Limit
      /\ w.pc \in {"reserve", "device"} => w.port \in w.ports
      /\ w.pc = "device" =>
            Cardinality(Counted(w.on)) + Cardinality(w.ports \ {w.port}) <= Limit

(* The quota, with the room every handler that adds has made sure of.      *)
Roomy == QuotaKept /\ \A h \in Handler : Fits(work[h], h)

(* What the quota depends on in a handler.                                 *)
Alike(u, w) == u.kind = w.kind /\ u.pc = w.pc /\ u.on = w.on /\ u.ports = w.ports
               /\ u.port = w.port

(* Every action keeps the quota and the room.                              *)
LEMMA RoomyStep ==
    ASSUME PortMappingsConstants, "expire" \notin Faults, Typed, Roomy, [Next]_vars
    PROVE  Roomy'
<1>0. /\ rows \in [Port -> Instance \cup {None}] /\ managed \subseteq Port
      /\ lock \in [Instance -> Handler \cup {None}] /\ work \in [Handler -> Work]
      /\ \A h \in Handler : Shape(work[h]) /\ work[h] \in Work /\ Fits(work[h], h)
      /\ \A i \in Instance : Cardinality(Counted(i)) <= Limit
      /\ Limit \in Nat
  BY DEF Typed, Roomy, Shape, QuotaKept, PortMappingsConstants
<1>i. Idle \in Work /\ Idle.kind = "none" /\ Idle.pc = "idle"
  BY DEF Idle, Work
<1>a. \A h \in Handler : work[h].kind = "add" => /\ work[h].on \in Instance
                                               /\ work[h].pc # "idle"
  BY <1>0, <1>i DEF Shape
<1>c. ASSUME NEW i, Counted(i)' \subseteq Counted(i)
      PROVE  /\ Cardinality(Counted(i)') \in Nat /\ Cardinality(Counted(i)) \in Nat
             /\ Cardinality(Counted(i)') <= Cardinality(Counted(i))
  BY <1>c, CountedSize, FS_Subset, FS_CardinalityType
<1>f. ASSUME NEW h \in Handler, NEW w, Alike(w, work[h]),
             work[h].kind = "add" => work[h].pc = "lock" \/ lock'[work[h].on] = h,
             \A i \in Instance : lock[i] = h => Counted(i)' \subseteq Counted(i)
      PROVE  Fits(w, h)'
  <2>1. CASE w.kind = "add" /\ w.pc # "lock"
    <3>1. /\ w.on \in Instance /\ lock[w.on] = h /\ lock'[w.on] = h
          /\ Fits(w, h) /\ w.ports \in SUBSET Port
      <4>1. w.ports \in SUBSET Port
        BY <1>0, <1>f DEF Alike, Work
      <4>2. Fits(w, h)
        BY <1>0, <1>f DEF Alike, Fits
      <4> QED BY <1>0, <1>f, <1>a, <2>1, <4>1, <4>2 DEF Alike, Fits
    <3>2. PICK i \in Instance : i = w.on
      BY <3>1
    <3>3. /\ Cardinality(Counted(i)') \in Nat /\ Cardinality(Counted(i)) \in Nat
          /\ Cardinality(Counted(i)') <= Cardinality(Counted(i))
      BY <1>f, <3>1, <3>2, <1>c
    <3>4. /\ Cardinality(w.ports) \in Nat /\ Cardinality(w.ports \ {w.port}) \in Nat
      <4>1. w.ports \ {w.port} \in SUBSET Port
        BY <3>1
      <4> QED BY <3>1, <4>1, PortsSize
    <3> QED BY <1>0, <2>1, <3>1, <3>2, <3>3, <3>4 DEF Fits
  <2>2. CASE ~(w.kind = "add" /\ w.pc # "lock")
    BY <2>2 DEF Fits
  <2> QED BY <2>1, <2>2
<1>b. ASSUME NEW h \in Handler, NEW u, Becomes(h, u), UNCHANGED <<rows, managed, lock>>,
             Fits(u, h)
      PROVE  Roomy'
  <2>1. \A i : Counted(i)' = Counted(i)
    BY <1>b DEF Counted, RowsOf
  <2>2. QuotaKept'
    BY <1>0, <2>1 DEF QuotaKept
  <2>3. Fits(u, h)'
    BY <1>b, <2>1 DEF Fits
  <2>4. ASSUME NEW k \in Handler PROVE Fits(work[k], k)'
    BY <1>0, <1>b, <2>1, <2>3 DEF Fits, Becomes
  <2> QED BY <2>2, <2>4 DEF Roomy
<1>1. ASSUME NEW h \in Handler, NEW i, NEW p, NEW ps,
             Strip(h, i) \/ Add(h, i, ps) \/ AutoPort(h, i, p) \/ Delete(h, p) \/ Busy(h)
             \/ Crash(h) \/ Check(h) \/ Fetch(h) \/ NextPort(h)
      PROVE  Roomy'
  <2>1. UNCHANGED <<rows, managed, lock>>
    BY <1>1 DEF Strip, Add, AutoPort, Delete, Busy, Crash, Check, Fetch, NextPort
  <2> HIDE <1>1
  <2>2. CASE Strip(h, i) \/ AutoPort(h, i, p) \/ Delete(h, p) \/ Busy(h) \/ Crash(h)
    <3>1. PICK u : Becomes(h, u) /\ u.kind # "add"
      <4>1. CASE Strip(h, i)
        <5>1. Becomes(h, [Idle EXCEPT !.pc = "next", !.kind = "strip", !.on = i,
             !.ports = RowsOf(i)])
          BY <4>1 DEF Strip
        <5>2. [Idle EXCEPT !.pc = "next", !.kind = "strip", !.on = i,
             !.ports = RowsOf(i)].kind # "add"
          BY <1>i DEF Work
        <5> QED BY <5>1, <5>2
      <4>2. CASE AutoPort(h, i, p)
          <5>1. Becomes(h, [Idle EXCEPT !.pc = "check", !.kind = "auto", !.on = i, !.ports = {p}])
            BY <4>2 DEF AutoPort
          <5>2. [Idle EXCEPT !.pc = "check", !.kind = "auto", !.on = i,
               !.ports = {p}].kind # "add"
            BY <1>i DEF Work
          <5> QED BY <5>1, <5>2
      <4>3. CASE Delete(h, p)
          <5>1. Becomes(h, [Idle EXCEPT !.pc = "lock", !.kind = "delete", !.on = rows[p],
               !.port = p])
            BY <4>3 DEF Delete
          <5>2. [Idle EXCEPT !.pc = "lock", !.kind = "delete", !.on = rows[p],
               !.port = p].kind # "add"
            BY <1>i DEF Work
          <5> QED BY <5>1, <5>2
      <4>4. CASE Busy(h) \/ Crash(h)
        BY <1>i, <4>4 DEF Busy, Crash
      <4> QED BY <2>2, <4>1, <4>2, <4>3, <4>4
    <3> QED BY <2>1, <3>1, <1>b DEF Fits
  <2>3. CASE Add(h, i, ps)
    <3>1. PICK u : Becomes(h, u) /\ u.kind = "add" /\ u.pc = "lock"
      <4>1. Becomes(h, [Idle EXCEPT !.pc = "lock", !.kind = "add", !.on = i, !.ports = ps])
        BY <2>3 DEF Add
      <4>2. /\ [Idle EXCEPT !.pc = "lock", !.kind = "add", !.on = i, !.ports = ps].kind = "add"
            /\ [Idle EXCEPT !.pc = "lock", !.kind = "add", !.on = i, !.ports = ps].pc = "lock"
        BY <1>i DEF Work
      <4> QED BY <4>1, <4>2
    <3> QED BY <2>1, <3>1, <1>b DEF Fits
  <2>4. CASE Check(h)
    <3>1. ASSUME NEW q \in work[h].ports,
                 Becomes(h, [work[h] EXCEPT !.pc = "reserve", !.port = q])
          PROVE  Roomy'
      <4> DEFINE v == work[h]
                 u == [v EXCEPT !.pc = "reserve", !.port = q]
      <4>1. v \in Work /\ Fits(v, h) /\ v.pc = "check"
        BY <1>0, <2>4 DEF Check
      <4>2. /\ u.kind = v.kind /\ u.pc = "reserve" /\ u.on = v.on /\ u.ports = v.ports
            /\ u.port = q
        BY <4>1 DEF Work
      <4>3. Fits(u, h)
        BY <3>1, <4>1, <4>2 DEF Fits
      <4> QED BY <2>1, <3>1, <4>3, <1>b
    <3>2. CASE Becomes(h, [work[h] EXCEPT !.pc = "next", !.kind = "back",
                                          !.ports = work[h].made])
      <4>1. [work[h] EXCEPT !.pc = "next", !.kind = "back", !.ports = work[h].made].kind = "back"
        BY <1>0 DEF Work
      <4> QED BY <2>1, <3>2, <4>1, <1>b DEF Fits
    <3> QED BY <2>4, <3>1, <3>2 DEF Check
  <2>5. CASE Fetch(h)
    <3>1. work[h].pc = "device"
      BY <2>5 DEF Fetch
    <3>2. ASSUME NEW u \in Failed(work[h]), Becomes(h, u) PROVE Roomy'
      <4>1. u.kind # "add"
        BY <1>0, <3>1, <3>2, ShapeFailed DEF Adding
      <4> QED BY <2>1, <3>2, <4>1, <1>b DEF Fits
    <3>3. CASE Becomes(h, [work[h] EXCEPT !.read = TRUE, !.seen = devices[work[h].on]])
      <4> DEFINE v == work[h]
                 u == [v EXCEPT !.read = TRUE, !.seen = devices[v.on]]
      <4>1. v \in Work /\ Fits(v, h)
        BY <1>0
      <4>2. Alike(u, v)
        BY <4>1 DEF Work, Alike
      <4>3. Fits(u, h)
        BY <4>1, <4>2 DEF Fits, Alike
      <4> QED BY <2>1, <3>3, <4>3, <1>b
    <3> QED BY <2>5, <3>2, <3>3 DEF Fetch
  <2>6. CASE NextPort(h)
    <3>1. work[h].kind # "add" /\ work[h] \in Work
      BY <1>0, <2>6 DEF NextPort, Shape
    <3>2. PICK u : Becomes(h, u) /\ u.kind # "add"
      <4>1. \A q, t : [work[h] EXCEPT !.pc = "device", !.port = q, !.todo = t].kind # "add"
        BY <3>1 DEF Work
      <4>2. [work[h] EXCEPT !.pc = "unlock"].kind # "add"
        BY <3>1 DEF Work
      <4> QED BY <2>6, <4>1, <4>2 DEF NextPort, Goto
    <3> QED BY <2>1, <3>2, <1>b DEF Fits
  <2> QED BY <1>1, <2>2, <2>3, <2>4, <2>5, <2>6
<1>2. ASSUME NEW h \in Handler, Lock(h) PROVE Roomy'
  <2>1. /\ work[h].pc = "lock" /\ work[h].on \in Instance /\ UNCHANGED <<rows, managed>>
        /\ lock' = [lock EXCEPT ![work[h].on] = h] /\ lock[work[h].on] = None
    BY <1>0, <1>2 DEF Lock, Free, Shape
  <2>2. \A i : Counted(i)' = Counted(i)
    BY <2>1 DEF Counted, RowsOf
  <2>3. PICK u : /\ Becomes(h, u) /\ u.on = work[h].on
                 /\ u.kind = "add" => u.pc = "quota"
    <3>1. work[h] \in Work
      BY <1>0
    <3>2. CASE work[h].kind = "add"
      <4>1. /\ [work[h] EXCEPT !.pc = "quota"].on = work[h].on
            /\ [work[h] EXCEPT !.pc = "quota"].pc = "quota"
        BY <3>1 DEF Work
      <4> QED BY <1>2, <3>2, <4>1 DEF Lock, Goto
    <3>3. CASE work[h].kind # "add"
      <4>1. \A t : /\ [work[h] EXCEPT !.pc = "device", !.todo = t].on = work[h].on
                   /\ [work[h] EXCEPT !.pc = "device", !.todo = t].kind # "add"
        BY <3>1, <3>3 DEF Work
      <4> QED BY <1>2, <3>3, <4>1 DEF Lock
    <3> QED BY <3>2, <3>3
  <2>4. Fits(u, h)'
    BY <1>0, <2>1, <2>3 DEF Fits
  <2>5. ASSUME NEW k \in Handler PROVE Fits(work[k], k)'
    <3>1. CASE k = h
      BY <1>0, <2>3, <2>4, <3>1 DEF Becomes
    <3>2. CASE k # h
      <4>1. work'[k] = work[k]
        BY <1>0, <2>3, <3>2 DEF Becomes
      <4>2. Fits(work[k], k) /\ Shape(work[k])
        BY <1>0
      <4>3. work[k].kind = "add" => work[k].pc = "lock" \/ lock'[work[k].on] = k
        <5>1. k # None
          BY DEF PortMappingsConstants
        <5> QED BY <1>0, <2>1, <4>2, <5>1 DEF Fits, Shape, Idle
      <4>4. Fits(work[k], k)'
        BY <2>2, <4>1, <4>2, <4>3 DEF Fits
      <4> QED BY <4>4
    <3> QED BY <3>1, <3>2
  <2> QED BY <1>0, <2>2, <2>5 DEF Roomy, QuotaKept
<1>3. ASSUME NEW h \in Handler, Unlock(h) PROVE Roomy'
  <2>1. /\ UNCHANGED <<rows, managed>> /\ Becomes(h, Idle)
        /\ lock' = [i \in Instance |-> IF lock[i] = h THEN None ELSE lock[i]]
    BY <1>3 DEF Unlock
  <2>2. \A i : Counted(i)' = Counted(i)
    BY <2>1 DEF Counted, RowsOf
  <2>3. ASSUME NEW k \in Handler PROVE Fits(work[k], k)'
    <3>1. CASE k = h
      BY <1>0, <2>1, <3>1 DEF Becomes, Idle, Fits
    <3>2. CASE k # h
      <4>1. work'[k] = work[k]
        BY <1>0, <2>1, <3>2 DEF Becomes
      <4>2. Fits(work[k], k) /\ Shape(work[k])
        BY <1>0
      <4> QED BY <2>1, <2>2, <3>2, <4>1, <4>2 DEF Fits, Shape, Idle
    <3> QED BY <3>1, <3>2
  <2> QED BY <1>0, <2>2, <2>3 DEF Roomy, QuotaKept
<1>4. ASSUME NEW h \in Handler, Quota(h) PROVE Roomy'
  <2> DEFINE v == work[h]
  <2>1. v.pc = "quota" /\ v.kind = "add" /\ v \in Work /\ Fits(v, h)
    BY <1>0, <1>4 DEF Quota, Shape
  <2>2. PICK q \in {"check", "unlock"} :
          /\ Becomes(h, [v EXCEPT !.pc = q])
          /\ q = "check" => Cardinality(Counted(v.on)) + Cardinality(v.ports) <= Limit
    BY <1>4 DEF Quota, Goto
  <2> DEFINE u == [v EXCEPT !.pc = q]
  <2>3. u.kind = v.kind /\ u.pc = q /\ u.on = v.on /\ u.ports = v.ports
    BY <2>1 DEF Work
  <2>4. Fits(u, h)
    BY <2>1, <2>2, <2>3 DEF Fits
  <2> QED BY <1>4, <2>2, <2>4, <1>b DEF Quota
<1>5. ASSUME NEW h \in Handler, Reserve(h) PROVE Roomy'
  <2> DEFINE v == work[h]
             u == [v EXCEPT !.pc = "device", !.made = @ \cup {v.port},
                            !.todo = DevicesOf(v.port)]
  <2>1. /\ v.pc = "reserve" /\ v.on \in Instance /\ v.port \in Port /\ v \in Work
        /\ v.kind \in {"add", "auto"} /\ Fits(v, h) /\ UNCHANGED lock
    BY <1>0, <1>5 DEF Reserve, Shape
  <2>2. ASSUME NEW x \in Undo(v), Becomes(h, x), UNCHANGED <<rows, managed>> PROVE Roomy'
    <3>1. x.kind # "add"
      BY <1>0, <2>1, <2>2, ShapeUndo
    <3> QED BY <2>1, <2>2, <3>1, <1>b DEF Fits
  <2>3. ASSUME rows[v.port] = None, rows' = [rows EXCEPT ![v.port] = v.on],
               managed' = IF v.kind = "auto" THEN managed \cup {v.port} ELSE managed,
               NEW x, x = u, Becomes(h, x)
        PROVE  Roomy'
    <3>0. PICK i \in Instance, p \in Port : i = v.on /\ p = v.port
      BY <2>1
    <3>1. \A j \in Instance : j # i => Counted(j)' \subseteq Counted(j)
      BY <1>0, <2>1, <2>3, <3>0 DEF Counted, RowsOf
    <3>2. /\ v.kind = "auto" => Counted(i)' \subseteq Counted(i)
          /\ Counted(i)' \subseteq Counted(i) \cup {p}
      <4>1. \A q \in Port : q # p => rows'[q] = rows[q]
        BY <1>0, <2>3, <3>0
      <4>2. v.kind = "auto" => p \in managed'
        BY <2>3, <3>0
      <4>3. managed \subseteq managed'
        BY <2>3
      <4> QED BY <4>1, <4>2, <4>3 DEF Counted, RowsOf
    <3>3. /\ x.kind = v.kind /\ x.on = i /\ x.ports = v.ports /\ x.port = p
          /\ x.pc = "device"
      BY <2>1, <2>3, <3>0 DEF Work
    <3>4. ASSUME NEW k \in Handler, k # h PROVE Fits(work[k], k)'
      <4>1. work'[k] = work[k]
        BY <1>0, <2>3, <3>4 DEF Becomes
      <4>2. work[k].kind = "add" => work[k].pc = "lock" \/ lock'[work[k].on] = k
        BY <1>0, <2>1 DEF Fits
      <4>3. CASE v.kind = "auto" \/ lock[i] # k
        <5>1. \A j \in Instance : lock[j] = k => Counted(j)' \subseteq Counted(j)
          BY <3>1, <3>2, <4>3
        <5>2. \A y : Alike(y, work[k]) => Fits(y, k)'
          BY <4>2, <5>1, <1>f
        <5>3. Alike(work'[k], work[k])
          BY <4>1 DEF Alike
        <5> QED BY <5>2, <5>3 DEF Fits
      <4>4. v.kind = "add" => lock[i] = h
        BY <2>1, <3>0 DEF Fits
      <4> QED BY <2>1, <3>4, <4>3, <4>4
    <3>5. CASE v.kind = "auto"
      <4>1. ASSUME NEW j \in Instance PROVE Cardinality(Counted(j)') <= Limit
        <5>1. Counted(j)' \subseteq Counted(j)
          BY <3>1, <3>2, <3>5
        <5> QED BY <1>0, <5>1, <1>c
      <4>2. Fits(work[h], h)'
        BY <1>0, <2>3, <3>3, <3>5 DEF Fits, Becomes
      <4> QED BY <3>4, <4>1, <4>2 DEF Roomy, QuotaKept
    <3>6. CASE v.kind = "add"
      <4>1. /\ Cardinality(Counted(i)) + Cardinality(v.ports) <= Limit
            /\ p \in v.ports /\ lock[i] = h /\ v.ports \in SUBSET Port
        BY <2>1, <3>0, <3>6 DEF Fits, Work
      <4>2. /\ Cardinality(v.ports) \in Nat /\ Cardinality(Counted(i)) \in Nat
            /\ Cardinality(v.ports \ {p}) = Cardinality(v.ports) - 1
            /\ IsFiniteSet(Counted(i))
        BY <4>1, CountedSize, PortsSize
      <4>3. /\ Cardinality(Counted(i)') \in Nat
            /\ Cardinality(Counted(i)') <= Cardinality(Counted(i)) + 1
        <5> DEFINE more == Counted(i) \cup {p}
        <5>1. /\ IsFiniteSet(more)
              /\ Cardinality(more) = Cardinality(Counted(i))
                   \/ Cardinality(more) = Cardinality(Counted(i)) + 1
          BY <4>2, FS_AddElement
        <5>2. /\ IsFiniteSet(Counted(i)') /\ Cardinality(Counted(i)') <= Cardinality(more)
          <6> HIDE DEF more
          <6>1. Counted(i)' \subseteq more
            BY <3>2 DEF more
          <6> QED BY <5>1, <6>1, FS_Subset
        <5>3. Cardinality(Counted(i)') \in Nat
          BY <5>2, FS_CardinalityType
        <5> HIDE DEF more
        <5> QED BY <4>2, <5>1, <5>2, <5>3
      <4>4. /\ Cardinality(Counted(i)') + Cardinality(v.ports \ {p}) <= Limit
            /\ Cardinality(Counted(i)') <= Limit
        <5>1. v.ports \ {p} \in SUBSET Port
          BY <4>1
        <5>2. Cardinality(v.ports \ {p}) \in Nat
          BY <5>1, PortsSize
        <5> QED BY <1>0, <4>1, <4>2, <4>3, <5>2
      <4>5. ASSUME NEW j \in Instance PROVE Cardinality(Counted(j)') <= Limit
        <5>1. CASE j = i
          BY <4>4, <5>1
        <5>2. CASE j # i
          BY <1>0, <1>c, <3>1, <5>2
        <5> QED BY <5>1, <5>2
      <4>6. Fits(x, h)'
        BY <2>1, <3>3, <4>1, <4>4 DEF Fits
      <4>7. work'[h] = x
        BY <1>0, <2>3 DEF Becomes
      <4>8. Fits(work[h], h)'
        BY <4>6, <4>7 DEF Fits
      <4> QED BY <3>4, <4>5, <4>8 DEF Roomy, QuotaKept
    <3> QED BY <2>1, <3>5, <3>6
  <2>4. \/ \E x \in Undo(v) : Becomes(h, x) /\ UNCHANGED <<rows, managed>>
        \/ /\ rows[v.port] = None /\ rows' = [rows EXCEPT ![v.port] = v.on]
           /\ managed' = IF v.kind = "auto" THEN managed \cup {v.port} ELSE managed
           /\ Becomes(h, u)
    BY <1>5 DEF Reserve
  <2> HIDE DEF u, v
  <2> QED BY <2>2, <2>3, <2>4
<1>6. ASSUME NEW h \in Handler, Forget(h) PROVE Roomy'
  <2> DEFINE w == work[h]
  <2>1. w.pc = "forget" /\ w.kind # "add" /\ w \in Work /\ UNCHANGED lock
    BY <1>0, <1>6 DEF Forget, Shape
  <2>2. ASSUME NEW p, NEW u, u.kind # "add", Drop(h, p, u) PROVE Roomy'
    <3>1. \A i \in Instance : Counted(i)' \subseteq Counted(i)
      <4>1. \A i \in Instance : i # None
        BY DEF PortMappingsConstants
      <4> QED BY <1>0, <2>2, <4>1 DEF Drop, Counted, RowsOf
    <3>2. QuotaKept'
      BY <1>0, <1>c, <3>1 DEF QuotaKept, PortMappingsConstants
    <3>3. ASSUME NEW k \in Handler, k # h PROVE Fits(work[k], k)'
      <4>1. Alike(work'[k], work[k])
        BY <1>0, <2>2, <3>3 DEF Drop, Alike, Work
      <4>2. work[k].kind = "add" => work[k].pc = "lock" \/ lock'[work[k].on] = k
        BY <1>0, <2>1 DEF Fits
      <4>3. \A x : Alike(x, work[k]) => Fits(x, k)'
        BY <4>2, <3>1, <1>f
      <4> QED BY <4>1, <4>3 DEF Fits
    <3>4. Fits(work[h], h)'
      BY <2>2 DEF Drop, Fits
    <3> QED BY <3>2, <3>3, <3>4 DEF Roomy
  <2>3. \A q, p : /\ [w EXCEPT !.pc = q, !.ports = @ \ {p}].kind # "add"
                  /\ [w EXCEPT !.pc = q].kind # "add"
    BY <2>1 DEF Work
  <2>4. \/ \E p, q : Drop(h, p, [w EXCEPT !.pc = q, !.ports = @ \ {p}])
        \/ /\ UNCHANGED <<rows, managed>>
           /\ \E q, p : \/ Becomes(h, [w EXCEPT !.pc = q, !.ports = @ \ {p}])
                         \/ Becomes(h, [w EXCEPT !.pc = q])
    BY <1>6, Zenon DEF Forget, Goto
  <2>5. CASE \E p, q : Drop(h, p, [w EXCEPT !.pc = q, !.ports = @ \ {p}])
    BY <2>5, <2>2, <2>3
  <2>6. ASSUME UNCHANGED <<rows, managed>>, NEW u, u.kind # "add", Becomes(h, u) PROVE Roomy'
    BY <2>1, <2>6, <1>b DEF Fits
  <2> QED BY <2>3, <2>4, <2>5, <2>6
<1>7. ASSUME NEW h \in Handler, Put(h) PROVE Roomy'
  <2>1. /\ work[h].pc = "device" /\ UNCHANGED <<rows, managed, lock>>
        /\ Becomes(h, Done(work[h])) \/ \E u \in Failed(work[h]) : Becomes(h, u)
    BY <1>7 DEF Put
  <2>2. ASSUME NEW u \in Failed(work[h]), Becomes(h, u) PROVE Roomy'
    <3>1. u.kind # "add"
      BY <1>0, <2>1, <2>2, ShapeFailed DEF Adding
    <3> QED BY <2>1, <2>2, <3>1, <1>b DEF Fits
  <2>3. CASE Becomes(h, Done(work[h]))
    <3> DEFINE w == work[h]
               u == Done(w)
    <3>1. /\ Same(u, w) /\ u.kind = w.kind
          /\ \/ u.pc = "device" /\ u.ports = w.ports
             \/ ~Adding(w)
             \/ u.pc \in {"unlock", "check"} /\ u.ports = w.ports \ {w.port}
      BY <1>0, <2>1, ShapeDone
    <3>2. Fits(w, h)
      BY <1>0
    <3> HIDE DEF w, u
    <3>3. Fits(u, h)
      BY <2>1, <3>1, <3>2 DEF Fits, Same, Adding, w
    <3> QED BY <2>1, <2>3, <3>3, <1>b DEF u, w
  <2> QED BY <2>1, <2>2, <2>3
<1>8. ASSUME NEW i \in Instance, Expire(i) PROVE Roomy'
  <2>1. /\ UNCHANGED <<rows, managed, work>> /\ lock' = [lock EXCEPT ![i] = None]
        /\ ~Holds(work[lock[i]], i)
    BY <1>8 DEF Expire
  <2>2. \A j : Counted(j)' = Counted(j)
    BY <2>1 DEF Counted, RowsOf
  <2>3. ASSUME NEW k \in Handler PROVE Fits(work[k], k)'
    <3>1. Fits(work[k], k) /\ Shape(work[k])
      BY <1>0
    <3> QED BY <1>0, <2>1, <2>2, <3>1 DEF Fits, Shape, Idle, Holds
  <2> QED BY <1>0, <2>2, <2>3 DEF Roomy, QuotaKept
<1>9. CASE UNCHANGED vars
  BY <1>9 DEF vars, Roomy, QuotaKept, Fits, Counted, RowsOf
<1> QED
  BY <1>1, <1>2, <1>3, <1>4, <1>5, <1>6, <1>7, <1>8, <1>9 DEF Next

(* A step in which a handler goes on with what it has.                     *)
Keeps(u, w) ==
    Same(u, w) /\ u.kind = w.kind /\ u.ports = w.ports /\ u.added = w.added

(* What a handler without auto and strip does that changes nothing else: it*)
(* begins,                                                                 *)
Starts(w, u) ==
    /\ w.pc = "idle" /\ u.pc = "lock"
    /\ u.made = {} /\ u.gone = {} /\ u.added = <<>>
    /\ \/ u.kind = "add"
       \/ u.kind = "delete" /\ rows[u.port] = u.on

(* looks for a free port and goes on or takes back what it has made,       *)
Checks(w, u) ==
    /\ w.pc = "check" /\ u.on = w.on /\ u.made = w.made /\ u.gone = w.gone
    /\ \/ /\ u.pc = "reserve" /\ u.kind = w.kind /\ u.ports = w.ports
          /\ u.added = w.added
       \/ u.pc = "next" /\ u.kind = "back" /\ u.ports = w.made

(* finds an error and undoes what it has made,                             *)
Undoes(w, u) ==
    /\ w.pc \in {"reserve", "device"} /\ w.kind = "add"
    /\ Same(u, w) /\ u.kind = "undo" /\ u.ports = w.made /\ u.todo = w.added /\ ~u.read
    /\ u.pc \in {"device", "forget", "unlock"}
    /\ "host" \notin Faults /\ w.made # {} => u.pc # "unlock"

(* The ports a handler removes.                                            *)
Doomed(w) ==
    IF w.kind = "undo" THEN w.ports ELSE IF Adding(w) THEN {} ELSE {w.port}

(* finds no row to drop,                                                   *)
Misses(w, u) ==
    /\ w.pc = "forget" /\ Same(u, w) /\ u.kind = w.kind
    /\ \E p \in Doomed(w) : ~IsThere(w, p)
    /\ \/ u.pc = "unlock"
       \/ u.pc = "next" /\ u.ports = w.ports \ {w.port}

(* takes the next port of those it takes back,                             *)
Picks(w, u) ==
    /\ w.pc = "next" /\ w.kind = "back" /\ u.on = w.on /\ u.made = w.made
    /\ u.gone = w.gone /\ u.kind = w.kind /\ u.ports = w.ports
    /\ \/ u.pc = "unlock"
       \/ u.pc = "device" /\ u.port \in w.ports /\ u.todo = DevicesOf(u.port) /\ ~u.read

(* reads the devices of a machine,                                         *)
Reads(w, u) ==
    /\ w.pc = "device" /\ u.pc = "device" /\ Keeps(u, w) /\ u.todo = w.todo
    /\ u.read /\ u.seen = devices[w.on]

(* gives up after an error of the host,                                    *)
GivesUp(w, u) ==
    /\ "host" \in Faults /\ w.pc = "device" /\ Same(u, w) /\ u.kind = w.kind
    /\ \/ w.kind \in {"undo", "delete"} /\ u.pc = "unlock"
       \/ w.kind = "back" /\ u.pc = "next" /\ u.ports = w.ports \ {w.port}

(* has removed a device,                                                   *)
Removes(w, u) ==
    /\ w.pc = "device" /\ w.kind # "add" /\ w.read
    /\ Same(u, w) /\ u.kind = w.kind /\ u.ports = w.ports /\ ~u.read
    /\ u.todo = Tail(w.todo)
    /\ \/ u.pc = "device"
       \/ u.pc = "forget" /\ u.todo = <<>>

(* or has made one.                                                        *)
Makes(w, u) ==
    /\ w.pc = "device" /\ w.kind = "add" /\ w.read
    /\ Same(u, w) /\ u.kind = w.kind /\ ~u.read
    /\ u.todo = Tail(w.todo) /\ u.added = Append(w.added, Head(w.todo))
    /\ \/ u.pc = "device"
       \/ u.pc \in {"unlock", "check"} /\ u.todo = <<>>

(* The steps of a handler that change neither rows, devices nor locks.     *)
Quiet(w, u) ==
    \/ Starts(w, u) \/ Checks(w, u) \/ Undoes(w, u) \/ Misses(w, u) \/ Picks(w, u)
    \/ Reads(w, u) \/ GivesUp(w, u)
    \/ u = Idle /\ (w.pc = "lock" \/ "crash" \in Faults)
    \/ w.pc = "quota" /\ u.pc \in {"check", "unlock"} /\ Keeps(u, w)
    \/ Removes(w, u) /\ Head(w.todo) \notin w.seen

(* A request to delete a row that is gone takes a device of the row that   *)
(* has replaced it.                                                        *)
Tears(w, p) == w.kind = "delete" /\ p \in w.gone /\ rows[p] = w.on

(* The steps of a handler that no other handler sees in its own work.      *)
Turns(h) ==
    LET w == work[h]
        u == work'[h]
    IN  /\ torn \subseteq torn'
        /\ \/ Quiet(w, u) /\ UNCHANGED <<rows, devices, lock>>
           \/ /\ w.pc = "lock" /\ lock[w.on] = None /\ lock' = [lock EXCEPT ![w.on] = h]
              /\ Keeps(u, w) /\ ~u.read
              /\ \/ w.kind = "add" /\ u.pc = "quota"
                 \/ w.kind = "delete" /\ u.pc = "device" /\ u.todo = DevicesOf(w.port)
              /\ UNCHANGED <<rows, devices>>
           \/ /\ w.pc = "unlock" /\ u = Idle
              /\ lock' = [i \in Instance |-> IF lock[i] = h THEN None ELSE lock[i]]
              /\ UNCHANGED <<rows, devices>>
           \/ /\ w.pc = "reserve" /\ w.kind = "add" /\ rows[w.port] = None
              /\ rows' = [rows EXCEPT ![w.port] = w.on]
              /\ u.on = w.on /\ u.port = w.port /\ u.gone = w.gone /\ u.kind = w.kind
              /\ u.added = w.added /\ u.made = w.made \cup {w.port}
              /\ u.pc = "device" /\ u.todo = DevicesOf(w.port) /\ ~u.read
              /\ UNCHANGED <<devices, lock>>
           \/ /\ w.pc = "device" /\ w.read /\ UNCHANGED <<rows, lock>>
              /\ \/ /\ Makes(w, u)
                    /\ devices' = [devices EXCEPT ![w.on] = w.seen \cup {Head(w.todo)}]
                 \/ /\ Removes(w, u)
                    /\ devices' = [devices EXCEPT ![w.on] = w.seen \ {Head(w.todo)}]
                    /\ Tears(w, Head(w.todo)[1]) => Head(w.todo)[1] \in torn'

(* A row is dropped: the handler goes on, and others see that it is gone.  *)
Drops(h) ==
    LET w == work[h]
        u == work'[h]
    IN  \E p \in Doomed(w) :
          /\ w.pc = "forget" /\ IsThere(w, p)
          /\ Same(u, w) /\ u.kind = w.kind /\ u.ports = w.ports \ {p}
          /\ \/ u.pc \in {"unlock", "next"} /\ w.kind # "undo"
             \/ /\ w.kind = "undo" /\ u.todo = w.todo
                /\ u.pc = IF w.ports = {p} THEN "unlock" ELSE "forget"
          /\ rows' = [rows EXCEPT ![p] = None] /\ torn \ {p} \subseteq torn'
          /\ UNCHANGED <<devices, lock>>
          /\ \A k \in Handler \ {h} :
                work'[k] = IF p \in Knows(work[k])
                           THEN [work[k] EXCEPT !.gone = @ \cup {p}] ELSE work[k]

(* Every step, by what it does to rows, devices, locks and handlers.       *)
Actions ==
    \/ \E h \in Handler : \/ Turns(h) /\ \A k \in Handler \ {h} : work'[k] = work[k]
                          \/ Drops(h)
    \/ \E i \in Instance : /\ UNCHANGED <<rows, devices, work, torn>> /\ lock[i] # None
                           /\ lock' = [lock EXCEPT ![i] = None]
                           /\ ~Holds(work[lock[i]], i) \/ "expire" \in Faults

(* A device of a family that the host is asked for.                        *)
KnownFamily(d) == \E n \in DOMAIN Families : d[2] = Families[n]

(* What a handler that holds a lock knows of the devices it changes.       *)
Knowing(w, h) ==
    /\ w.kind \notin {"auto", "strip"}
    /\ w.pc \notin {"idle", "lock"} =>
         /\ lock[w.on] = h
         /\ w.read => w.seen = devices[w.on]
         /\ w.pc = "device" /\ w.kind = "add" =>
              /\ rows[w.port] = w.on /\ w.port \in w.made
              /\ \A d \in Device : Among(d, w.todo) => d[1] = w.port /\ KnownFamily(d)
         /\ w.kind = "add" => \A d \in devices[w.on] : d[1] \in w.made => Among(d, w.added)
         /\ w.pc \in {"device", "forget"} =>
              \A d \in devices[w.on] : d[1] \in Doomed(w) => Among(d, w.todo)

(* No machine has a port without a row, and what handlers know is true.    *)
Known ==
    /\ NothingHidden
    /\ \A i \in Instance : \A d \in devices[i] : KnownFamily(d)
    /\ \A h \in Handler : Knowing(work[h], h)

(* The rows a handler still has to answer for.                             *)
Mine(w) ==
    IF w.kind = "add" /\ w.pc # "unlock" THEN w.made
    ELSE IF w.kind \in {"undo", "back"} /\ w.pc # "unlock" THEN w.ports
    ELSE {}

(* They are its rows, and nobody has dropped one of them; a row that is to *)
(* be deleted may be gone.                                                 *)
Answers(w) ==
    /\ \A p \in Mine(w) : rows[p] = w.on /\ p \notin w.gone
    /\ w.kind \in {"undo", "back"} => w.ports \subseteq w.made
    /\ w.kind = "back" /\ w.pc \in {"device", "forget"} => w.port \in w.ports
    /\ w.kind = "add" /\ w.pc # "unlock" => w.gone = {}
    /\ w.kind = "delete" /\ w.pc \in {"lock", "device", "forget"} =>
         rows[w.port] = w.on \/ w.port \in w.gone

(* Every handler answers for its rows; no two answer for the same, because *)
(* they hold the lock of the instance.                                     *)
Owned == \A h \in Handler : Answers(work[h])

(* The rows whose devices a handler makes or removes.                      *)
Target(w) == IF w.pc \in {"device", "forget"} THEN
                IF Adding(w) THEN {w.port} ELSE Doomed(w)
             ELSE {}

(* What is on its lists are the devices of these rows.                     *)
Attending(w) ==
    /\ w.kind = "add" => \A d \in Device : Among(d, w.added) => d[1] \in w.made
    /\ w.pc \in {"device", "forget"} => \A d \in Device : Among(d, w.todo) => d[1] \in Target(w)
    /\ w.pc = "device" /\ w.kind = "add" =>
         \A n \in DOMAIN Families : \/ DevicesOf(w.port)[n] \in devices[w.on]
                                    \/ Among(DevicesOf(w.port)[n], w.todo)

(* A handler that holds the lock of the instance makes or removes the row. *)
Attended(p, h) ==
    /\ lock[rows[p]] = h /\ work[h].on = rows[p]
    /\ p \in Target(work[h]) /\ p \notin work[h].gone

(* Every row has its devices, or a handler that is at them, or has lost    *)
(* them to the deletion of the row before.                                 *)
Served ==
    /\ \A h \in Handler : Attending(work[h])
    /\ \A p \in Port : rows[p] # None =>
         \/ p \in torn
         \/ \A n \in DOMAIN Families : DevicesOf(p)[n] \in devices[rows[p]]
         \/ \E h \in Handler : Attended(p, h)

(* The actions of PortMappings do no more than that.                       *)
LEMMA Effects ==
    ASSUME PortMappingsConstants, Faults \cap {"auto", "transfer", "unheard"} = {}, Typed,
           \A h \in Handler : work[h].kind \notin {"auto", "strip"}, Next
    PROVE  Actions
<1>0. /\ lock \in [Instance -> Handler \cup {None}] /\ work \in [Handler -> Work]
      /\ \A h \in Handler : /\ Shape(work[h]) /\ work[h] \in Work
                            /\ work[h].kind \notin {"auto", "strip"}
  BY DEF Typed
<1>i. Idle \in Work /\ Idle.kind = "none" /\ Idle.pc = "idle" /\ Idle.gone = {}
      /\ Idle.made = {} /\ Idle.added = <<>>
  BY DEF Idle, Work
<1>b. ASSUME NEW h \in Handler, NEW u, Becomes(h, u)
      PROVE  work'[h] = u /\ \A k \in Handler \ {h} : work'[k] = work[k]
  BY <1>0, <1>b DEF Becomes
<1>q. ASSUME NEW h \in Handler, NEW u, Becomes(h, u), UNCHANGED <<rows, devices, lock>>,
             Quiet(work[h], u), UNCHANGED torn
      PROVE  Actions
  BY <1>q, <1>b DEF Actions, Turns
<1>1. ASSUME NEW h \in Handler, NEW i \in Instance, NEW ps, Add(h, i, ps) PROVE Actions
  <2> DEFINE u == [Idle EXCEPT !.pc = "lock", !.kind = "add", !.on = i, !.ports = ps]
  <2>1. /\ u.pc = "lock" /\ u.kind = "add" /\ u.made = {} /\ u.gone = {}
        /\ u.added = <<>>
    BY <1>i DEF Work
  <2>2. Quiet(work[h], u)
    BY <1>1, <1>i, <2>1 DEF Add, Quiet, Starts
  <2> QED BY <1>1, <2>2, <1>q DEF Add
<1>2. ASSUME NEW h \in Handler, NEW p \in Port, Delete(h, p) PROVE Actions
  <2> DEFINE u == [Idle EXCEPT !.pc = "lock", !.kind = "delete", !.on = rows[p], !.port = p]
  <2>1. /\ u.pc = "lock" /\ u.kind = "delete" /\ u.made = {} /\ u.gone = {}
        /\ u.added = <<>> /\ u.on = rows[p] /\ u.port = p
    BY <1>i DEF Work
  <2>2. Quiet(work[h], u)
    BY <1>2, <1>i, <2>1 DEF Delete, Quiet, Starts
  <2> QED BY <1>2, <2>2, <1>q DEF Delete
<1>3. ASSUME NEW h \in Handler, Lock(h) PROVE Actions
  <2> DEFINE w == work[h]
  <2>1. /\ w \in Work /\ w.pc = "lock" /\ lock[w.on] = None /\ ~w.read
        /\ w.kind \in {"add", "delete"} /\ UNCHANGED <<rows, devices, torn>>
        /\ lock' = [lock EXCEPT ![w.on] = h]
    BY <1>0, <1>3 DEF Lock, Free, Shape
  <2>2. CASE w.kind = "add"
    <3> DEFINE u == [w EXCEPT !.pc = "quota"]
    <3>1. Keeps(u, w) /\ ~u.read /\ u.pc = "quota"
      BY <2>1 DEF Work, Keeps, Same
    <3>2. Becomes(h, u)
      BY <1>3, <2>2 DEF Lock, Goto
    <3>3. work'[h] = u /\ \A k \in Handler \ {h} : work'[k] = work[k]
      BY <3>2, <1>b
    <3> QED BY <2>1, <2>2, <3>1, <3>3 DEF Actions, Turns
  <2>3. CASE w.kind = "delete"
    <3> DEFINE u == [w EXCEPT !.pc = "device", !.todo = DevicesOf(w.port)]
    <3>1. Keeps(u, w) /\ ~u.read /\ u.pc = "device" /\ u.todo = DevicesOf(w.port)
      BY <2>1 DEF Work, Keeps, Same
    <3>2. Becomes(h, u)
      BY <1>3, <2>3 DEF Lock
    <3>3. work'[h] = u /\ \A k \in Handler \ {h} : work'[k] = work[k]
      BY <3>2, <1>b
    <3> QED BY <2>1, <2>3, <3>1, <3>3 DEF Actions, Turns
  <2> QED BY <2>1, <2>2, <2>3
<1>4. ASSUME NEW h \in Handler, Busy(h) \/ Crash(h) PROVE Actions
  BY <1>4, <1>q DEF Busy, Crash, Quiet
<1>5. ASSUME NEW h \in Handler, Unlock(h) PROVE Actions
  BY <1>5, <1>b DEF Unlock, Actions, Turns
<1>6. ASSUME NEW h \in Handler, Quota(h) PROVE Actions
  <2>1. PICK p \in {"check", "unlock"} : Becomes(h, [work[h] EXCEPT !.pc = p])
    BY <1>6 DEF Quota, Goto
  <2> DEFINE u == [work[h] EXCEPT !.pc = p]
  <2>2. Keeps(u, work[h]) /\ u.pc = p
    BY <1>0 DEF Work, Keeps, Same
  <2>3. Quiet(work[h], u)
    BY <1>6, <2>2 DEF Quota, Quiet
  <2> QED BY <1>6, <2>1, <2>3, <1>q DEF Quota
<1>7. ASSUME NEW h \in Handler, Check(h) PROVE Actions
  <2> DEFINE w == work[h]
  <2>1. w \in Work /\ w.pc = "check" /\ UNCHANGED <<rows, devices, lock, torn>>
    BY <1>0, <1>7 DEF Check
  <2>2. ASSUME NEW p, NEW u, u = [w EXCEPT !.pc = "reserve", !.port = p], Becomes(h, u)
        PROVE  Actions
    <3>1. /\ u.pc = "reserve" /\ u.kind = w.kind /\ u.on = w.on /\ u.ports = w.ports
          /\ u.made = w.made /\ u.gone = w.gone /\ u.added = w.added
      BY <2>1, <2>2 DEF Work
    <3> QED BY <2>1, <2>2, <3>1, <1>q DEF Quiet, Checks
  <2>3. ASSUME NEW u, u = [w EXCEPT !.pc = "next", !.kind = "back", !.ports = w.made],
               Becomes(h, u)
        PROVE  Actions
    <3>1. /\ u.pc = "next" /\ u.kind = "back" /\ u.on = w.on /\ u.ports = w.made
          /\ u.made = w.made /\ u.gone = w.gone
      BY <2>1, <2>3 DEF Work
    <3> QED BY <2>1, <2>3, <3>1, <1>q DEF Quiet, Checks
  <2> QED BY <1>7, <2>2, <2>3 DEF Check
<1>8. ASSUME NEW h \in Handler, Reserve(h) PROVE Actions
  <2> DEFINE w == work[h]
  <2>1. /\ w \in Work /\ Shape(w) /\ w.pc = "reserve" /\ w.kind = "add" /\ ~w.read
        /\ UNCHANGED <<devices, lock, torn>>
    BY <1>0, <1>8 DEF Reserve, Shape
  <2>2. ASSUME NEW u \in Undo(w), Becomes(h, u), UNCHANGED <<rows, managed>> PROVE Actions
    <3>1. Undoes(w, u)
      BY <2>1, <2>2, ShapeUndo DEF Undoes
    <3> QED BY <2>1, <2>2, <3>1, <1>q DEF Quiet
  <2>3. ASSUME rows[w.port] = None, rows' = [rows EXCEPT ![w.port] = w.on],
               NEW u, Becomes(h, u),
               u = [w EXCEPT !.pc = "device", !.made = @ \cup {w.port},
                             !.todo = DevicesOf(w.port)]
        PROVE  Actions
    <3>1. /\ u.on = w.on /\ u.port = w.port /\ u.gone = w.gone /\ u.kind = w.kind
          /\ u.added = w.added /\ u.made = w.made \cup {w.port}
          /\ u.pc = "device" /\ u.todo = DevicesOf(w.port) /\ ~u.read
      BY <2>1, <2>3 DEF Work
    <3>2. work'[h] = u /\ \A k \in Handler \ {h} : work'[k] = work[k]
      BY <2>3, <1>b
    <3>3. Turns(h)
      BY <2>1, <2>3, <3>1, <3>2 DEF Turns
    <3> QED BY <3>2, <3>3 DEF Actions
  <2>4. \/ \E u \in Undo(w) : Becomes(h, u) /\ UNCHANGED <<rows, managed>>
        \/ /\ rows[w.port] = None /\ rows' = [rows EXCEPT ![w.port] = w.on]
           /\ Becomes(h, [w EXCEPT !.pc = "device", !.made = @ \cup {w.port},
                                   !.todo = DevicesOf(w.port)])
    BY <1>8 DEF Reserve
  <2> QED BY <2>2, <2>3, <2>4
<1>9. ASSUME NEW h \in Handler, Forget(h) PROVE Actions
  <2> DEFINE w == work[h]
  <2>1. /\ w \in Work /\ w.pc = "forget" /\ w.kind \in {"undo", "back", "delete"}
        /\ UNCHANGED <<devices, lock>>
    BY <1>0, <1>9 DEF Forget, Shape
  <2>d. ASSUME NEW p \in Doomed(w), IsThere(w, p), NEW u, Drop(h, p, u),
               Same(u, w), u.kind = w.kind, u.ports = w.ports \ {p},
               \/ u.pc \in {"unlock", "next"} /\ w.kind # "undo"
               \/ /\ w.kind = "undo" /\ u.todo = w.todo
                  /\ u.pc = IF w.ports = {p} THEN "unlock" ELSE "forget"
        PROVE  Actions
    <3>1. /\ work'[h] = u /\ rows' = [rows EXCEPT ![p] = None]
          /\ torn \ {p} \subseteq torn'
          /\ \A k \in Handler \ {h} :
                work'[k] = IF p \in Knows(work[k])
                           THEN [work[k] EXCEPT !.gone = @ \cup {p}] ELSE work[k]
      BY <2>d DEF Drop
    <3>2. Drops(h)
      BY <2>1, <2>d, <3>1 DEF Drops
    <3> QED BY <3>2 DEF Actions
  <2>2. CASE w.kind = "undo"
    <3>1. ASSUME NEW p \in w.ports, ~IsThere(w, p), Goto(h, "unlock"),
                 UNCHANGED <<rows, managed, torn>>
          PROVE  Actions
      <4> DEFINE u == [w EXCEPT !.pc = "unlock"]
      <4>1. Same(u, w) /\ u.kind = w.kind /\ u.pc = "unlock"
        BY <2>1 DEF Work, Same
      <4>2. Misses(w, u)
        BY <2>1, <2>2, <3>1, <4>1 DEF Misses, Doomed
      <4> QED BY <2>1, <3>1, <4>2, <1>q DEF Goto, Quiet
    <3>2. ASSUME NEW p \in w.ports, IsThere(w, p), NEW u, Drop(h, p, u),
                 u = [w EXCEPT !.pc = IF w.ports = {p} THEN "unlock" ELSE @,
                               !.ports = @ \ {p}]
          PROVE  Actions
      <4>1. /\ Same(u, w) /\ u.kind = w.kind /\ u.ports = w.ports \ {p} /\ u.todo = w.todo
            /\ u.pc = IF w.ports = {p} THEN "unlock" ELSE "forget"
        BY <2>1, <3>2 DEF Work, Same
      <4>2. p \in Doomed(w)
        BY <2>2 DEF Doomed
      <4> QED BY <2>2, <3>2, <4>1, <4>2, <2>d
    <3> QED BY <1>9, <2>2, <3>1, <3>2 DEF Forget
  <2>3. CASE w.kind # "undo"
    <3>1. PICK u : /\ u = [w EXCEPT !.pc = IF w.kind = "delete" THEN "unlock" ELSE "next",
                                    !.ports = @ \ {w.port}]
                   /\ \/ IsThere(w, w.port) /\ Drop(h, w.port, u)
                      \/ /\ ~IsThere(w, w.port) /\ Becomes(h, u)
                         /\ UNCHANGED <<rows, managed, torn>>
      BY <1>9, <2>3 DEF Forget
    <3>2. /\ Same(u, w) /\ u.kind = w.kind /\ u.ports = w.ports \ {w.port}
          /\ u.pc = IF w.kind = "delete" THEN "unlock" ELSE "next"
      BY <2>1, <3>1 DEF Work, Same
    <3>3. w.port \in Doomed(w)
      BY <2>1, <2>3 DEF Doomed, Adding
    <3>4. CASE IsThere(w, w.port) /\ Drop(h, w.port, u)
      BY <2>3, <3>2, <3>3, <3>4, <2>d
    <3>5. CASE ~IsThere(w, w.port) /\ Becomes(h, u) /\ UNCHANGED <<rows, managed, torn>>
      <4>1. Misses(w, u)
        BY <2>1, <3>2, <3>3, <3>5 DEF Misses
      <4> QED BY <2>1, <3>5, <4>1, <1>q DEF Quiet
    <3> QED BY <3>1, <3>4, <3>5
  <2> QED BY <2>2, <2>3
<1>10. ASSUME NEW h \in Handler, NextPort(h) PROVE Actions
  <2> DEFINE w == work[h]
  <2>1. /\ w \in Work /\ w.pc = "next" /\ w.kind = "back" /\ ~w.read
        /\ UNCHANGED <<rows, devices, lock, torn>>
    BY <1>0, <1>10 DEF NextPort, Shape
  <2>2. ASSUME NEW u, Becomes(h, u), u = [w EXCEPT !.pc = "unlock"] PROVE Actions
    <3>1. /\ u.on = w.on /\ u.made = w.made /\ u.gone = w.gone /\ u.kind = w.kind
          /\ u.ports = w.ports /\ u.pc = "unlock"
      BY <2>1, <2>2 DEF Work
    <3> QED BY <2>1, <2>2, <3>1, <1>q DEF Quiet, Picks
  <2>3. ASSUME NEW p \in w.ports, NEW u, Becomes(h, u),
               u = [w EXCEPT !.pc = "device", !.port = p, !.todo = DevicesOf(p)]
        PROVE  Actions
    <3>1. /\ u.on = w.on /\ u.made = w.made /\ u.gone = w.gone /\ u.kind = w.kind
          /\ u.ports = w.ports /\ u.pc = "device" /\ u.port = p /\ u.todo = DevicesOf(p)
          /\ ~u.read
      BY <2>1, <2>3 DEF Work
    <3> QED BY <2>1, <2>3, <3>1, <1>q DEF Quiet, Picks
  <2> QED BY <1>10, <2>1, <2>2, <2>3 DEF NextPort, Goto
<1>f. ASSUME NEW h \in Handler, NEW u \in Failed(work[h]), Becomes(h, u),
             work[h].pc = "device", UNCHANGED <<rows, devices, lock, torn>>,
             "host" \in Faults \/ Adding(work[h])
      PROVE  Actions
  <2> DEFINE w == work[h]
  <2>1. w.kind \in {"add", "undo", "back", "delete"} /\ Shape(w)
    BY <1>0, <1>f DEF Shape, Work
  <2>2. Undoes(w, u) \/ GivesUp(w, u)
    BY <1>f, <2>1, ShapeFailed DEF Undoes, GivesUp, Adding
  <2> QED BY <1>f, <2>2, <1>q DEF Quiet
<1>11. ASSUME NEW h \in Handler, Fetch(h) PROVE Actions
  <2> DEFINE w == work[h]
  <2>1. w \in Work /\ w.pc = "device" /\ UNCHANGED <<rows, devices, lock, torn>>
    BY <1>0, <1>11 DEF Fetch
  <2>2. ASSUME NEW u, Becomes(h, u), u = [w EXCEPT !.read = TRUE, !.seen = devices[w.on]]
        PROVE  Actions
    <3>1. /\ u.pc = "device" /\ Keeps(u, w) /\ u.todo = w.todo
          /\ u.read /\ u.seen = devices[w.on]
      BY <2>1, <2>2 DEF Work, Keeps, Same
    <3> QED BY <2>1, <2>2, <3>1, <1>q DEF Quiet, Reads
  <2> QED BY <1>11, <2>1, <2>2, <1>f DEF Fetch
<1>12. ASSUME NEW h \in Handler, Put(h) PROVE Actions
  <2> DEFINE w == work[h]
             u == Done(w)
  <2>1. /\ w \in Work /\ Shape(w) /\ w.pc = "device" /\ w.read
        /\ UNCHANGED <<rows, lock>> /\ w.kind \notin {"auto", "strip"}
    BY <1>0, <1>12 DEF Put
  <2>2. IF w.kind = "add" THEN Makes(w, u) ELSE Removes(w, u)
    BY <2>1, ShapeDone DEF Makes, Removes, Adding
  <2>3. \/ /\ ~Adding(w) /\ Head(w.todo) \notin w.seen /\ Becomes(h, u)
           /\ UNCHANGED <<devices, torn>>
        \/ /\ torn' = IF Tears(w, Head(w.todo)[1]) THEN torn \cup {Head(w.todo)[1]}
                      ELSE torn
           /\ devices' = [devices EXCEPT ![w.on] = IF Adding(w)
                               THEN w.seen \cup {Head(w.todo)} ELSE w.seen \ {Head(w.todo)}]
           /\ Becomes(h, u)
        \/ /\ ("host" \in Faults \/ Adding(w)) /\ UNCHANGED <<devices, torn>>
           /\ \E x \in Failed(w) : Becomes(h, x)
    BY <1>12 DEF Put, Tears
  <2>4. CASE /\ ~Adding(w) /\ Head(w.todo) \notin w.seen /\ Becomes(h, u)
             /\ UNCHANGED <<devices, torn>>
    BY <2>1, <2>2, <2>4, <1>q DEF Quiet, Adding
  <2>5. CASE /\ torn' = IF Tears(w, Head(w.todo)[1]) THEN torn \cup {Head(w.todo)[1]}
                      ELSE torn
             /\ devices' = [devices EXCEPT ![w.on] = IF Adding(w)
                               THEN w.seen \cup {Head(w.todo)} ELSE w.seen \ {Head(w.todo)}]
             /\ Becomes(h, u)
    <3>1. work'[h] = u /\ \A k \in Handler \ {h} : work'[k] = work[k]
      BY <2>5, <1>b
    <3> HIDE DEF u
    <3>2. Turns(h)
      BY <2>1, <2>2, <2>5, <3>1 DEF Turns, Adding
    <3> QED BY <3>1, <3>2 DEF Actions
  <2>6. CASE /\ ("host" \in Faults \/ Adding(w)) /\ UNCHANGED <<devices, torn>>
             /\ \E x \in Failed(w) : Becomes(h, x)
    BY <2>1, <2>6, <1>f
  <2> QED BY <2>3, <2>4, <2>5, <2>6
<1>13. ASSUME NEW i \in Instance, Expire(i) PROVE Actions
  BY <1>13 DEF Expire, Actions
<1> QED
  BY <1>1, <1>2, <1>3, <1>4, <1>5, <1>6, <1>7, <1>8, <1>9, <1>10, <1>11, <1>12, <1>13
     DEF Next, Strip, AutoPort

(* The devices of a port are one of each family.                           *)
LEMMA FamilyDevices ==
    ASSUME PortMappingsConstants, NEW p \in Port, NEW d \in Device
    PROVE  Among(d, DevicesOf(p)) <=> d[1] = p /\ KnownFamily(d)
<1>1. CASE Families = <<"v4">>
  <2>1. DevicesOf(p) = <<<<p, "v4">>>>
    BY <1>1 DEF DevicesOf
  <2>2. KnownFamily(d) <=> d[2] = "v4"
    BY <1>1 DEF KnownFamily
  <2>3. Among(d, DevicesOf(p)) <=> d = <<p, "v4">>
    BY <2>1 DEF Among
  <2> QED BY <2>2, <2>3 DEF Device
<1>2. CASE Families = <<"v4", "v6">>
  <2>1. DevicesOf(p) = <<<<p, "v4">>, <<p, "v6">>>>
    BY <1>2 DEF DevicesOf
  <2>2. KnownFamily(d) <=> d[2] = "v4" \/ d[2] = "v6"
    BY <1>2 DEF KnownFamily
  <2>3. Among(d, DevicesOf(p)) <=> d = <<p, "v4">> \/ d = <<p, "v6">>
    BY <2>1 DEF Among
  <2> QED BY <2>2, <2>3 DEF Device
<1> QED BY <1>1, <1>2 DEF PortMappingsConstants

(* Every step keeps Known: under the lock of an instance nobody else       *)
(* changes its devices, so that what was read is still true when it is     *)
(* written back.                                                           *)
LEMMA KnownStep ==
    ASSUME PortMappingsConstants, "expire" \notin Faults, Typed, Typed', Known, Actions
    PROVE  Known'
<1>0. /\ rows \in [Port -> Instance \cup {None}] /\ devices \in [Instance -> SUBSET Device]
      /\ lock \in [Instance -> Handler \cup {None}]
      /\ \A h \in Handler : /\ Shape(work[h]) /\ work[h] \in Work /\ Knowing(work[h], h)
                            /\ Shape(work'[h]) /\ work'[h] \in Work
      /\ None \notin Instance /\ None \notin Handler
  BY DEF Typed, Known, PortMappingsConstants
<1>h. /\ \A i \in Instance : \A d \in devices[i] : rows[d[1]] = i /\ KnownFamily(d)
      /\ \A i \in Instance : \A d \in devices[i] : d \in Device /\ d[1] \in Port
  BY <1>0 DEF Known, NothingHidden, Device
<1>i. Idle.kind = "none" /\ Idle.pc = "idle"
  BY DEF Idle
<1>r. ASSUME NEW k \in Handler, NEW x,
             Same(x, work[k]), x.kind = work[k].kind, x.pc = work[k].pc,
             x.ports = work[k].ports, x.added = work[k].added, x.todo = work[k].todo,
             x.read = work[k].read, x.seen = work[k].seen,
             work[k].pc \notin {"idle", "lock"} =>
                 /\ lock'[work[k].on] = k /\ devices'[work[k].on] = devices[work[k].on]
                 /\ rows[work[k].port] = work[k].on => rows'[work[k].port] = work[k].on
      PROVE  Knowing(x, k)'
  <2> DEFINE w == work[k]
  <2>1. Knowing(w, k)
    BY <1>0
  <2>2. Doomed(x) = Doomed(w)
    BY <1>r DEF Doomed, Same, Adding
  <2> HIDE DEF w
  <2> QED BY <1>r, <2>1, <2>2 DEF Knowing, Same, w, KnownFamily
  
<1>s. ASSUME NEW h \in Handler, \A k \in Handler \ {h} : work'[k] = work[k],
             \A k \in Handler \ {h} : work[k].pc \notin {"idle", "lock"} =>
                 /\ lock'[work[k].on] = k /\ devices'[work[k].on] = devices[work[k].on]
                 /\ rows[work[k].port] = work[k].on => rows'[work[k].port] = work[k].on,
             \A i \in Instance : \A d \in devices'[i] : rows'[d[1]] = i /\ KnownFamily(d),
             Knowing(work[h], h)'
      PROVE  Known'
  <2>1. ASSUME NEW k \in Handler \ {h} PROVE Knowing(work[k], k)'
    <3>1. \A x : x = work[k] => Knowing(x, k)'
      BY <1>s, <1>r DEF Same
    <3> QED BY <1>s, <3>1 DEF Knowing
  <2> QED BY <1>s, <2>1 DEF Known, NothingHidden, KnownFamily
<1>o. ASSUME NEW h \in Handler, NEW k \in Handler \ {h},
             work[h].pc \notin {"idle", "lock"}, work[k].pc \notin {"idle", "lock"}
      PROVE  lock[work[k].on] = k /\ work[k].on \in Instance /\ work[k].on # work[h].on
  BY <1>0, <1>o DEF Knowing, Shape
<1>1. ASSUME NEW h \in Handler, Quiet(work[h], work'[h]), UNCHANGED <<rows, devices, lock>>,
             \A k \in Handler \ {h} : work'[k] = work[k]
      PROVE  Known'
  <2> DEFINE w == work[h]
             u == work'[h]
  <2>1. /\ Shape(w) /\ Shape(u) /\ Knowing(w, h) /\ w \in Work /\ u \in Work
    BY <1>0
  <2>2. u.kind \notin {"auto", "strip"}
    BY <1>1, <1>i, <2>1 DEF Quiet, Starts, Checks, Undoes, Misses, Picks, Reads, GivesUp, Removes,
       Knowing, Keeps, Same
  <2>3. CASE u.pc \in {"idle", "lock"}
    <3>1. Knowing(work[h], h)'
      BY <2>2, <2>3 DEF Knowing
    <3> QED BY <1>0, <1>1, <1>h, <3>1, <1>s DEF Knowing, Shape
  <2>4. CASE u.pc \notin {"idle", "lock"}
    <3>1. u.on = w.on /\ lock[w.on] = h /\ w.on \in Instance
      BY <1>1, <1>i, <2>1, <2>4 DEF Quiet, Starts, Checks, Undoes, Misses, Picks, Reads, GivesUp,
         Removes, Knowing, Keeps, Same, Shape
    <3>2. u.read => u.seen = devices[w.on]
      BY <1>1, <1>i, <2>1, <2>4 DEF Quiet, Starts, Checks, Undoes, Misses, Picks, Reads, GivesUp,
         Removes, Shape
    <3>3. u.pc = "device" /\ u.kind = "add" =>
              /\ rows[u.port] = u.on /\ u.port \in u.made
              /\ \A d \in Device : Among(d, u.todo) => d[1] = u.port /\ KnownFamily(d)
      BY <1>1, <1>i, <2>1, <2>4 DEF Quiet, Starts, Checks, Undoes, Misses, Picks, Reads, GivesUp,
         Removes, Knowing, Keeps, Same
    <3>4. u.kind = "add" => \A d \in devices[w.on] : d[1] \in u.made => Among(d, u.added)
      BY <1>1, <1>i, <2>1, <2>4 DEF Quiet, Starts, Checks, Undoes, Misses, Picks, Reads, GivesUp,
         Removes, Knowing, Keeps, Same, Shape
    <3>5. u.pc \in {"device", "forget"} =>
              \A d \in devices[w.on] : d[1] \in Doomed(u) => Among(d, u.todo)
      <4>1. CASE Undoes(w, u)
        BY <2>1, <4>1 DEF Undoes, Knowing, Doomed, Same, Shape
      <4>2. CASE Picks(w, u)
        <5>1. ASSUME u.pc = "device", NEW d \in devices[w.on], d[1] \in Doomed(u)
              PROVE  Among(d, u.todo)
          <6>1. u.port \in w.ports /\ u.todo = DevicesOf(u.port) /\ d[1] = u.port
            BY <4>2, <5>1 DEF Picks, Doomed, Adding
          <6>2. u.port \in Port /\ d \in Device /\ KnownFamily(d)
            BY <1>h, <2>1, <3>1, <6>1 DEF Work
          <6> QED BY <6>1, <6>2, FamilyDevices
        <5> QED BY <4>2, <5>1 DEF Picks
      <4>3. CASE Reads(w, u)
        BY <2>1, <4>3 DEF Reads, Knowing, Doomed, Same, Keeps, Adding
      <4>4. CASE Removes(w, u) /\ Head(w.todo) \notin w.seen
        <5>1. /\ w.todo \in Seq(Device) /\ w.todo # <<>> /\ Doomed(u) = Doomed(w)
              /\ w.seen = devices[w.on] /\ u.todo = Tail(w.todo)
          BY <2>1, <4>4 DEF Removes, Shape, Work, Knowing, Doomed, Same, Adding
        <5>2. \A d : Among(d, w.todo) <=> d = Head(w.todo) \/ Among(d, Tail(w.todo))
          BY <5>1, Lists
        <5> QED BY <2>1, <4>4, <5>1, <5>2 DEF Removes, Knowing
      <4> QED BY <1>1, <1>i, <2>4, <4>1, <4>2, <4>3, <4>4 DEF Quiet, Starts, Checks, Misses,
         GivesUp
    <3>6. Knowing(work[h], h)'
      BY <1>1, <2>2, <3>1, <3>2, <3>3, <3>4, <3>5 DEF Knowing, KnownFamily
    <3> QED BY <1>0, <1>1, <1>h, <3>6, <1>s DEF Knowing, Shape
  <2> QED BY <2>3, <2>4
<1>2. ASSUME NEW h \in Handler, work[h].pc = "lock", lock[work[h].on] = None,
             lock' = [lock EXCEPT ![work[h].on] = h], Keeps(work'[h], work[h]), ~work'[h].read,
             \/ work[h].kind = "add" /\ work'[h].pc = "quota"
             \/ /\ work[h].kind = "delete" /\ work'[h].pc = "device"
                /\ work'[h].todo = DevicesOf(work[h].port),
             UNCHANGED <<rows, devices>>, \A k \in Handler \ {h} : work'[k] = work[k]
      PROVE  Known'
  <2> DEFINE w == work[h]
             u == work'[h]
  <2>1. /\ Shape(w) /\ Shape(u) /\ w.on \in Instance /\ w \in Work
        /\ u.on = w.on /\ u.port = w.port /\ u.made = w.made /\ u.kind = w.kind
        /\ lock'[w.on] = h
    BY <1>0, <1>2 DEF Shape, Keeps, Same
  <2>2. u.kind = "add" => \A d \in devices[w.on] : d[1] \in u.made => Among(d, u.added)
    BY <1>2, <2>1 DEF Shape
  <2>3. u.pc \in {"device", "forget"} =>
              \A d \in devices[w.on] : d[1] \in Doomed(u) => Among(d, u.todo)
    <3>1. ASSUME u.pc = "device", NEW d \in devices[w.on], d[1] \in Doomed(u)
          PROVE  Among(d, u.todo)
      <4>1. w.kind = "delete" /\ u.todo = DevicesOf(w.port) /\ d[1] = w.port /\ w.port \in Port
        BY <1>2, <2>1, <3>1 DEF Doomed, Adding, Shape
      <4>2. d \in Device /\ KnownFamily(d)
        BY <1>h, <2>1
      <4> QED BY <4>1, <4>2, FamilyDevices
    <3> QED BY <1>2, <3>1
  <2>4. Knowing(work[h], h)'
    BY <1>2, <2>1, <2>2, <2>3 DEF Knowing, KnownFamily
  <2>5. ASSUME NEW k \in Handler \ {h}, work[k].pc \notin {"idle", "lock"}
        PROVE  lock'[work[k].on] = k
    BY <1>0, <1>2, <2>1, <2>5 DEF Knowing, Shape
  <2> QED BY <1>0, <1>2, <1>h, <2>4, <2>5, <1>s
<1>3. ASSUME NEW h \in Handler, work[h].pc = "unlock", work'[h] = Idle,
             lock' = [i \in Instance |-> IF lock[i] = h THEN None ELSE lock[i]],
             UNCHANGED <<rows, devices>>, \A k \in Handler \ {h} : work'[k] = work[k]
      PROVE  Known'
  <2>1. Knowing(work[h], h)'
    BY <1>3, <1>i DEF Knowing
  <2> QED BY <1>0, <1>3, <1>h, <2>1, <1>s DEF Knowing, Shape
<1>4. ASSUME NEW h \in Handler, work[h].pc = "reserve", work[h].kind = "add",
             rows[work[h].port] = None, rows' = [rows EXCEPT ![work[h].port] = work[h].on],
             work'[h].on = work[h].on, work'[h].port = work[h].port,
             work'[h].kind = work[h].kind, work'[h].added = work[h].added,
             work'[h].made = work[h].made \cup {work[h].port},
             work'[h].pc = "device", work'[h].todo = DevicesOf(work[h].port), ~work'[h].read,
             UNCHANGED <<devices, lock>>, \A k \in Handler \ {h} : work'[k] = work[k]
      PROVE  Known'
  <2> DEFINE w == work[h]
             u == work'[h]
  <2>1. /\ Knowing(w, h) /\ w.on \in Instance /\ w.port \in Port /\ lock[w.on] = h
    BY <1>0, <1>4 DEF Shape, Knowing
  <2>2. \A i \in Instance : \A d \in devices[i] : d[1] # w.port /\ rows'[d[1]] = i
    BY <1>0, <1>h, <1>4, <2>1
  <2>3. \A d \in Device : Among(d, u.todo) => d[1] = u.port /\ KnownFamily(d)
    BY <1>4, <2>1, FamilyDevices
  <2>4. \A d \in devices[w.on] : d[1] \in u.made => Among(d, u.added)
    BY <1>4, <2>1, <2>2 DEF Knowing
  <2>5. Doomed(u) = {}
    BY <1>4 DEF Doomed, Adding
  <2>6. rows'[u.port] = u.on
    BY <1>0, <1>4, <2>1
  <2>7. Knowing(work[h], h)'
    BY <1>4, <2>1, <2>3, <2>4, <2>5, <2>6 DEF Knowing, KnownFamily
  <2>8. ASSUME NEW k \in Handler \ {h}, work[k].pc \notin {"idle", "lock"}
        PROVE  /\ lock'[work[k].on] = k
               /\ rows[work[k].port] = work[k].on => rows'[work[k].port] = work[k].on
    <3>1. work[k].on \in Instance /\ lock[work[k].on] = k
      BY <1>0, <2>8 DEF Knowing, Shape
    <3>2. work[k].port \in Port \cup {None}
      BY <1>0 DEF Work
    <3> QED BY <1>0, <1>4, <2>1, <3>1, <3>2
  <2>9. \A i \in Instance : \A d \in devices'[i] : rows'[d[1]] = i /\ KnownFamily(d)
    BY <1>4, <1>h, <2>2
  <2> QED BY <1>4, <2>7, <2>8, <2>9, <1>s
<1>5. ASSUME NEW h \in Handler, work[h].pc = "device", work[h].read,
             UNCHANGED <<rows, lock>>, \A k \in Handler \ {h} : work'[k] = work[k],
             Makes(work[h], work'[h]),
             devices' = [devices EXCEPT ![work[h].on] =
                            work[h].seen \cup {Head(work[h].todo)}]
      PROVE  Known'
  <2> DEFINE w == work[h]
             u == work'[h]
             d0 == Head(w.todo)
  <2>1. /\ Knowing(w, h) /\ Shape(u) /\ w.on \in Instance /\ lock[w.on] = h
        /\ w.seen = devices[w.on] /\ w.todo \in Seq(Device) /\ w.todo # <<>>
        /\ w.added \in Seq(Device)
    BY <1>0, <1>5 DEF Shape, Knowing, Work
  <2>2. /\ d0 \in Device /\ \A d : Among(d, w.todo) <=> d = d0 \/ Among(d, Tail(w.todo))
        /\ \A d : Among(d, Append(w.added, d0)) <=> Among(d, w.added) \/ d = d0
    BY <2>1, Lists
  <2>3. /\ rows[w.port] = w.on /\ w.port \in w.made /\ d0[1] = w.port /\ KnownFamily(d0)
        /\ \A d \in Device : Among(d, Tail(w.todo)) => d[1] = w.port /\ KnownFamily(d)
        /\ \A d \in devices[w.on] : d[1] \in w.made => Among(d, w.added)
    BY <1>5, <2>1, <2>2 DEF Knowing, Makes
  <2>4. /\ devices'[w.on] = devices[w.on] \cup {d0}
        /\ \A i \in Instance \ {w.on} : devices'[i] = devices[i]
    BY <1>0, <1>5, <2>1
  <2> HIDE DEF d0
  <2>5. Doomed(u) = {}
    BY <1>5 DEF Doomed, Adding, Makes
  <2>6. \A d \in devices'[w.on] : d[1] \in u.made => Among(d, u.added)
    BY <1>5, <2>2, <2>3, <2>4 DEF Makes, Same, d0
  <2>7. Knowing(work[h], h)'
    <3>1. u.pc = "device" =>
              /\ rows[u.port] = u.on /\ u.port \in u.made
              /\ \A d \in Device : Among(d, u.todo) => d[1] = u.port /\ KnownFamily(d)
      BY <1>5, <2>3 DEF Makes, Same
    <3>2. u.on = w.on /\ ~u.read /\ u.kind = "add"
      BY <1>5 DEF Makes, Same
    <3> QED BY <1>5, <2>1, <2>5, <2>6, <3>1, <3>2 DEF Knowing, KnownFamily
  <2>8. \A i \in Instance : \A d \in devices'[i] : rows'[d[1]] = i /\ KnownFamily(d)
    BY <1>5, <1>h, <2>1, <2>3, <2>4
  <2>9. \A k \in Handler \ {h} : work[k].pc \notin {"idle", "lock"} =>
                 lock'[work[k].on] = k /\ devices'[work[k].on] = devices[work[k].on]
    BY <1>5, <1>o, <2>4
  <2> QED BY <1>5, <2>7, <2>8, <2>9, <1>s
<1>6. ASSUME NEW h \in Handler, work[h].pc = "device", work[h].read,
             UNCHANGED <<rows, lock>>, \A k \in Handler \ {h} : work'[k] = work[k],
             Removes(work[h], work'[h]),
             devices' = [devices EXCEPT ![work[h].on] =
                            work[h].seen \ {Head(work[h].todo)}]
      PROVE  Known'
  <2> DEFINE w == work[h]
             u == work'[h]
             d0 == Head(w.todo)
  <2>1. /\ Knowing(w, h) /\ Shape(u) /\ w.on \in Instance /\ lock[w.on] = h
        /\ w.seen = devices[w.on] /\ w.todo \in Seq(Device) /\ w.todo # <<>>
    BY <1>0, <1>6 DEF Shape, Knowing, Work
  <2>2. \A d : Among(d, w.todo) <=> d = d0 \/ Among(d, Tail(w.todo))
    BY <2>1, Lists
  <2>4. /\ devices'[w.on] = devices[w.on] \ {d0}
        /\ \A i \in Instance \ {w.on} : devices'[i] = devices[i]
    BY <1>0, <1>6, <2>1
  <2> HIDE DEF d0
  <2>5. Doomed(u) = Doomed(w)
    BY <1>6 DEF Doomed, Adding, Removes, Same
  <2>6. \A d \in devices'[w.on] : d[1] \in Doomed(u) => Among(d, u.todo)
    BY <1>6, <2>1, <2>2, <2>4, <2>5 DEF Removes, Knowing, d0
  <2>7. Knowing(work[h], h)'
    <3>1. u.on = w.on /\ ~u.read /\ u.kind = w.kind /\ w.kind # "add"
      BY <1>6 DEF Removes, Same
    <3> QED BY <1>6, <2>1, <2>6, <3>1 DEF Knowing, KnownFamily
  <2>8. \A i \in Instance : \A d \in devices'[i] : rows'[d[1]] = i /\ KnownFamily(d)
    BY <1>6, <1>h, <2>1, <2>4
  <2>9. \A k \in Handler \ {h} : work[k].pc \notin {"idle", "lock"} =>
                 lock'[work[k].on] = k /\ devices'[work[k].on] = devices[work[k].on]
    BY <1>6, <1>o, <2>4
  <2> QED BY <1>6, <2>7, <2>8, <2>9, <1>s
<1>7. ASSUME NEW h \in Handler, Drops(h) PROVE Known'
  <2> DEFINE w == work[h]
             u == work'[h]
  <2>1. PICK p \in Doomed(w) :
          /\ w.pc = "forget" /\ rows[p] = w.on
          /\ Same(u, w) /\ u.kind = w.kind /\ u.ports = w.ports \ {p}
          /\ \/ u.pc \in {"unlock", "next"} /\ w.kind # "undo"
             \/ /\ w.kind = "undo" /\ u.todo = w.todo
                /\ u.pc = IF w.ports = {p} THEN "unlock" ELSE "forget"
          /\ rows' = [rows EXCEPT ![p] = None]
          /\ UNCHANGED <<devices, lock>>
          /\ \A k \in Handler \ {h} :
                work'[k] = IF p \in Knows(work[k])
                           THEN [work[k] EXCEPT !.gone = @ \cup {p}] ELSE work[k]
    BY <1>7 DEF Drops, IsThere
  <2>2. /\ Knowing(w, h) /\ Shape(w) /\ Shape(u) /\ w.on \in Instance /\ lock[w.on] = h
        /\ w.kind \in {"undo", "back", "delete"} /\ w.todo = <<>> /\ p \in Port
        /\ w \in Work
    <3>1. Knowing(w, h) /\ Shape(w) /\ Shape(u) /\ w \in Work
      BY <1>0
    <3>2. w.kind \in {"undo", "back", "delete"} /\ w.todo = <<>> /\ w.on \in Instance
      BY <2>1, <3>1 DEF Shape, Knowing
    <3>3. p \in Port
      BY <2>1, <3>1, <3>2 DEF Doomed, Adding, Shape, Work
    <3> QED BY <2>1, <3>1, <3>2, <3>3 DEF Knowing
  <2>3. \A d : ~Among(d, w.todo)
    BY <2>2 DEF Among
  <2>4. \A d \in devices[w.on] : d[1] \notin Doomed(w)
    BY <2>1, <2>2, <2>3 DEF Knowing
  <2>5. \A i \in Instance : \A d \in devices'[i] : rows'[d[1]] = i /\ KnownFamily(d)
    BY <1>0, <1>h, <2>1, <2>2, <2>4
  <2>6. Knowing(work[h], h)'
    <3>1. u.on = w.on /\ u.kind = w.kind /\ (u.read => u.pc = "device") /\ u.pc # "device"
      BY <2>1, <2>2 DEF Same, Shape
    <3>2. u.pc = "forget" => \A d \in devices[w.on] : d[1] \in Doomed(u) => Among(d, u.todo)
      BY <2>1, <2>2, <2>4 DEF Doomed
    <3> QED BY <2>1, <2>2, <3>1, <3>2 DEF Knowing, KnownFamily
  <2>7. ASSUME NEW k \in Handler \ {h} PROVE Knowing(work[k], k)'
    <3> DEFINE v == work[k]
               x == work'[k]
    <3>1. v \in Work
      BY <1>0
    <3>2. /\ x.on = v.on /\ x.port = v.port /\ x.made = v.made /\ x.kind = v.kind
          /\ x.pc = v.pc /\ x.ports = v.ports /\ x.added = v.added /\ x.todo = v.todo
          /\ x.read = v.read /\ x.seen = v.seen
      BY <2>1, <3>1 DEF Work
    <3>3. v.pc \notin {"idle", "lock"} =>
            /\ lock'[v.on] = k /\ devices'[v.on] = devices[v.on]
            /\ rows[v.port] = v.on => rows'[v.port] = v.on
      <4>1. v.port \in Port \cup {None}
        BY <3>1 DEF Work
      <4> QED BY <1>0, <1>o, <2>1, <2>2, <4>1
    <3>4. Knowing(v, k) /\ Doomed(x) = Doomed(v)
      BY <1>0, <3>2 DEF Doomed, Adding
    <3> HIDE DEF v
    <3>5. \A y : /\ y.on = v.on /\ y.port = v.port /\ y.made = v.made /\ y.kind = v.kind
                 /\ y.pc = v.pc /\ y.ports = v.ports /\ y.added = v.added /\ y.todo = v.todo
                 /\ y.read = v.read /\ y.seen = v.seen
                 => Knowing(y, k)'
      BY <3>3, <3>4 DEF Knowing, KnownFamily, Doomed, Adding
    <3> QED BY <3>2, <3>5 DEF Knowing
  <2>8. ASSUME NEW k \in Handler PROVE Knowing(work[k], k)'
    BY <2>6, <2>7
  <2> QED BY <2>5, <2>8 DEF Known, NothingHidden, KnownFamily
<1>8. ASSUME NEW i \in Instance, UNCHANGED <<rows, devices, work>>, lock[i] # None,
             lock' = [lock EXCEPT ![i] = None],
             ~Holds(work[lock[i]], i)
      PROVE  Known'
  <2>1. ASSUME NEW k \in Handler PROVE Knowing(work[k], k)'
    <3>1. Knowing(work[k], k) /\ Shape(work[k])
      BY <1>0
    <3>2. work[k].pc \notin {"idle", "lock"} => work[k].on \in Instance /\ lock'[work[k].on] = k
      BY <1>0, <1>8, <3>1 DEF Knowing, Shape, Holds
    <3> QED BY <1>8, <3>1, <3>2 DEF Knowing, KnownFamily
  <2> QED BY <1>8, <2>1 DEF Known, NothingHidden, KnownFamily
<1>9. ASSUME NEW h \in Handler, Turns(h), \A k \in Handler \ {h} : work'[k] = work[k]
      PROVE  Known'
  BY <1>9, <1>1, <1>2, <1>3, <1>4, <1>5, <1>6 DEF Turns
<1> QED BY <1>7, <1>8, <1>9 DEF Actions

(* Every step keeps Owned: a row is reserved while it is free only.        *)
LEMMA OwnedStep ==
    ASSUME PortMappingsConstants, Faults \subseteq {"refuse"}, Typed, Typed', Known, Owned,
           Actions
    PROVE  Owned'
<1>0. /\ rows \in [Port -> Instance \cup {None}]
      /\ \A h \in Handler : /\ Shape(work[h]) /\ work[h] \in Work /\ Answers(work[h])
                            /\ Shape(work'[h]) /\ work[h].kind \notin {"auto", "strip"}
      /\ None \notin Instance
      /\ "host" \notin Faults /\ "crash" \notin Faults /\ "expire" \notin Faults
  BY DEF Typed, Known, Knowing, Owned, PortMappingsConstants
<1>m. ASSUME NEW k \in Handler
      PROVE  /\ Mine(work[k]) \subseteq Knows(work[k])
             /\ \A p \in Mine(work[k]) : /\ p \in Port /\ rows[p] = work[k].on
                                        /\ rows[p] # None /\ lock[rows[p]] = k
  <2>1. Shape(work[k]) /\ work[k] \in Work /\ Answers(work[k]) /\ Knowing(work[k], k)
    BY <1>0 DEF Known
  <2>2. Mine(work[k]) \subseteq Knows(work[k])
    BY <2>1 DEF Mine, Knows, Answers
  <2>3. \A p \in Mine(work[k]) : work[k].pc \notin {"idle", "lock"} /\ p \in Port
    BY <2>1 DEF Mine, Shape, Work, Idle, Answers
  <2> QED BY <1>0, <2>1, <2>2, <2>3 DEF Answers, Shape, Knowing
<1>s. ASSUME NEW h \in Handler, \A k \in Handler \ {h} : work'[k] = work[k],
             \A p \in Port : rows[p] # None => rows'[p] = rows[p],
             Answers(work[h])'
      PROVE  Owned'
  <2>1. ASSUME NEW k \in Handler \ {h} PROVE Answers(work[k])'
    <3>1. /\ Answers(work[k]) /\ Shape(work[k]) /\ work'[k] = work[k]
          /\ \A p \in Mine(work[k]) : rows'[p] = rows[p]
      BY <1>0, <1>m, <1>s
    <3>2. work[k].kind = "delete" => work[k].port \in Port
      BY <3>1 DEF Shape
    <3>3. work[k].kind = "delete" /\ rows[work[k].port] = work[k].on /\ work[k].pc # "idle"
          => rows'[work[k].port] = work[k].on
      BY <1>0, <1>s, <3>1, <3>2 DEF Shape
    <3> QED BY <3>1, <3>3 DEF Answers, Mine
  <2> QED BY <1>s, <2>1 DEF Owned
<1>t. ASSUME NEW h \in Handler, \A k \in Handler \ {h} : work'[k] = work[k],
             UNCHANGED rows, Mine(work'[h]) \subseteq Mine(work[h]),
             work'[h].on = work[h].on \/ Mine(work'[h]) = {},
             work'[h].gone = work[h].gone \/ work'[h].gone = {},
             work'[h].kind \in {"undo", "back"} => work'[h].ports \subseteq work'[h].made,
             work'[h].kind = "back" /\ work'[h].pc \in {"device", "forget"} =>
                work'[h].port \in work'[h].ports,
             work'[h].kind = "add" =>
                work'[h].gone = {} \/ (work[h].kind = "add" /\ work[h].pc # "unlock"),
             work'[h].kind = "delete" /\ work'[h].pc \in {"lock", "device", "forget"} =>
                \/ rows[work'[h].port] = work'[h].on
                \/ /\ work[h].kind = "delete" /\ work[h].pc \in {"lock", "device", "forget"}
                   /\ Same(work'[h], work[h])
      PROVE  Owned'
  <2>1. Answers(work[h])
    BY <1>0
  <2>2. Answers(work[h])'
    BY <1>t, <2>1 DEF Answers, Mine, Same
  <2> QED BY <1>t, <2>2, <1>s
<1>1. ASSUME NEW h \in Handler, Quiet(work[h], work'[h]), UNCHANGED rows,
             \A k \in Handler \ {h} : work'[k] = work[k]
      PROVE  Owned'
  <2> DEFINE w == work[h]
             u == work'[h]
  <2>1. Shape(w) /\ Shape(u) /\ Answers(w) /\ w.kind \notin {"auto", "strip"}
    BY <1>0
  <2>2. CASE Starts(w, u)
    <3>1. Answers(work[h])'
      BY <1>1, <2>2 DEF Starts, Answers, Mine
    <3> QED BY <1>1, <3>1, <1>s
  <2>3. CASE Checks(w, u)
    BY <1>1, <2>1, <2>3, <1>t DEF Checks, Mine, Shape, Answers
  <2>4. CASE Undoes(w, u)
    BY <1>1, <2>1, <2>4, <1>t DEF Undoes, Mine, Same
  <2>5. CASE Misses(w, u)
    <3>1. w.kind \in {"undo", "back", "delete"} /\ w.pc = "forget"
      BY <2>1, <2>5 DEF Misses, Shape
    <3>2. w.kind # "delete" => Doomed(w) \subseteq Mine(w)
      BY <2>1, <3>1 DEF Doomed, Mine, Adding, Answers
    <3>3. CASE w.kind # "delete"
      BY <2>1, <2>5, <3>2, <3>3 DEF Misses, Answers, IsThere
    <3>4. CASE w.kind = "delete"
      BY <1>1, <2>1, <2>5, <3>4, <1>t DEF Misses, Mine, Same
    <3> QED BY <3>3, <3>4
  <2>6. CASE Picks(w, u)
    BY <1>1, <2>1, <2>6, <1>t DEF Picks, Mine, Answers
  <2>7. CASE Reads(w, u)
    BY <1>1, <2>1, <2>7, <1>t DEF Reads, Mine, Keeps, Same, Answers
  <2>8. CASE u = Idle
    <3>1. Idle.kind = "none" /\ Idle.gone = {}
      BY DEF Idle
    <3> QED BY <1>1, <2>8, <3>1, <1>t DEF Mine
  <2>9. CASE w.pc = "quota" /\ u.pc \in {"check", "unlock"} /\ Keeps(u, w)
    BY <1>1, <2>1, <2>9, <1>t DEF Mine, Keeps, Same, Answers, Shape
  <2>10. CASE Removes(w, u)
    BY <1>1, <2>1, <2>10, <1>t DEF Removes, Mine, Same, Answers
  <2> QED BY <1>0, <1>1, <2>2, <2>3, <2>4, <2>5, <2>6, <2>7, <2>8, <2>9, <2>10 DEF Quiet, GivesUp
<1>2. ASSUME NEW h \in Handler, Keeps(work'[h], work[h]), UNCHANGED rows, work[h].pc = "lock",
             \/ work[h].kind = "add" /\ work'[h].pc = "quota"
             \/ work[h].kind = "delete" /\ work'[h].pc = "device",
             \A k \in Handler \ {h} : work'[k] = work[k]
      PROVE  Owned'
  BY <1>0, <1>2, <1>t DEF Mine, Keeps, Same, Answers
<1>3. ASSUME NEW h \in Handler, work'[h] = Idle, UNCHANGED rows,
             \A k \in Handler \ {h} : work'[k] = work[k]
      PROVE  Owned'
  <2>1. Idle.kind = "none" /\ Idle.gone = {}
    BY DEF Idle
  <2> QED BY <1>3, <2>1, <1>t DEF Mine
<1>4. ASSUME NEW h \in Handler, work[h].pc = "reserve", work[h].kind = "add",
             rows[work[h].port] = None, rows' = [rows EXCEPT ![work[h].port] = work[h].on],
             work'[h].on = work[h].on, work'[h].gone = work[h].gone,
             work'[h].kind = work[h].kind,
             work'[h].made = work[h].made \cup {work[h].port},
             work'[h].pc = "device", \A k \in Handler \ {h} : work'[k] = work[k]
      PROVE  Owned'
  <2> DEFINE w == work[h]
             u == work'[h]
  <2>1. Shape(w) /\ Answers(w) /\ w.port \in Port /\ w.on \in Instance
    BY <1>0, <1>4 DEF Shape
  <2>2. Mine(u) = Mine(w) \cup {w.port} /\ Mine(w) = w.made
    BY <1>4 DEF Mine
  <2>3. \A p \in Mine(w) : p \in Port
    BY <1>m
  <2>4. Answers(work[h])'
    <3>1. \A p \in Mine(u) : rows'[p] = u.on /\ p \notin u.gone
      BY <1>0, <1>4, <2>1, <2>2, <2>3 DEF Answers
    <3> QED BY <1>4, <2>1, <3>1 DEF Answers, Mine
  <2>5. \A p \in Port : rows[p] # None => rows'[p] = rows[p]
    BY <1>0, <1>4
  <2> QED BY <1>4, <2>4, <2>5, <1>s
<1>5. ASSUME NEW h \in Handler, Makes(work[h], work'[h]) \/ Removes(work[h], work'[h]),
             UNCHANGED rows, \A k \in Handler \ {h} : work'[k] = work[k]
      PROVE  Owned'
  <2>1. Answers(work[h])
    BY <1>0
  <2>2. CASE Makes(work[h], work'[h])
    BY <1>5, <2>1, <2>2, <1>t DEF Makes, Mine, Same, Answers
  <2>3. CASE Removes(work[h], work'[h])
    BY <1>5, <2>1, <2>3, <1>t DEF Removes, Mine, Same, Answers
  <2> QED BY <1>5, <2>2, <2>3
<1>6. ASSUME NEW h \in Handler, Drops(h) PROVE Owned'
  <2> DEFINE w == work[h]
             u == work'[h]
  <2>1. PICK p \in Doomed(w) :
          /\ w.pc = "forget" /\ rows[p] = w.on /\ p \notin w.gone
          /\ Same(u, w) /\ u.kind = w.kind /\ u.ports = w.ports \ {p}
          /\ \/ u.pc \in {"unlock", "next"} /\ w.kind # "undo"
             \/ /\ w.kind = "undo" /\ u.todo = w.todo
                /\ u.pc = IF w.ports = {p} THEN "unlock" ELSE "forget"
          /\ rows' = [rows EXCEPT ![p] = None]
          /\ \A k \in Handler \ {h} :
                work'[k] = IF p \in Knows(work[k])
                           THEN [work[k] EXCEPT !.gone = @ \cup {p}] ELSE work[k]
    BY <1>6 DEF Drops, IsThere
  <2>2. /\ Shape(w) /\ Shape(u) /\ Answers(w) /\ w.kind \in {"undo", "back", "delete"}
        /\ w.on \in Instance /\ lock[w.on] = h
    <3>1. Knowing(w, h) /\ Shape(w) /\ Shape(u) /\ Answers(w)
      BY <1>0 DEF Known
    <3>2. w.kind \in {"undo", "back", "delete"} /\ w.on \in Instance
      BY <1>0, <2>1, <3>1 DEF Shape
    <3> QED BY <2>1, <3>1, <3>2 DEF Knowing
  <2>3. w.kind # "delete" => p \in Mine(w)
    BY <2>1, <2>2 DEF Doomed, Mine, Adding, Answers
  <2>4. Mine(u) \subseteq Mine(w) \ {p}
    BY <2>1, <2>2 DEF Doomed, Mine, Adding
  <2>5. \A q \in Mine(u) : rows'[q] = u.on /\ q \notin u.gone
    BY <1>0, <1>m, <2>1, <2>2, <2>4 DEF Answers, Same
  <2>6. Answers(work[h])'
    <3>1. Mine(work[h])' = Mine(u)
      BY DEF Mine
    <3>2. /\ u.kind \in {"undo", "back"} => u.ports \subseteq u.made
          /\ ~(u.kind = "back" /\ u.pc \in {"device", "forget"}) /\ u.kind # "add"
          /\ ~(u.kind = "delete" /\ u.pc \in {"lock", "device", "forget"})
      BY <2>1, <2>2 DEF Answers, Same
    <3> QED BY <2>5, <3>1, <3>2 DEF Answers
  <2>7. ASSUME NEW k \in Handler \ {h} PROVE Answers(work[k])'
    <3> DEFINE v == work[k]
               x == work'[k]
    <3>1. v \in Work /\ Answers(v) /\ Shape(v) /\ p \notin Mine(v)
      BY <1>0, <1>m, <2>1, <2>2
    <3>2. /\ x.on = v.on /\ x.port = v.port /\ x.made = v.made /\ x.kind = v.kind
          /\ x.pc = v.pc /\ x.ports = v.ports
          /\ x.gone = IF p \in Knows(v) THEN v.gone \cup {p} ELSE v.gone
      BY <2>1, <3>1 DEF Work
    <3>3. \A q \in Mine(v) : rows'[q] = rows[q]
      BY <1>0, <1>m, <2>1, <3>1
    <3>4. Mine(x) = Mine(v) /\ Mine(work[k])' = Mine(x)
      BY <3>2 DEF Mine
    <3>5. v.kind = "add" /\ v.pc # "unlock" => x.gone = v.gone
      BY <3>1, <3>2 DEF Mine, Knows
    <3>6. \A q \in Mine(x) : rows'[q] = x.on /\ q \notin x.gone
      BY <3>1, <3>2, <3>3, <3>4 DEF Answers
    <3>7. v.kind = "delete" /\ v.pc \in {"lock", "device", "forget"} =>
            rows'[x.port] = x.on \/ x.port \in x.gone
      <4>1. CASE v.kind = "delete" /\ v.port = p
        BY <3>2, <4>1 DEF Knows
      <4>2. CASE v.kind = "delete" /\ v.port # p
        BY <1>0, <2>1, <3>1, <3>2, <4>2 DEF Answers, Shape
      <4> QED BY <4>1, <4>2
    <3> QED BY <3>1, <3>2, <3>4, <3>5, <3>6, <3>7 DEF Answers
  <2> QED BY <2>6, <2>7 DEF Owned
<1>7. ASSUME UNCHANGED <<rows, work>> PROVE Owned'
  BY <1>7 DEF Owned, Answers, Mine
<1>8. ASSUME NEW h \in Handler, Turns(h), \A k \in Handler \ {h} : work'[k] = work[k]
      PROVE  Owned'
  BY <1>8, <1>1, <1>2, <1>3, <1>4, <1>5 DEF Turns
<1> QED BY <1>6, <1>7, <1>8 DEF Actions

(* Every step of a handler keeps its lists those of its rows.              *)
LEMMA AttendingStep ==
    ASSUME PortMappingsConstants, Faults \subseteq {"refuse"}, Typed, Typed', Known, Owned,
           Served, Actions, NEW k \in Handler
    PROVE  Attending(work[k])'
<1>0. /\ devices \in [Instance -> SUBSET Device]
      /\ \A h \in Handler : /\ Shape(work[h]) /\ work[h] \in Work /\ Answers(work[h])
                            /\ Attending(work[h])
                            /\ Shape(work'[h]) /\ Knowing(work[h], h)
      /\ "host" \notin Faults /\ "crash" \notin Faults /\ "expire" \notin Faults
  BY DEF Typed, Known, Owned, Served
<1> DEFINE w == work[k]
           u == work'[k]
<1>w. /\ Shape(w) /\ Shape(u) /\ Attending(w) /\ Answers(w) /\ w \in Work
      /\ w.kind \notin {"auto", "strip"} /\ Knowing(w, k)
  BY <1>0 DEF Knowing
<1>f. ASSUME NEW p \in Port
      PROVE  /\ \A d \in Device : Among(d, DevicesOf(p)) => d[1] = p
             /\ \A n \in DOMAIN Families : Among(DevicesOf(p)[n], DevicesOf(p))
  <2>1. \A d \in Device : Among(d, DevicesOf(p)) => d[1] = p
    BY FamilyDevices
  <2>2. \A n \in DOMAIN Families : Among(DevicesOf(p)[n], DevicesOf(p))
    BY DEF Among, DevicesOf, PortMappingsConstants
  <2> QED BY <2>1, <2>2
<1>e. \A d : ~Among(d, <<>>)
  BY DEF Among
<1>1. CASE Quiet(w, u) /\ UNCHANGED <<rows, devices, lock>>
  <2>1. CASE Starts(w, u)
    BY <1>e, <2>1 DEF Starts, Attending
  <2>2. CASE Checks(w, u)
    BY <1>w, <2>2 DEF Checks, Attending, Shape
  <2>3. CASE Undoes(w, u)
    <3>1. Target(u) = IF u.pc = "unlock" THEN {} ELSE w.made
      BY <2>3 DEF Undoes, Target, Doomed, Adding
    <3>2. u.pc \in {"device", "forget"} => \A d \in Device : Among(d, u.todo)
         => d[1] \in Target(u)
      BY <1>w, <2>3, <3>1 DEF Undoes, Attending
    <3>3. Target(work[k])' = Target(u)
      BY DEF Target, Doomed, Adding
    <3> QED BY <2>3, <3>2, <3>3 DEF Undoes, Attending
  <2>4. CASE Misses(w, u)
    <3>1. w.kind \in {"undo", "back", "delete"}
      BY <1>w, <2>4 DEF Misses, Shape
    <3> QED BY <2>4, <3>1 DEF Misses, Attending
  <2>5. CASE Picks(w, u)
    <3>1. CASE u.pc = "device"
      <4>1. u.port \in Port /\ u.todo = DevicesOf(u.port) /\ u.kind = "back"
        BY <1>w, <2>5, <3>1 DEF Picks, Work
      <4>2. Target(work[k])' = {u.port}
        BY <3>1, <4>1 DEF Target, Doomed, Adding
      <4> QED BY <1>f, <3>1, <4>1, <4>2 DEF Attending
    <3>2. CASE u.pc # "device"
      BY <2>5, <3>2 DEF Picks, Attending
    <3> QED BY <3>1, <3>2
  <2>6. CASE Reads(w, u)
    <3>1. Target(work[k])' = Target(w)
      BY <2>6 DEF Target, Doomed, Adding, Reads, Keeps, Same
    <3> QED BY <1>1, <1>w, <2>6, <3>1 DEF Reads, Keeps, Same, Attending
  <2>7. CASE u = Idle
    <3>1. u.kind = "none" /\ u.pc = "idle"
      BY <2>7 DEF Idle
    <3> QED BY <3>1 DEF Attending
  <2>8. CASE w.pc = "quota" /\ u.pc \in {"check", "unlock"} /\ Keeps(u, w)
    BY <1>w, <2>8 DEF Keeps, Same, Attending
  <2>9. CASE Removes(w, u)
    <3>1. Target(work[k])' = Target(w)
      BY <2>9 DEF Target, Doomed, Adding, Removes, Same
    <3>2. \A d : Among(d, u.todo) => Among(d, w.todo)
      <4>1. w.todo \in Seq(Device) /\ w.todo # <<>>
        BY <1>w, <2>9 DEF Removes, Shape, Work
      <4> QED BY <2>9, <4>1, Lists DEF Removes
    <3> QED BY <1>w, <2>9, <3>1, <3>2 DEF Removes, Same, Attending
  <2> QED BY <1>0, <1>1, <2>1, <2>2, <2>3, <2>4, <2>5, <2>6, <2>7, <2>8, <2>9 DEF Quiet, GivesUp
<1>2. CASE /\ w.pc = "lock" /\ Keeps(u, w)
           /\ \/ w.kind = "add" /\ u.pc = "quota"
              \/ w.kind = "delete" /\ u.pc = "device" /\ u.todo = DevicesOf(w.port)
  <2>1. CASE w.kind = "add"
    BY <1>w, <1>2, <2>1 DEF Keeps, Same, Attending
  <2>2. CASE w.kind = "delete"
    <3>1. w.port \in Port /\ u.port = w.port /\ u.kind = "delete"
      BY <1>w, <1>2, <2>2 DEF Shape, Keeps, Same
    <3>2. Target(work[k])' = {w.port}
      BY <1>2, <2>2, <3>1 DEF Target, Doomed, Adding
    <3> QED BY <1>2, <1>f, <2>2, <3>1, <3>2 DEF Attending
  <2> QED BY <1>2, <2>1, <2>2
<1>3. CASE u = Idle
  <2>1. u.kind = "none" /\ u.pc = "idle"
    BY <1>3 DEF Idle
  <2> QED BY <2>1 DEF Attending
<1>4. CASE /\ w.pc = "reserve" /\ w.kind = "add" /\ u.port = w.port /\ u.kind = w.kind
           /\ u.added = w.added /\ u.made = w.made \cup {w.port}
           /\ u.pc = "device" /\ u.todo = DevicesOf(w.port)
  <2>1. w.port \in Port
    BY <1>w, <1>4 DEF Shape
  <2>2. Target(work[k])' = {w.port}
    BY <1>4 DEF Target, Adding
  <2> QED BY <1>w, <1>4, <1>f, <2>1, <2>2 DEF Attending
<1>5. CASE /\ Makes(w, u) /\ w.read
           /\ devices' = [devices EXCEPT ![w.on] = w.seen \cup {Head(w.todo)}]
  <2>1. /\ w.todo \in Seq(Device) /\ w.todo # <<>> /\ w.added \in Seq(Device) /\ w.on \in Instance
        /\ w.kind = "add" /\ w.pc = "device" /\ w.seen = devices[w.on] /\ w.port \in w.made
    BY <1>w, <1>5 DEF Makes, Shape, Work, Knowing
  <2> DEFINE d0 == Head(w.todo)
  <2>2. /\ d0 \in Device /\ \A d : Among(d, w.todo) <=> d = d0 \/ Among(d, Tail(w.todo))
        /\ \A d : Among(d, Append(w.added, d0)) <=> Among(d, w.added) \/ d = d0
    BY <2>1, Lists
  <2> HIDE DEF d0
  <2>3. u.port = w.port /\ u.on = w.on /\ u.made = w.made /\ u.kind = "add"
       /\ u.todo = Tail(w.todo)
        /\ u.added = Append(w.added, d0)
    BY <1>5 DEF Makes, Same, d0
  <2>4. Target(w) = {w.port} /\ (u.pc \in {"device", "forget"} => Target(work[k])' = {w.port})
    BY <2>1, <2>3 DEF Target, Adding
  <2>5. d0[1] = w.port
    BY <1>w, <2>1, <2>2, <2>4 DEF Attending
  <2>6. devices'[w.on] = devices[w.on] \cup {d0}
    BY <1>0, <1>5, <2>1 DEF d0
  <2>7. \A d \in Device : Among(d, u.added) => d[1] \in u.made
    BY <1>w, <2>1, <2>2, <2>3, <2>5 DEF Attending
  <2>8. u.pc \in {"device", "forget"} => \A d \in Device : Among(d, u.todo) => d[1] = w.port
    BY <1>w, <2>1, <2>2, <2>3, <2>4 DEF Attending
  <2>9. \A n \in DOMAIN Families : \/ DevicesOf(u.port)[n] \in devices'[u.on]
                                  \/ Among(DevicesOf(u.port)[n], u.todo)
    BY <1>w, <2>1, <2>2, <2>3, <2>6 DEF Attending
  <2> QED BY <2>4, <2>7, <2>8, <2>9 DEF Attending, DevicesOf
<1>6. CASE Removes(w, u) /\ w.read
  <2>1. Target(work[k])' = Target(w) /\ w.kind # "add" /\ u.kind # "add"
    BY <1>6 DEF Target, Doomed, Adding, Removes, Same
  <2>2. \A d : Among(d, u.todo) => Among(d, w.todo)
    <3>1. w.todo \in Seq(Device) /\ w.todo # <<>>
      BY <1>w, <1>6 DEF Removes, Shape, Work
    <3> QED BY <1>6, <3>1, Lists DEF Removes
  <2> QED BY <1>w, <1>6, <2>1, <2>2 DEF Removes, Attending
<1>7. CASE Drops(k)
  <2>1. w.pc = "forget" /\ u.kind = w.kind /\ u.pc \in {"unlock", "next", "forget"}
    BY <1>7 DEF Drops
  <2>2. u.pc = "forget" => w.todo = <<>> /\ u.todo = w.todo
    BY <1>7, <1>w DEF Drops, Shape
  <2>3. w.kind # "add"
    BY <1>w, <2>1 DEF Shape
  <2> QED BY <1>e, <2>1, <2>2, <2>3 DEF Attending
<1>8. ASSUME /\ u.on = w.on /\ u.port = w.port /\ u.made = w.made /\ u.kind = w.kind
             /\ u.pc = w.pc /\ u.ports = w.ports /\ u.added = w.added /\ u.todo = w.todo,
             w.pc \notin {"idle", "lock"} => devices'[w.on] = devices[w.on]
      PROVE  Attending(work[k])'
  <2>1. Target(work[k])' = Target(w)
    BY <1>8 DEF Target, Doomed, Adding
  <2> QED BY <1>w, <1>8, <2>1 DEF Attending
<1>9. ASSUME NEW h \in Handler \ {k}, Turns(h), \A x \in Handler \ {h} : work'[x] = work[x]
      PROVE  Attending(work[k])'
  <2>1. u = w
    BY <1>9
  <2>2. w.pc \notin {"idle", "lock"} => devices'[w.on] = devices[w.on]
    <3>1. CASE UNCHANGED devices
      BY <3>1
    <3>2. CASE UNCHANGED devices \/ work[h].pc = "device"
      <4>1. ASSUME work[h].pc = "device", w.pc \notin {"idle", "lock"}
            PROVE  w.on # work[h].on
        BY <1>0, <1>9, <4>1 DEF Knowing
      <4> QED BY <1>0, <1>9, <1>w, <3>2, <4>1 DEF Turns, Shape
    <3> QED BY <1>9, <3>1, <3>2 DEF Turns
  <2> HIDE DEF w, u
  <2> QED BY <2>1, <2>2, <1>8
<1>10. ASSUME NEW h \in Handler \ {k}, Drops(h) PROVE Attending(work[k])'
  <2>1. PICK p : /\ UNCHANGED devices
                 /\ u = IF p \in Knows(w) THEN [w EXCEPT !.gone = @ \cup {p}] ELSE w
    BY <1>10 DEF Drops
  <2>2. /\ u.on = w.on /\ u.port = w.port /\ u.made = w.made /\ u.kind = w.kind
        /\ u.pc = w.pc /\ u.ports = w.ports /\ u.added = w.added /\ u.todo = w.todo
    BY <1>w, <2>1 DEF Work
  <2> QED BY <2>1, <2>2, <1>8
<1>11. ASSUME UNCHANGED <<devices, work>> PROVE Attending(work[k])'
  BY <1>11, <1>8
<1>12. ASSUME Turns(k) PROVE Attending(work[k])'
  <2> HIDE DEF w, u
  <2> QED BY <1>12, <1>1, <1>2, <1>3, <1>4, <1>5, <1>6 DEF Turns, w, u
<1> QED BY <1>7, <1>9, <1>10, <1>11, <1>12 DEF Actions

(* All devices of a row are on the machine it names.                       *)
IsServed(p) == \A n \in DOMAIN Families : DevicesOf(p)[n] \in devices[rows[p]]

(* Every step keeps Served.                                                *)
LEMMA ServedStep ==
    ASSUME PortMappingsConstants, Faults \subseteq {"refuse"}, Typed, Typed', Known, Owned,
           Served, Served, Actions, NEW p \in Port, rows'[p] # None,
           \A k \in Handler : Attending(work[k])'
    PROVE  IsServed(p)' \/ p \in torn' \/ \E h \in Handler : Attended(p, h)'
<1>0. /\ rows \in [Port -> Instance \cup {None}]
      /\ devices \in [Instance -> SUBSET Device]
      /\ lock \in [Instance -> Handler \cup {None}]
      /\ \A h \in Handler : /\ Shape(work[h]) /\ work[h] \in Work /\ Answers(work[h])
                            /\ Attending(work[h])
                            /\ Shape(work'[h]) /\ Knowing(work[h], h)
      /\ "host" \notin Faults /\ "crash" \notin Faults /\ "expire" \notin Faults
      /\ None \notin Handler /\ None \notin Instance
      /\ rows[p] # None => IsServed(p) \/ p \in torn \/ \E h \in Handler : Attended(p, h)
  BY DEF Typed, Known, Owned, Served, IsServed, PortMappingsConstants
<1>t. ASSUME NEW h \in Handler, p \in Target(work[h])
      PROVE  /\ work[h].pc \in {"device", "forget"}
             /\ work[h].kind = "add" => p = work[h].port /\ work[h].pc = "device"
             /\ work[h].kind # "add" => p \in Doomed(work[h])
  BY <1>0, <1>t DEF Target, Adding, Knowing, Shape
<1>1. ASSUME NEW h \in Handler, rows'[p] = rows[p], Attended(p, h),
             work'[h].on = work[h].on, lock'[rows[p]] = h, p \in Target(work'[h]),
             work'[h].gone = work[h].gone
      PROVE  Attended(p, h)'
  BY <1>1 DEF Attended, Target, Doomed, Adding
<1>2. ASSUME NEW h \in Handler, Turns(h), \A x \in Handler \ {h} : work'[x] = work[x],
             rows'[p] = rows[p], IsServed(p)
      PROVE  IsServed(p)' \/ p \in torn' \/ \E x \in Handler : Attended(p, x)'
  <2> DEFINE w == work[h]
             u == work'[h]
  <2>1. CASE UNCHANGED devices
    BY <1>2, <2>1 DEF IsServed, DevicesOf
  <2>2. CASE /\ Makes(w, u) /\ w.read
             /\ devices' = [devices EXCEPT ![w.on] = w.seen \cup {Head(w.todo)}]
    <3>1. w.seen = devices[w.on]
      BY <1>0, <2>2 DEF Makes, Knowing
    <3>2. \A i \in Instance : devices[i] \subseteq devices'[i]
      BY <1>0, <2>2, <3>1
    <3> QED BY <1>0, <1>2, <3>2 DEF IsServed, DevicesOf
  <2>3. CASE /\ Removes(w, u) /\ w.read /\ UNCHANGED lock
             /\ Tears(w, Head(w.todo)[1]) => Head(w.todo)[1] \in torn'
             /\ devices' = [devices EXCEPT ![w.on] = w.seen \ {Head(w.todo)}]
    <3>1. /\ w.seen = devices[w.on] /\ w.on \in Instance /\ lock[w.on] = h
          /\ w.todo \in Seq(Device) /\ w.todo # <<>> /\ w.pc = "device"
      BY <1>0, <2>3 DEF Removes, Knowing, Shape, Work
    <3>2. Head(w.todo) \in Device /\ Among(Head(w.todo), w.todo)
      BY <3>1, Lists
    <3>3. Head(w.todo)[1] \in Target(w) /\ Target(u) = Target(w) /\ u.on = w.on
          /\ u.gone = w.gone
      BY <1>0, <2>3, <3>1, <3>2 DEF Attending, Target, Removes, Same, Doomed, Adding
    <3>4. CASE rows[p] = w.on /\ p \in Target(w)
      <4>1. CASE p \notin w.gone
        <5>1. Attended(p, h)
          BY <3>1, <3>4, <4>1 DEF Attended
        <5> QED BY <1>1, <1>2, <2>3, <3>1, <3>3, <3>4, <5>1
      <4>2. CASE p \in w.gone
        <5>1. /\ Shape(w) /\ Answers(w) /\ w.kind \notin {"auto", "strip", "add"}
              /\ p \in Doomed(w)
          BY <1>0, <1>t, <2>3, <3>4 DEF Removes, Knowing
        <5>2. w.kind \in {"undo", "back"} => p \in Mine(w)
          BY <3>1, <5>1 DEF Doomed, Adding, Mine, Answers
        <5>3. w.kind = "delete" /\ p = w.port
          BY <3>1, <4>2, <5>1, <5>2 DEF Answers, Shape, Work, Doomed, Adding
        <5>4. Head(w.todo)[1] = p
          BY <3>1, <3>3, <5>3 DEF Target, Doomed, Adding
        <5> QED BY <2>3, <3>4, <4>2, <5>3, <5>4 DEF Tears
      <4> QED BY <4>1, <4>2
    <3>5. CASE ~(rows[p] = w.on /\ p \in Target(w))
      <4>1. \A n \in DOMAIN Families : DevicesOf(p)[n][1] = p
        BY DEF DevicesOf
      <4>2. rows[p] # w.on => devices'[rows[p]] = devices[rows[p]]
        BY <1>0, <2>3, <3>1
      <4>3. rows[p] = w.on => devices'[rows[p]] = devices[rows[p]] \ {Head(w.todo)}
        BY <1>0, <2>3, <3>1
      <4>4. IsServed(p)'
        BY <1>2, <3>3, <3>5, <4>1, <4>2, <4>3 DEF IsServed, DevicesOf
      <4> QED BY <4>4
    <3> QED BY <3>4, <3>5
  <2> QED BY <1>2, <2>1, <2>2, <2>3 DEF Turns
<1>3. ASSUME NEW h \in Handler, Turns(h), \A x \in Handler \ {h} : work'[x] = work[x],
             rows'[p] = rows[p], NEW k \in Handler \ {h}, Attended(p, k)
      PROVE  Attended(p, k)'
  <2>1. work'[k] = work[k]
    BY <1>3
  <2>2. lock'[rows[p]] = k
    <3>1. rows[p] \in Instance /\ lock[rows[p]] = k
      BY <1>0, <1>3, <1>t DEF Attended, Shape
    <3> QED BY <1>0, <1>3, <3>1 DEF Turns
  <2> QED BY <1>3, <2>1, <2>2, <1>1 DEF Attended
<1>4. ASSUME NEW h \in Handler, Turns(h), \A x \in Handler \ {h} : work'[x] = work[x],
             rows'[p] = rows[p], Attended(p, h)
      PROVE  IsServed(p)' \/ p \in torn' \/ Attended(p, h)'
  <2> DEFINE w == work[h]
             u == work'[h]
  <2>1. /\ w.pc \in {"device", "forget"} /\ p \in Target(w) /\ w.on = rows[p]
        /\ p \notin w.gone /\ lock[rows[p]] = h /\ Shape(w) /\ Shape(u) /\ Answers(w)
        /\ Attending(w)
        /\ w.kind \notin {"auto", "strip"} /\ Knowing(w, h)
    BY <1>0, <1>4, <1>t DEF Attended, Knowing
  <2>2. CASE Undoes(w, u) /\ UNCHANGED lock
    <3>1. p = w.port /\ p \in w.made
      BY <1>t, <2>1, <2>2 DEF Undoes, Knowing
    <3>2. p \in Target(u)
      BY <1>0, <2>2, <3>1 DEF Undoes, Target, Doomed, Adding
    <3> QED BY <1>1, <1>4, <2>1, <2>2, <3>2 DEF Undoes, Same
  <2>3. CASE Misses(w, u)
    <3>1. w.kind \in {"undo", "back", "delete"} /\ w.pc = "forget"
      BY <2>1, <2>3 DEF Misses, Shape
    <3>2. w.kind # "delete" => Doomed(w) \subseteq Mine(w)
      BY <2>1, <3>1 DEF Doomed, Mine, Adding, Answers
    <3>3. w.kind = "delete" => Doomed(w) = {p}
      BY <1>t, <2>1 DEF Doomed, Adding
    <3> QED BY <2>1, <2>3, <3>2, <3>3 DEF Misses, Answers, IsThere
  <2>4. CASE Reads(w, u) /\ UNCHANGED lock
    <3>1. Target(u) = Target(w) /\ u.on = w.on /\ u.gone = w.gone
      BY <2>4 DEF Target, Doomed, Adding, Reads, Keeps, Same
    <3> QED BY <1>1, <1>4, <2>1, <2>4, <3>1
  <2>5. CASE Removes(w, u) /\ UNCHANGED lock
    <3>1. Target(u) = Target(w) /\ u.on = w.on /\ u.gone = w.gone
      BY <2>5 DEF Target, Doomed, Adding, Removes, Same
    <3> QED BY <1>1, <1>4, <2>1, <2>5, <3>1
  <2>6. CASE Makes(w, u) /\ UNCHANGED lock
    <3>1. /\ p = w.port /\ u.port = p /\ u.on = w.on /\ u.kind = "add" /\ u.gone = w.gone
          /\ u.pc = "device" \/ u.todo = <<>>
      BY <1>t, <2>1, <2>6 DEF Makes, Same
    <3>2. CASE u.pc = "device"
      <4>1. p \in Target(u)
        BY <3>1, <3>2 DEF Target, Adding
      <4> QED BY <1>1, <1>4, <2>1, <2>6, <3>1, <4>1
    <3>3. CASE u.todo = <<>>
      <4>1. \A d : ~Among(d, u.todo)
        BY <3>3 DEF Among
      <4>2. /\ w.todo \in Seq(Device) /\ w.todo # <<>> /\ w.on \in Instance
            /\ w.seen = devices[w.on]
            /\ devices' = [devices EXCEPT ![w.on] = w.seen \cup {Head(w.todo)}]
        BY <1>0, <1>4, <2>1, <2>6 DEF Makes, Knowing, Shape, Work, Turns, Removes, Quiet,
           Starts, Checks, Undoes, Misses, Picks, Reads, GivesUp, Idle
      <4>3. \A d : Among(d, w.todo) => d = Head(w.todo)
        BY <2>6, <3>3, <4>1, <4>2, Lists DEF Makes
      <4>4. devices'[w.on] = devices[w.on] \cup {Head(w.todo)}
        BY <1>0, <4>2
      <4>5. \A n \in DOMAIN Families : DevicesOf(p)[n] \in devices'[w.on]
        BY <2>1, <2>6, <3>1, <4>3, <4>4 DEF Attending, Makes
      <4> QED BY <1>4, <2>1, <4>5 DEF IsServed, DevicesOf
    <3> QED BY <3>1, <3>2, <3>3
  <2> HIDE DEF w, u
  <2>7. w.pc \notin {"idle", "lock", "check", "next", "reserve", "unlock", "quota"}
    BY <2>1
  <2> QED BY <1>0, <1>4, <2>2, <2>3, <2>4, <2>5, <2>6, <2>7
       DEF Turns, Quiet, Starts, Checks, Picks, GivesUp, w, u
<1>5. ASSUME NEW h \in Handler, Turns(h), rows'[p] # rows[p] PROVE Attended(p, h)'
  <2> DEFINE w == work[h]
             u == work'[h]
  <2>1. /\ w.pc = "reserve" /\ w.kind = "add" /\ p = w.port /\ rows'[p] = w.on
        /\ u.on = w.on /\ u.port = w.port /\ u.kind = w.kind /\ u.pc = "device"
        /\ UNCHANGED lock
    BY <1>0, <1>5 DEF Turns
  <2>2. lock[w.on] = h /\ u.gone = {}
    BY <1>0, <1>5, <2>1 DEF Knowing, Answers, Turns
  <2> QED BY <2>1, <2>2 DEF Attended, Target, Adding
<1>6. ASSUME NEW h \in Handler, Drops(h)
      PROVE  IsServed(p)' \/ p \in torn' \/ \E x \in Handler : Attended(p, x)'
  <2> DEFINE w == work[h]
             u == work'[h]
  <2>1. PICK q \in Doomed(w) :
          /\ w.pc = "forget" /\ rows[q] = w.on
          /\ Same(u, w) /\ u.kind = w.kind /\ u.ports = w.ports \ {q}
          /\ \/ u.pc \in {"unlock", "next"} /\ w.kind # "undo"
             \/ /\ w.kind = "undo" /\ u.todo = w.todo
                /\ u.pc = IF w.ports = {q} THEN "unlock" ELSE "forget"
          /\ rows' = [rows EXCEPT ![q] = None] /\ torn \ {q} \subseteq torn'
          /\ UNCHANGED <<devices, lock>>
          /\ \A k \in Handler \ {h} :
                work'[k] = IF q \in Knows(work[k])
                           THEN [work[k] EXCEPT !.gone = @ \cup {q}] ELSE work[k]
    BY <1>6 DEF Drops, IsThere
  <2>2. q # p /\ rows'[p] = rows[p]
    BY <1>0, <2>1
  <2>3. CASE IsServed(p)
    BY <2>1, <2>2, <2>3 DEF IsServed, DevicesOf
  <2>4. ASSUME NEW k \in Handler \ {h}, Attended(p, k) PROVE Attended(p, k)'
    <3> DEFINE v == work[k]
               x == work'[k]
    <3>1. v \in Work
      BY <1>0
    <3>2. /\ x.on = v.on /\ x.port = v.port /\ x.kind = v.kind
          /\ x.pc = v.pc /\ x.ports = v.ports /\ x.gone \subseteq v.gone \cup {q}
      BY <2>1, <3>1 DEF Work
    <3>3. Target(x) = Target(v)
      BY <3>2 DEF Target, Doomed, Adding
    <3> QED BY <2>1, <2>2, <2>4, <3>2, <3>3 DEF Attended, Target, Doomed, Adding
  <2>5. ASSUME Attended(p, h) PROVE Attended(p, h)'
    <3>1. p \in Doomed(w) /\ w.kind # "add" /\ Shape(w)
      BY <1>0, <1>t, <2>1, <2>5 DEF Attended, Shape
    <3>2. w.kind = "undo" /\ p \in w.ports
      BY <2>1, <2>2, <3>1 DEF Doomed
    <3>3. p \in Target(u)
      BY <2>1, <2>2, <3>2 DEF Target, Doomed, Adding
    <3> QED BY <1>1, <2>1, <2>2, <2>5, <3>3 DEF Attended, Same
  <2> QED BY <1>0, <2>1, <2>2, <2>3, <2>4, <2>5
<1>7. ASSUME NEW i \in Instance, UNCHANGED <<rows, devices, work, torn>>, lock[i] # None,
             lock' = [lock EXCEPT ![i] = None], ~Holds(work[lock[i]], i)
      PROVE  IsServed(p)' \/ p \in torn' \/ \E x \in Handler : Attended(p, x)'
  <2>1. IsServed(p) => IsServed(p)'
    BY <1>7 DEF IsServed, DevicesOf
  <2>2. ASSUME NEW k \in Handler, Attended(p, k) PROVE Attended(p, k)'
    <3>1. /\ work[k].pc \in {"device", "forget"} /\ Knowing(work[k], k)
      BY <1>0, <1>t, <2>2 DEF Attended
    <3>2. rows[p] = i => Holds(work[k], i)
      BY <2>2, <3>1 DEF Holds, Attended, Knowing
    <3>3. lock'[rows[p]] = k
      BY <1>0, <1>7, <2>2, <3>2 DEF Attended
    <3> QED BY <1>1, <1>7, <2>2, <3>3 DEF Attended
  <2> QED BY <1>0, <1>7, <2>1, <2>2
<1>8. ASSUME NEW h \in Handler, Turns(h), \A x \in Handler \ {h} : work'[x] = work[x]
      PROVE  IsServed(p)' \/ p \in torn' \/ \E x \in Handler : Attended(p, x)'
  <2>1. CASE rows'[p] # rows[p]
    BY <1>5, <1>8, <2>1
  <2>2. CASE rows'[p] = rows[p] /\ IsServed(p)
    BY <1>2, <1>8, <2>2
  <2>3. ASSUME rows'[p] = rows[p], NEW k \in Handler, Attended(p, k)
        PROVE  IsServed(p)' \/ p \in torn' \/ Attended(p, k)'
    BY <1>3, <1>4, <1>8, <2>3
  <2>4. p \in torn => p \in torn'
    BY <1>8 DEF Turns
  <2> QED BY <1>0, <2>1, <2>2, <2>3, <2>4
<1> QED BY <1>0, <1>6, <1>7, <1>8 DEF Actions

(* Types are right, whatever fails.                                        *)
THEOREM PortTypeCorrect ==
    ASSUME PortMappingsConstants
    PROVE  Spec => []TypeOK
<1>1. Init => Typed
  BY DEF Init, Typed, Shape, Work, Idle
<1>2. Typed /\ [Next]_vars => Typed'
  BY TypedStep
<1>3. Typed => TypeOK
  BY DEF Typed, TypeOK
<1> QED BY <1>1, <1>2, <1>3, PTL DEF Spec

(* An instance has no more ports than its quota allows, whatever the host  *)
(* refuses or fails to answer and whoever dies, as long as no lock runs out*)
(* under its holder (createPortMapping and its lock).                      *)
THEOREM PortQuotaKept ==
    ASSUME PortMappingsConstants, "expire" \notin Faults
    PROVE  Spec => []QuotaKept
<1> DEFINE Inv == Typed /\ Roomy
<1>1. Init => Inv
  <2> SUFFICES ASSUME Init PROVE Inv
    OBVIOUS
  <2>1. Typed
    BY DEF Init, Typed, Shape, Work, Idle
  <2>2. Roomy
    <3>1. \A i \in Instance : Counted(i) = {}
      BY DEF Init, Counted, RowsOf, PortMappingsConstants
    <3>2. \A i \in Instance : Cardinality(Counted(i)) <= Limit
      BY <3>1, FS_EmptySet DEF PortMappingsConstants
    <3>3. \A h \in Handler : Fits(work[h], h)
      BY DEF Init, Fits, Idle
    <3> QED BY <3>2, <3>3 DEF Roomy, QuotaKept
  <2> QED BY <2>1, <2>2
<1>2. Inv /\ [Next]_vars => Inv'
  BY TypedStep, RoomyStep
<1>3. Inv => QuotaKept
  BY DEF Roomy
<1> QED BY <1>1, <1>2, <1>3, PTL DEF Spec

(* Known holds always, if the host answers and locks do not run out.       *)
LEMMA KnownAlways ==
    ASSUME PortMappingsConstants,
           Faults \cap {"auto", "transfer", "unheard", "expire"} = {}
    PROVE  /\ Init => Typed /\ Known
           /\ Typed /\ Known /\ [Next]_vars => (Typed /\ Known)'
<1>1. Init => Typed /\ Known
  BY DEF Init, Typed, Shape, Work, Idle, Known, Knowing, NothingHidden
<1>2. ASSUME Typed, Known, [Next]_vars PROVE (Typed /\ Known)'
  <2>1. Typed'
    BY <1>2, TypedStep
  <2>2. CASE Next
    <3>1. \A h \in Handler : work[h].kind \notin {"auto", "strip"}
      BY <1>2 DEF Known, Knowing
    <3>2. Actions
      BY <1>2, <2>2, <3>1, Effects
    <3> QED BY <1>2, <2>1, <3>2, KnownStep
  <2>3. CASE UNCHANGED vars
    <3>1. ASSUME NEW h \in Handler PROVE Knowing(work[h], h)'
      <4>1. Knowing(work[h], h)
        BY <1>2 DEF Known
      <4> QED BY <2>3, <4>1 DEF vars, Knowing, KnownFamily, Doomed, Adding
    <3>2. NothingHidden' /\ \A i \in Instance : \A d \in devices'[i] : KnownFamily(d)
      BY <1>2, <2>3 DEF vars, Known, NothingHidden
    <3> QED BY <2>1, <3>1, <3>2 DEF Known, KnownFamily
  <2> QED BY <1>2, <2>2, <2>3
<1> QED BY <1>1, <1>2

(* No machine has a port without a row (POST, DELETE of port mappings and  *)
(* their compensation), unless an automatic mapping, a transfer, an unheard*)
(* answer or a lock that runs out gets in the way.                         *)
THEOREM PortsNotHidden ==
    ASSUME PortMappingsConstants,
           Faults \cap {"auto", "transfer", "unheard", "expire"} = {}
    PROVE  Spec => []NothingHidden
<1>1. Init => Typed /\ Known
  BY KnownAlways
<1>2. Typed /\ Known /\ [Next]_vars => (Typed /\ Known)'
  BY KnownAlways
<1>3. Known => NothingHidden
  BY DEF Known
<1> QED BY <1>1, <1>2, <1>3, PTL DEF Spec

(* A port with a row leads to the instance the row names, once nobody is at*)
(* it, when the host may refuse a call; the exception are rows mapped anew *)
(* while a request to delete the row before them waited for the lock.      *)
THEOREM RowsAreServedAlways ==
    ASSUME PortMappingsConstants, Faults \subseteq {"refuse"}
    PROVE  Spec => []RowsAreServed
<1> DEFINE Inv == Typed /\ Known /\ Owned /\ Served
<1>1. Init => Inv
  <2> SUFFICES ASSUME Init PROVE Inv
    OBVIOUS
  <2>1. Typed /\ Known
    BY KnownAlways
  <2>2. Idle.kind = "none" /\ Idle.pc = "idle"
    BY DEF Idle
  <2>3. Owned
    BY <2>2 DEF Init, Owned, Answers, Mine
  <2>4. Served
    BY <2>2 DEF Init, Served, Attending
  <2> QED BY <2>1, <2>3, <2>4
<1>2. Inv /\ [Next]_vars => Inv'
  <2> SUFFICES ASSUME Inv, [Next]_vars PROVE Inv'
    OBVIOUS
  <2>1. Typed' /\ Known'
    BY KnownAlways
  <2>2. CASE Next
    <3>1. \A h \in Handler : work[h].kind \notin {"auto", "strip"}
      BY DEF Known, Knowing
    <3>2. Actions
      BY <2>2, <3>1, Effects
    <3>3. Owned'
      BY <2>1, <3>2, OwnedStep
    <3>4. \A h \in Handler : Attending(work[h])'
      BY <2>1, <3>2, AttendingStep
    <3>5. \A p \in Port : rows'[p] # None =>
             IsServed(p)' \/ p \in torn' \/ \E h \in Handler : Attended(p, h)'
      BY <2>1, <3>2, <3>4, ServedStep
    <3>6. Served'
      BY <3>4, <3>5 DEF Served, IsServed
    <3> QED BY <2>1, <3>3, <3>6
  <2>3. CASE UNCHANGED vars
    <3>1. Owned'
      BY <2>3 DEF vars, Owned, Answers, Mine
    <3>2. Served'
      BY <2>3 DEF vars, Served, Attending, Attended, Target, Doomed, Adding, DevicesOf
    <3> QED BY <2>1, <3>1, <3>2
  <2> QED BY <2>2, <2>3
<1>3. Inv => RowsAreServed
  <2> SUFFICES ASSUME Inv, NEW p \in Port, rows[p] # None, p \notin torn
               PROVE  \/ \A n \in DOMAIN Families : DevicesOf(p)[n] \in devices[rows[p]]
                      \/ /\ lock[rows[p]] # None
                         /\ work[lock[rows[p]]].pc \in {"device", "forget"}
    BY DEF RowsAreServed
  <2>1. ASSUME NEW h \in Handler, Attended(p, h)
        PROVE  lock[rows[p]] # None /\ work[lock[rows[p]]].pc \in {"device", "forget"}
    BY <2>1 DEF Attended, Target, PortMappingsConstants
  <2> QED BY <2>1 DEF Served
<1> QED BY <1>1, <1>2, <1>3, PTL DEF Spec

----------------------------------------------------------------------------
(* Snapshots                                                               *)

(* What is left of a list without one of its members.                      *)
LEMMA SnapRemoval ==
    ASSUME NEW D, NEW s \in Seq(D), NEW n \in DOMAIN s
    PROVE  LET t == Snap!RemoveAt(s, n) IN
           /\ t \in Seq(D) /\ Len(t) = Len(s) - 1
           /\ Snap!ToSet(t) \subseteq Snap!ToSet(s)
           /\ \A d \in Snap!ToSet(s) : d # s[n] => d \in Snap!ToSet(t)
           /\ (\A i, j \in DOMAIN s : s[i] = s[j] => i = j) =>
                s[n] \notin Snap!ToSet(t) /\ \A i, j \in DOMAIN t : t[i] = t[j] => i = j
<1> DEFINE t == Snap!RemoveAt(s, n)
<1>1. /\ n \in 1 .. Len(s) /\ Len(s) \in Nat /\ DOMAIN s = 1 .. Len(s)
  OBVIOUS
<1>2. t = SubSeq(s, 1, n - 1) \o SubSeq(s, n + 1, Len(s))
  BY DEF Snap!RemoveAt
<1>3. /\ SubSeq(s, 1, n - 1) \in Seq(D) /\ Len(SubSeq(s, 1, n - 1)) = n - 1
      /\ \A i \in 1 .. n - 1 : SubSeq(s, 1, n - 1)[i] = s[i]
  BY <1>1
<1>4. /\ SubSeq(s, n + 1, Len(s)) \in Seq(D) /\ Len(SubSeq(s, n + 1, Len(s))) = Len(s) - n
      /\ \A i \in 1 .. Len(s) - n : SubSeq(s, n + 1, Len(s))[i] = s[n + i]
  BY <1>1
<1>5. /\ t \in Seq(D) /\ Len(t) = Len(s) - 1 /\ DOMAIN t = 1 .. Len(s) - 1
      /\ \A i \in 1 .. n - 1 : t[i] = s[i]
      /\ \A i \in n .. Len(s) - 1 : t[i] = s[i + 1]
  <2> DEFINE a == SubSeq(s, 1, n - 1)
             b == SubSeq(s, n + 1, Len(s))
  <2>1. /\ a \in Seq(D) /\ Len(a) = n - 1 /\ \A i \in 1 .. n - 1 : a[i] = s[i]
        /\ b \in Seq(D) /\ Len(b) = Len(s) - n
        /\ \A i \in 1 .. Len(s) - n : b[i] = s[n + i]
        /\ t = a \o b
    BY <1>2, <1>3, <1>4
  <2> HIDE DEF a, b, t
  <2>2. t \in Seq(D) /\ Len(t) = Len(a) + Len(b)
    BY <2>1, ConcatProperties
  <2>3. \A i \in 1 .. Len(a) + Len(b) : t[i] = IF i <= Len(a) THEN a[i] ELSE b[i - Len(a)]
    BY <2>1, ConcatProperties
  <2>4. ASSUME NEW i \in n .. Len(s) - 1 PROVE t[i] = s[i + 1]
    <3>1. i - (n - 1) \in 1 .. Len(s) - n /\ n + (i - (n - 1)) = i + 1 /\ ~(i <= n - 1)
          /\ i \in 1 .. (n - 1) + (Len(s) - n)
      BY <1>1
    <3> QED BY <2>1, <2>3, <3>1
  <2>5. Len(a) + Len(b) = Len(s) - 1
    BY <1>1, <2>1
  <2>6. t \in Seq(D) /\ Len(t) = Len(s) - 1 /\ DOMAIN t = 1 .. Len(s) - 1
    <3>1. t \in Seq(D) /\ Len(t) = Len(s) - 1
      BY <2>2, <2>5
    <3> QED BY <3>1
  <2>7. ASSUME NEW i \in 1 .. n - 1 PROVE t[i] = s[i]
    <3>1. i \in 1 .. Len(a) + Len(b) /\ i <= Len(a)
      BY <1>1, <2>1, <2>5
    <3> QED BY <2>1, <2>3, <3>1
  <2> QED BY <2>4, <2>6, <2>7
<1> HIDE DEF t
<1>6. \A i \in DOMAIN t : \E j \in DOMAIN s : j # n /\ t[i] = s[j]
  <2>1. ASSUME NEW i \in DOMAIN t, i < n PROVE i \in DOMAIN s /\ i # n /\ t[i] = s[i]
    BY <1>1, <1>5, <2>1
  <2>2. ASSUME NEW i \in DOMAIN t, ~(i < n)
        PROVE  i + 1 \in DOMAIN s /\ i + 1 # n /\ t[i] = s[i + 1]
    BY <1>1, <1>5, <2>2
  <2> QED BY <2>1, <2>2
<1>7. \A j \in DOMAIN s : j # n => \E i \in DOMAIN t : t[i] = s[j]
  <2>1. ASSUME NEW j \in DOMAIN s, j < n PROVE j \in DOMAIN t /\ t[j] = s[j]
    BY <1>1, <1>5, <2>1
  <2>2. ASSUME NEW j \in DOMAIN s, j > n PROVE j - 1 \in DOMAIN t /\ t[j - 1] = s[j]
    BY <1>1, <1>5, <2>2
  <2> QED BY <1>1, <2>1, <2>2
<1>8. ASSUME \A i, j \in DOMAIN s : s[i] = s[j] => i = j
      PROVE  s[n] \notin Snap!ToSet(t) /\ \A i, j \in DOMAIN t : t[i] = t[j] => i = j
  <2>1. s[n] \notin Snap!ToSet(t)
    BY <1>1, <1>6, <1>8 DEF Snap!ToSet
  <2>2. ASSUME NEW i \in DOMAIN t, NEW j \in DOMAIN t, t[i] = t[j] PROVE i = j
    <3>1. /\ i \in 1 .. Len(s) - 1 /\ j \in 1 .. Len(s) - 1
          /\ i + 1 \in DOMAIN s /\ j + 1 \in DOMAIN s /\ i \in DOMAIN s /\ j \in DOMAIN s
      BY <1>1, <1>5
    <3>2. /\ t[i] = IF i < n THEN s[i] ELSE s[i + 1]
          /\ t[j] = IF j < n THEN s[j] ELSE s[j + 1]
      BY <1>1, <1>5, <3>1
    <3>3. CASE i < n /\ j < n
      BY <1>8, <2>2, <3>1, <3>2, <3>3
    <3>4. CASE i < n /\ ~(j < n)
      <4>1. i = j + 1
        BY <1>8, <2>2, <3>1, <3>2, <3>4
      <4> QED BY <1>1, <3>1, <3>4, <4>1
    <3>5. CASE ~(i < n) /\ j < n
      <4>1. j = i + 1
        BY <1>8, <2>2, <3>1, <3>2, <3>5
      <4> QED BY <1>1, <3>1, <3>5, <4>1
    <3>6. CASE ~(i < n) /\ ~(j < n)
      <4>1. i + 1 = j + 1
        BY <1>8, <2>2, <3>1, <3>2, <3>6
      <4> QED BY <1>1, <3>1, <4>1
    <3> QED BY <3>3, <3>4, <3>5, <3>6
  <2> QED BY <2>1, <2>2
<1> QED BY <1>5, <1>6, <1>7, <1>8 DEF Snap!ToSet, t

(* A list with one more member.                                            *)
LEMMA SnapAppend ==
    ASSUME NEW D, NEW s \in Seq(D), NEW d \in D
    PROVE  LET t == Append(s, d) IN
           /\ t \in Seq(D) /\ Len(t) = Len(s) + 1 /\ Snap!ToSet(t) = Snap!ToSet(s) \cup {d}
           /\ (\A i, j \in DOMAIN s : s[i] = s[j] => i = j) /\ d \notin Snap!ToSet(s) =>
                \A i, j \in DOMAIN t : t[i] = t[j] => i = j
<1> DEFINE t == Append(s, d)
<1>1. /\ t \in Seq(D) /\ Len(t) = Len(s) + 1 /\ Len(s) \in Nat
      /\ DOMAIN s = 1 .. Len(s) /\ DOMAIN t = 1 .. Len(s) + 1
      /\ \A i \in 1 .. Len(s) : t[i] = s[i]
      /\ t[Len(s) + 1] = d
  OBVIOUS
<1> HIDE DEF t
<1>2. Snap!ToSet(t) = Snap!ToSet(s) \cup {d}
  <2>1. \A i \in DOMAIN t : i \in DOMAIN s \/ i = Len(s) + 1
    BY <1>1
  <2>2. \A i \in DOMAIN s : i \in DOMAIN t
    BY <1>1
  <2> QED BY <1>1, <2>1, <2>2 DEF Snap!ToSet
<1>3. ASSUME \A i, j \in DOMAIN s : s[i] = s[j] => i = j, d \notin Snap!ToSet(s)
      PROVE  \A i, j \in DOMAIN t : t[i] = t[j] => i = j
  BY <1>1, <1>3 DEF Snap!ToSet
<1> QED BY <1>1, <1>2, <1>3 DEF t

-----------------------------------------------------------------------------

(* Everything a step may do, by what it does to the rows and to the host.  *)
Others(h) == \A g \in Handler \ {h} : /\ snapPc'[g] = snapPc[g] /\ snapOn'[g] = snapOn[g]
                                      /\ attempt'[g] = attempt[g] /\ evicted'[g] = evicted[g]

(* The steps of a handler that touch neither, and those after an error.    *)
Ways == {<<"idle", "lock">>, <<"idle", "queue">>, <<"lock", "idle">>, <<"queue", "idle">>,
         <<"check", "count">>, <<"check", "unlock">>, <<"count", "take">>,
         <<"date", "unlock">>, <<"giveUp", "unlock">>, <<"quota", "make">>,
         <<"quota", "unlock">>, <<"make", "unlock">>, <<"save", "undo">>, <<"undo", "unlock">>}
(* The steps after whose errors a job tries again.                         *)
Errs == {"evict", "forget", "take", "record", "date"}

(* A job tries again, or gives up.                                         *)
Tries(h) == /\ snapPc[h] \in Errs
            /\ \/ snapPc'[h] = "count" /\ attempt'[h] = attempt[h] + 1 /\ attempt'[h] < Attempts
               \/ snapPc'[h] = "giveUp" /\ attempt'[h] = attempt[h]
(* A handler is done,                                                      *)
Ends(h) == snapPc'[h] = "idle" /\ snapOn'[h] = None /\ attempt'[h] = 0 /\ evicted'[h] = 0
(* keeps what is counted of it,                                            *)
SnapKeeps(h) == attempt'[h] = attempt[h] /\ evicted'[h] = evicted[h]
(* and its snapshot.                                                       *)
Here(h) == snapOn'[h] = snapOn[h]

(* A step that changes neither rows nor host,                              *)
Walks(h) == /\ <<snapPc[h], snapPc'[h]>> \in Ways /\ SnapKeeps(h) /\ Here(h)
            /\ snapPc'[h] \in {"take", "make"} => ~Snap!Full
            /\ snapPc[h] = "save" => "db" \in SnapFaults
            /\ UNCHANGED <<snaps, snapHost, snapLock>>
(* an error of a job,                                                      *)
Errors(h) == /\ Tries(h) /\ evicted'[h] = evicted[h] /\ Here(h)
             /\ snapPc[h] \in {"record", "date"} => "db" \in SnapFaults
             /\ snapPc[h] = "forget" => snapOn[h] \notin Snap!Recorded \/ "db" \in SnapFaults
             /\ UNCHANGED <<snaps, snapHost, snapLock>>
(* a lock taken,                                                           *)
Locks(h) == /\ <<snapPc[h], snapPc'[h]>> \in {<<"lock", "check">>, <<"queue", "quota">>}
            /\ SnapKeeps(h) /\ Here(h) /\ snapLock = None /\ snapLock' = h
                 /\ UNCHANGED <<snaps, snapHost>>
(* an end,                                                                 *)
Leaves(h) == /\ Ends(h) /\ UNCHANGED <<snaps, snapHost>>
             /\ \/ snapPc[h] = "unlock" /\ snapLock' = IF snapLock = h THEN None ELSE snapLock
                \/ snapPc[h] = "remove" /\ snapLock' = snapLock
                \/ "crash" \in SnapFaults /\ snapPc[h] # "idle" /\ snapLock' = snapLock
                \/ snapPc[h] = "erase" /\ snapOn[h] \notin Snap!Recorded /\ snapLock' = snapLock
                \/ snapPc[h] = "erase" /\ "db" \in SnapFaults /\ snapLock' = snapLock
(* a snapshot chosen, to be given up or deleted,                           *)
SnapPicks(h) == /\ \/ snapPc[h] = "count" /\ snapPc'[h] = "evict" /\ Snap!Full
                   \/ snapPc[h] = "idle" /\ snapPc'[h] = "remove"
                /\ snapOn'[h] \in Snap!Recorded /\ SnapKeeps(h)
                     /\ UNCHANGED <<snaps, snapHost, snapLock>>
(* one removed from the host,                                              *)
Unhosts(h) == /\ snapHost' = snapHost \ {snapOn[h]} /\ UNCHANGED <<snaps, snapLock>>
              /\ \/ snapPc[h] = "evict" /\ snapPc'[h] = "forget" /\ SnapKeeps(h) /\ Here(h)
                 \/ snapPc[h] = "remove" /\ snapPc'[h] = "erase" /\ SnapKeeps(h) /\ Here(h)
                 \/ /\ snapPc[h] = "evict" /\ Tries(h) /\ "unheard" \in SnapFaults
                    /\ evicted'[h] = evicted[h] /\ Here(h)
                 \/ snapPc[h] = "remove" /\ Ends(h) /\ "unheard" \in SnapFaults
                 \/ snapPc[h] = "undo" /\ snapPc'[h] = "unlock" /\ SnapKeeps(h) /\ Here(h)
(* one made there,                                                         *)
Hosts(h) == /\ UNCHANGED <<snaps, snapLock>>
            /\ \E s \in Snap!NewName : 
                /\ snapHost' = snapHost \cup {s}
                /\ \/ /\ <<snapPc[h], snapPc'[h]>> \in {<<"take", "record">>, <<"make", "save">>}
                      /\ snapOn'[h] = s /\ SnapKeeps(h)
                   \/ /\ snapPc[h] = "take" /\ Tries(h) /\ "unheard" \in SnapFaults
                      /\ evicted'[h] = evicted[h] /\ Here(h)
                   \/ /\ snapPc[h] = "make" /\ snapPc'[h] = "unlock" /\ "unheard" \in SnapFaults
                      /\ SnapKeeps(h) /\ Here(h)
(* a row added                                                             *)
Adds(h) == /\ <<snapPc[h], snapPc'[h]>> \in {<<"record", "date">>, <<"save", "unlock">>}
           /\ snaps' = Append(snaps, snapOn[h]) /\ SnapKeeps(h) /\ Here(h)
                /\ UNCHANGED <<snapHost, snapLock>>
(* and a row dropped.                                                      *)
SnapDrops(h) == /\ \E n \in DOMAIN snaps : snaps[n] = snapOn[h]
                     /\ snaps' = Snap!RemoveAt(snaps, n)
                /\ \/ /\ snapPc[h] = "forget" /\ snapPc'[h] = "take" /\ Here(h)
                      /\ attempt'[h] = attempt[h] /\ evicted'[h] = evicted[h] + 1
                   \/ snapPc[h] = "erase" /\ Ends(h)
                /\ UNCHANGED <<snapHost, snapLock>>
(* These are the steps of a handler,                                       *)
Turn(h) == \/ Walks(h) \/ Errors(h) \/ Locks(h) \/ Leaves(h) \/ SnapPicks(h) \/ Unhosts(h)
           \/ Hosts(h) \/ Adds(h) \/ SnapDrops(h)
(* and these change nothing but locks.                                     *)
Still == /\ UNCHANGED <<snaps, snapHost, snapPc, snapOn, attempt, evicted>>
         /\ \/ snapLock' = snapLock
            \/ /\ snapLock # None /\ snapLock' = None
               /\ snapPc[snapLock] = "idle" \/ "expire" \in SnapFaults

(* What a handler has seen of its names and of its tries.                  *)
Named == \A h \in Handler : snapPc[h] \in {"evict", "forget", "record", "save", "undo",
                                       "remove", "erase"} => snapOn[h] \in Snapshot
(* A run has cost no more snapshots than it has made tries.                *)
Tried == \A h \in Handler :
    /\ evicted[h] <= attempt[h] + 1
    /\ snapPc[h] \notin {"take", "record", "date", "giveUp", "unlock"} => evicted[h] <= attempt[h]
(* The inductive invariant behind the types.                               *)
SnapTyped == Snap!TypeOK /\ Named /\ Tried

(* The values of pc.                                                       *)
Steps == {"idle", "lock", "check", "count", "evict", "forget", "take",
                           "record", "date", "giveUp", "queue", "quota", "make", "save",
                           "undo", "unlock", "remove", "erase"}
(* The handler that steps is the only one that does.                       *)
SnapLists(h) == /\ snapPc' = [snapPc EXCEPT ![h] = snapPc'[h]]
                     /\ snapOn' = [snapOn EXCEPT ![h] = snapOn'[h]]
                /\ attempt' = [attempt EXCEPT ![h] = attempt'[h]]
                /\ evicted' = [evicted EXCEPT ![h] = evicted'[h]]
                /\ snapPc'[h] \in Steps

(* The actions of Snapshots do no more than that.                          *)
LEMMA SnapEffects ==
    ASSUME Snap!SnapshotsConstants, Snap!TypeOK, [Snap!Next]_(Snap!vars)
    PROVE  /\ automatic' \subseteq Snapshot \/ \E h \in Handler : snapPc[h] \in {"record", "save"}
                                                    /\ automatic' \subseteq automatic
                                                         \cup {snapOn[h]}
           /\ snapDue' \in BOOLEAN
           /\ Still \/ \E h \in Handler : SnapLists(h) /\ Turn(h)
<1> USE DEF Snap!TypeOK, Snap!SnapshotsConstants, Snap!Goto, Snap!Take, Snap!copies, Steps
<1>a. CASE UNCHANGED Snap!vars
  BY <1>a DEF Snap!vars, Still
<1>b. CASE Snap!BecomesDue
  BY <1>b DEF Snap!BecomesDue, Still
<1>c. CASE Snap!Expire
  BY <1>c DEF Snap!Expire, Still
<1>1. ASSUME NEW h \in Handler, Snap!FindDue(h) 
      PROVE  SnapLists(h) /\ Turn(h) /\ snapDue' \in BOOLEAN /\ automatic' = automatic
  BY <1>1 DEF Snap!FindDue, SnapLists, Turn, Walks, Ways, SnapKeeps, Here
<1>2. ASSUME NEW h \in Handler, Snap!Request(h) 
      PROVE  SnapLists(h) /\ Turn(h) /\ snapDue' \in BOOLEAN /\ automatic' = automatic
  BY <1>2 DEF Snap!Request, SnapLists, Turn, Walks, Ways, SnapKeeps, Here
<1>3. ASSUME NEW h \in Handler, Snap!Lock(h) 
      PROVE  SnapLists(h) /\ Turn(h) /\ snapDue' \in BOOLEAN /\ automatic' = automatic
  BY <1>3 DEF Snap!Lock, SnapLists, Turn, Locks, SnapKeeps, Here
<1>4. ASSUME NEW h \in Handler, Snap!Busy(h) 
      PROVE  SnapLists(h) /\ Turn(h) /\ snapDue' \in BOOLEAN /\ automatic' = automatic
  BY <1>4 DEF Snap!Busy, SnapLists, Turn, Walks, Ways, SnapKeeps, Here
<1>5. ASSUME NEW h \in Handler, Snap!Unlock(h) 
      PROVE  SnapLists(h) /\ Turn(h) /\ snapDue' \in BOOLEAN /\ automatic' = automatic
  BY <1>5 DEF Snap!Unlock, SnapLists, Turn, Leaves, Ends, Snap!End
<1>6. ASSUME NEW h \in Handler, Snap!Check(h) 
      PROVE  SnapLists(h) /\ Turn(h) /\ snapDue' \in BOOLEAN /\ automatic' = automatic
  BY <1>6 DEF Snap!Check, SnapLists, Turn, Walks, Ways, SnapKeeps, Here
<1>7. ASSUME NEW h \in Handler, Snap!Count(h) 
      PROVE  SnapLists(h) /\ Turn(h) /\ snapDue' \in BOOLEAN /\ automatic' = automatic
  BY <1>7 DEF Snap!Count, SnapLists, Turn, Walks, SnapPicks, Ways, SnapKeeps, Here,
     Snap!Recorded, Snap!ToSet, Snap!Oldest
<1>8. ASSUME NEW h \in Handler, Snap!Evict(h) 
      PROVE  SnapLists(h) /\ Turn(h) /\ snapDue' \in BOOLEAN /\ automatic' = automatic
  BY <1>8 DEF Snap!Evict, SnapLists, Turn, Unhosts, Errors, Snap!Fails, Snap!Again, Tries, Errs,
     SnapKeeps, Here
<1>9. ASSUME NEW h \in Handler, Snap!Forget(h) 
      PROVE  SnapLists(h) /\ Turn(h) /\ snapDue' \in BOOLEAN /\ automatic' = automatic
  BY <1>9 DEF Snap!Forget, SnapLists, Turn, SnapDrops, Snap!Drop, Errors, Snap!Fails,
     Snap!Again, Tries, Errs, SnapKeeps, Here
<1>10. ASSUME NEW h \in Handler, Snap!TakeSnapshot(h) 
      PROVE  SnapLists(h) /\ Turn(h) /\ snapDue' \in BOOLEAN /\ automatic' = automatic
  BY <1>10 DEF Snap!TakeSnapshot, SnapLists, Turn, Hosts, Errors, Snap!Fails, Snap!Again, Tries,
     Errs, SnapKeeps, Here
<1>11. ASSUME NEW h \in Handler, Snap!Record(h) 
      PROVE  SnapLists(h) /\ Turn(h) /\ snapDue' \in BOOLEAN
           /\ automatic' \subseteq automatic \cup {snapOn[h]} /\ snapPc[h] \in {"record", "save"}
  BY <1>11 DEF Snap!Record, SnapLists, Turn, Adds, Snap!AddRow, Errors, Snap!Fails, Snap!Again,
     Tries, Errs, SnapKeeps, Here
<1>12. ASSUME NEW h \in Handler, Snap!Date(h) 
      PROVE  SnapLists(h) /\ Turn(h) /\ snapDue' \in BOOLEAN /\ automatic' = automatic
  BY <1>12 DEF Snap!Date, SnapLists, Turn, Walks, Ways, Errors, Snap!Fails, Snap!Again, Tries,
     Errs, SnapKeeps, Here
<1>13. ASSUME NEW h \in Handler, Snap!Quota(h) 
      PROVE  SnapLists(h) /\ Turn(h) /\ snapDue' \in BOOLEAN /\ automatic' = automatic
  BY <1>13 DEF Snap!Quota, SnapLists, Turn, Walks, Ways, SnapKeeps, Here
<1>14. ASSUME NEW h \in Handler, Snap!Make(h) 
      PROVE  SnapLists(h) /\ Turn(h) /\ snapDue' \in BOOLEAN /\ automatic' = automatic
  BY <1>14 DEF Snap!Make, SnapLists, Turn, Hosts, Walks, Ways, SnapKeeps, Here
<1>15. ASSUME NEW h \in Handler, Snap!Save(h) 
      PROVE  SnapLists(h) /\ Turn(h) /\ snapDue' \in BOOLEAN
           /\ automatic' \subseteq automatic \cup {snapOn[h]} /\ snapPc[h] \in {"record", "save"}
  BY <1>15 DEF Snap!Save, SnapLists, Turn, Adds, Snap!AddRow, Walks, Ways, SnapKeeps, Here
<1>16. ASSUME NEW h \in Handler, Snap!Undo(h) 
      PROVE  SnapLists(h) /\ Turn(h) /\ snapDue' \in BOOLEAN /\ automatic' = automatic
  BY <1>16 DEF Snap!Undo, SnapLists, Turn, Unhosts, Walks, Ways, SnapKeeps, Here
<1>17. ASSUME NEW h \in Handler, Snap!RemoveSnapshot(h) 
      PROVE  SnapLists(h) /\ Turn(h) /\ snapDue' \in BOOLEAN /\ automatic' = automatic
  BY <1>17 DEF Snap!RemoveSnapshot, SnapLists, Turn, Unhosts, Leaves, Ends, Snap!End, SnapKeeps,
     Here
<1>18. ASSUME NEW h \in Handler, Snap!Erase(h) 
      PROVE  SnapLists(h) /\ Turn(h) /\ snapDue' \in BOOLEAN /\ automatic' = automatic
  BY <1>18 DEF Snap!Erase, SnapLists, Turn, SnapDrops, Snap!Drop, Leaves, Ends, Snap!End
<1>19. ASSUME NEW h \in Handler, Snap!Crash(h) 
      PROVE  SnapLists(h) /\ Turn(h) /\ snapDue' \in BOOLEAN /\ automatic' = automatic
  BY <1>19 DEF Snap!Crash, SnapLists, Turn, Leaves, Ends, Snap!End
<1>20. ASSUME NEW h \in Handler, NEW s \in Snapshot, Snap!Delete(h, s) 
      PROVE  SnapLists(h) /\ Turn(h) /\ snapDue' \in BOOLEAN /\ automatic' = automatic
  BY <1>20 DEF Snap!Delete, SnapLists, Turn, SnapPicks, SnapKeeps
<1> QED BY <1>a, <1>b, <1>c, <1>1, <1>2, <1>3, <1>4, <1>5, <1>6, <1>7, <1>8, <1>9, <1>10, <1>11,
   <1>12, <1>13, <1>14, <1>15, <1>16, <1>17, <1>18, <1>19, <1>20 DEF Snap!Next, Snap!BecomesDue,
   Snap!Expire, Snap!vars

(* Every action keeps them.                                                *)
LEMMA SnapTypedStep ==
    ASSUME Snap!SnapshotsConstants, SnapTyped, [Snap!Next]_(Snap!vars) PROVE SnapTyped'
<1> USE DEF Snap!SnapshotsConstants
<1>1. /\ Snap!TypeOK /\ Named /\ Tried
      /\ automatic' \subseteq Snapshot \/ \E h \in Handler : snapPc[h] \in {"record", "save"}
                                                    /\ automatic' \subseteq automatic
                                                         \cup {snapOn[h]}
      /\ snapDue' \in BOOLEAN
      /\ Still \/ \E h \in Handler : SnapLists(h) /\ Turn(h)
  BY SnapEffects DEF SnapTyped
<1>2. automatic' \subseteq Snapshot /\ snapDue' \in BOOLEAN
  BY <1>1 DEF Snap!TypeOK, Named
<1>3. CASE Still
  BY <1>1, <1>2, <1>3 DEF Still, SnapTyped, Snap!TypeOK, Named, Tried
<1>4. ASSUME NEW h \in Handler, SnapLists(h), Turn(h) PROVE SnapTyped'
  <2>1. /\ snaps \in Seq(Snapshot) /\ snapHost \subseteq Snapshot
             /\ snapLock \in Handler \cup {None}
        /\ snapPc[h] \in Steps /\ snapOn[h] \in Snapshot \cup {None}
        /\ attempt[h] \in 0 .. Attempts - 1 /\ evicted[h] \in 0 .. Attempts
        /\ evicted[h] <= attempt[h] + 1
        /\ snapPc[h] \notin {"take", "record", "date", "giveUp", "unlock"}
             => evicted[h] <= attempt[h]
        /\ Attempts \in Nat \ {0}
        /\ snapPc[h] \in {"evict", "forget", "record", "save", "undo", "remove", "erase"}
             => snapOn[h] \in Snapshot
        /\ Snap!NewName \subseteq Snapshot
    BY <1>1 DEF Snap!TypeOK, Tried, Named, Steps, Snap!NewName
  <2>2. Snap!Recorded \subseteq Snapshot
    BY <2>1 DEF Snap!Recorded, Snap!ToSet
  <2>3. /\ snapHost' \subseteq Snapshot /\ snapLock' \in Handler \cup {None}
        /\ snapOn'[h] \in Snapshot \cup {None}
        /\ snapPc'[h] \in {"evict", "forget", "record", "save", "undo", "remove", "erase"}
             => snapOn'[h] \in Snapshot
    BY <1>4, <2>1, <2>2 DEF Turn, Walks, Errors, Locks, Leaves, SnapPicks, Unhosts, Hosts, Adds,
         SnapDrops, Tries, Ends, SnapKeeps, Here, Ways, Errs
  <2>4. snaps' \in Seq(Snapshot)
    <3>1. CASE snaps' = snaps
      BY <2>1, <3>1
    <3>2. CASE Adds(h)
      BY <2>1, <3>2 DEF Adds
    <3>3. CASE SnapDrops(h)
      BY <2>1, <3>3, SnapRemoval DEF SnapDrops
    <3> QED BY <1>4, <3>1, <3>2, <3>3 DEF Turn, Walks, Errors, Locks, Leaves, SnapPicks, Unhosts,
              Hosts
  <2>5. /\ attempt'[h] \in 0 .. Attempts - 1 /\ evicted'[h] \in 0 .. Attempts
        /\ evicted'[h] <= attempt'[h] + 1
        /\ snapPc'[h] \notin {"take", "record", "date", "giveUp", "unlock"}
             => evicted'[h] <= attempt'[h]
    BY <1>4, <2>1 DEF Turn, Walks, Errors, Locks, Leaves, SnapPicks, Unhosts, Hosts, Adds,
         SnapDrops, Tries, Ends, SnapKeeps, Here, Ways, Errs
  <2>6. Snap!TypeOK'
    BY <1>1, <1>2, <1>4, <2>3, <2>4, <2>5 DEF Snap!TypeOK, SnapLists, Steps
  <2>7. Named'
    BY <1>1, <1>4, <2>3 DEF Snap!TypeOK, SnapLists, Named
  <2>8. Tried'
    <3>1. ASSUME NEW g \in Handler, g # h
          PROVE  snapPc'[g] = snapPc[g] /\ evicted'[g] = evicted[g] /\ attempt'[g] = attempt[g]
      BY <1>1, <1>4, <3>1 DEF SnapLists, Snap!TypeOK
    <3> QED BY <1>1, <2>5, <3>1 DEF Tried
  <2> QED BY <2>6, <2>7, <2>8 DEF SnapTyped
<1> QED BY <1>1, <1>3, <1>4

(* They hold always.                                                       *)
LEMMA SnapTypedAlways == ASSUME Snap!SnapshotsConstants PROVE Snap!Spec => []SnapTyped
<1>1. Snap!Init => SnapTyped
  <2> SUFFICES ASSUME Snap!Init PROVE SnapTyped
    OBVIOUS
  <2>1. snaps \in Seq(Snapshot) /\ 0 \in 0 .. Attempts /\ 0 \in 0 .. Attempts - 1
    BY DEF Snap!Init, Snap!SnapshotsConstants
  <2>2. Snap!TypeOK
    BY <2>1 DEF Snap!Init, Snap!TypeOK
  <2>3. Named /\ Tried
    BY DEF Snap!Init, Named, Tried
  <2> QED BY <2>2, <2>3 DEF SnapTyped
<1>2. SnapTyped /\ [Snap!Next]_(Snap!vars) => SnapTyped'
  BY SnapTypedStep
<1> QED BY <1>1, <1>2, PTL DEF Snap!Spec

(* Every variable keeps its type, whatever fails.                          *)
THEOREM SnapTypeCorrect == ASSUME Snap!SnapshotsConstants PROVE Snap!Spec => []Snap!TypeOK
<1>1. SnapTyped => Snap!TypeOK
  BY DEF SnapTyped
<1> QED BY <1>1, SnapTypedAlways, PTL

-----------------------------------------------------------------------------
(* The quota                                                               *)

(* Whoever counts holds the lock, and who goes on to fill has found room.  *)
Working(h) == snapPc[h] \notin {"idle", "lock", "queue", "remove", "erase"}
(* It is about to add a snapshot.                                          *)
Filling(h) == snapPc[h] \in {"take", "record", "make", "save"}
(* What it has made sure of.                                               *)
Room(h) == /\ Working(h) => snapLock = h
           /\ Filling(h) => Len(snaps) < SnapLimit
(* The quota, with the room every handler has made sure of.                *)
SnapRoomy == Snap!QuotaKept /\ \A h \in Handler : Room(h)

(* Every action keeps the quota and the room.                              *)
LEMMA SnapRoomyStep ==
    ASSUME Snap!SnapshotsConstants, SnapTyped, SnapRoomy, [Snap!Next]_(Snap!vars),
           "expire" \notin SnapFaults
    PROVE  SnapRoomy'
<1>1. /\ Snap!TypeOK /\ Named
      /\ Still \/ \E h \in Handler : SnapLists(h) /\ Turn(h)
  BY SnapEffects DEF SnapTyped
<1>2. snaps \in Seq(Snapshot) /\ SnapLimit \in Nat \ {0} /\ Len(snaps) \in Nat
     /\ Len(snaps) <= SnapLimit
      /\ None \notin Handler /\ snapLock \in Handler \cup {None}
  BY <1>1 DEF Snap!TypeOK, SnapRoomy, Snap!QuotaKept, Snap!SnapshotsConstants
<1>3. CASE Still
  BY <1>1, <1>2, <1>3 DEF Still, SnapRoomy, Snap!QuotaKept, Room, Working, Filling, Snap!TypeOK
<1>4. ASSUME NEW h \in Handler, SnapLists(h), Turn(h) PROVE SnapRoomy'
  <2>1. \A g \in Handler : g # h => snapPc'[g] = snapPc[g]
    BY <1>1, <1>4 DEF SnapLists, Snap!TypeOK
  <2>2. \A g \in Handler : Room(g)
    BY DEF SnapRoomy
  <2>3. ASSUME ~Adds(h), ~SnapDrops(h) PROVE SnapRoomy'
    <3>0. snaps' = snaps
      BY <1>4, <2>3 DEF Turn, Walks, Errors, Locks, Leaves, SnapPicks, Unhosts, Hosts
    <3>1. Room(h)'
      <4>1. CASE Walks(h)
        BY <1>2, <2>2, <3>0, <4>1 DEF Room, Working, Filling, Snap!Full, Walks, Ways
      <4>2. CASE Errors(h) \/ Unhosts(h) \/ SnapPicks(h)
        BY <1>2, <2>2, <3>0, <4>2 DEF Room, Working, Filling, Errors, Unhosts, SnapPicks, Tries,
             Ends, Errs
      <4>3. CASE Locks(h) \/ Leaves(h)
        BY <1>2, <2>2, <3>0, <4>3 DEF Room, Working, Filling, Locks, Leaves, Ends
      <4>4. CASE Hosts(h)
        BY <1>2, <2>2, <3>0, <4>4 DEF Room, Working, Filling, Hosts, Tries, Errs
      <4> QED BY <1>4, <2>3, <4>1, <4>2, <4>3, <4>4 DEF Turn
    <3>2. snapLock' = snapLock \/ (snapLock = None /\ snapLock' = h)
         \/ (snapLock = h /\ snapLock' = None)
      BY <1>2, <1>4, <2>2 DEF Turn, Walks, Errors, Locks, Leaves, SnapPicks, Unhosts, Hosts, Adds,
           SnapDrops, Room, Working
    <3>3. ASSUME NEW g \in Handler, g # h PROVE Room(g)'
      BY <1>2, <2>1, <2>2, <3>0, <3>2, <3>3 DEF Room, Working, Filling
    <3> QED BY <1>2, <3>0, <3>1, <3>3 DEF SnapRoomy, Snap!QuotaKept
  <2>4. CASE Adds(h)
    <3>1. Len(snaps) < SnapLimit /\ snapLock = h /\ snapLock' = snapLock
      BY <2>2, <2>4 DEF Adds, Room, Filling, Working
    <3>2. snapOn[h] \in Snapshot
      BY <1>1, <2>4 DEF Adds, Named
    <3>3. snaps' = Append(snaps, snapOn[h]) /\ Len(snaps') = Len(snaps) + 1
      BY <1>2, <2>4, <3>2 DEF Adds
    <3>4. ASSUME NEW g \in Handler, g # h PROVE Room(g)'
      BY <2>1, <2>2, <3>1, <3>4 DEF Room, Filling, Working
    <3>5. Room(h)'
      BY <2>4, <3>1 DEF Room, Filling, Working, Adds
    <3> QED BY <1>2, <3>1, <3>3, <3>4, <3>5 DEF SnapRoomy, Snap!QuotaKept
  <2>5. CASE SnapDrops(h)
    <3>1. Len(snaps') = Len(snaps) - 1 /\ snapLock' = snapLock
      BY <1>2, <2>5, SnapRemoval DEF SnapDrops
    <3>2. Room(h)'
      BY <1>2, <2>2, <2>5, <3>1 DEF Room, Filling, Working, SnapDrops, Ends
    <3>3. ASSUME NEW g \in Handler, g # h PROVE Room(g)'
      BY <1>2, <2>1, <2>2, <3>1, <3>3 DEF Room, Filling, Working
    <3> QED BY <1>2, <3>1, <3>2, <3>3 DEF SnapRoomy, Snap!QuotaKept
  <2> QED BY <1>4, <2>3, <2>4, <2>5 DEF Turn, Walks, Errors, Locks, Leaves, SnapPicks, Unhosts,
              Hosts
<1> QED BY <1>1, <1>3, <1>4

(* A request and the jobs keep the quota, whatever fails, while the lock   *)
(* does not run out under its holder (checkSnapshotQuota, createSnapshot). *)
THEOREM SnapQuotaKept ==
    ASSUME Snap!SnapshotsConstants, "expire" \notin SnapFaults PROVE Snap!Spec => []Snap!QuotaKept
<1>1. Snap!Init => SnapRoomy
  BY DEF Snap!Init, SnapRoomy, Snap!QuotaKept, Room, Working, Filling, Snap!SnapshotsConstants
<1>2. SnapTyped /\ SnapRoomy /\ [Snap!Next]_(Snap!vars) => SnapRoomy'
  BY SnapRoomyStep
<1>3. SnapRoomy => Snap!QuotaKept
  BY DEF SnapRoomy
<1> QED BY <1>1, <1>2, <1>3, SnapTypedAlways, PTL DEF Snap!Spec

-----------------------------------------------------------------------------
(* One old snapshot for one new one                                        *)

(* Who has given one up has room, until its new one is there.              *)
Spent(h) == evicted[h] # 0 =>
    /\ evicted[h] = 1
    /\ snapPc[h] \in {"count", "take", "record", "giveUp", "date", "unlock"}
    /\ snapPc[h] \in {"count", "take", "record"} => Len(snaps) < SnapLimit
(* For every job.                                                          *)
SnapSpent == \A h \in Handler : Spent(h)

(* Every action keeps that: who has room keeps it, as it holds the lock.   *)
LEMMA SnapSpentStep ==
    ASSUME Snap!SnapshotsConstants, SnapTyped, SnapRoomy, SnapSpent, [Snap!Next]_(Snap!vars),
           SnapFaults \subseteq {"host", "crash"}
    PROVE  SnapSpent'
<1>1. /\ Snap!TypeOK /\ Named
      /\ Still \/ \E h \in Handler : SnapLists(h) /\ Turn(h)
      /\ "db" \notin SnapFaults /\ "unheard" \notin SnapFaults
  BY SnapEffects DEF SnapTyped
<1>2. snaps \in Seq(Snapshot) /\ SnapLimit \in Nat \ {0} /\ Len(snaps) \in Nat
     /\ Len(snaps) <= SnapLimit
      /\ evicted \in [Handler -> 0 .. Attempts]
  BY <1>1 DEF Snap!TypeOK, SnapRoomy, Snap!QuotaKept, Snap!SnapshotsConstants
<1>3. CASE Still
  BY <1>1, <1>2, <1>3 DEF Still, SnapSpent, Spent
<1>4. ASSUME NEW h \in Handler, SnapLists(h), Turn(h) PROVE SnapSpent'
  <2>1. \A g \in Handler : g # h => snapPc'[g] = snapPc[g] /\ evicted'[g] = evicted[g]
    BY <1>1, <1>4 DEF SnapLists, Snap!TypeOK
  <2>2. \A g \in Handler : Spent(g) /\ Room(g)
    BY DEF SnapSpent, SnapRoomy
  <2>3. ASSUME ~Adds(h), ~SnapDrops(h) PROVE SnapSpent'
    <3>0. snaps' = snaps
      BY <1>4, <2>3 DEF Turn, Walks, Errors, Locks, Leaves, SnapPicks, Unhosts, Hosts
    <3>1. Spent(h)'
      <4>1. CASE Walks(h)
        BY <1>1, <1>2, <2>2, <3>0, <4>1 DEF Spent, Walks, Ways, SnapKeeps
      <4>2. CASE Errors(h)
        BY <1>1, <1>2, <2>2, <3>0, <4>2 DEF Spent, Errors, Tries, Errs
      <4>3. CASE Unhosts(h) \/ Locks(h)
        BY <1>1, <1>2, <2>2, <3>0, <4>3 DEF Spent, Unhosts, Locks, SnapKeeps, Tries, Ends
      <4>4. CASE SnapPicks(h) \/ Leaves(h)
        BY <1>1, <1>2, <2>2, <3>0, <4>4 DEF Spent, SnapPicks, Leaves, SnapKeeps, Ends, Snap!Full
      <4>5. CASE Hosts(h)
        BY <1>1, <1>2, <2>2, <3>0, <4>5 DEF Spent, Hosts, SnapKeeps
      <4> QED BY <1>4, <2>3, <4>1, <4>2, <4>3, <4>4, <4>5 DEF Turn
    <3> QED BY <2>1, <2>2, <3>0, <3>1 DEF SnapSpent, Spent
  <2>4. CASE Adds(h)
    <3>1. snapLock = h
      BY <2>2, <2>4 DEF Adds, Room, Working
    <3>2. Spent(h)'
      BY <2>2, <2>4 DEF Adds, Spent, SnapKeeps
    <3>3. ASSUME NEW g \in Handler, g # h PROVE Spent(g)'
      BY <2>1, <2>2, <3>1, <3>3 DEF Spent, Room, Working
    <3> QED BY <3>2, <3>3 DEF SnapSpent
  <2>5. CASE SnapDrops(h)
    <3>1. Len(snaps') = Len(snaps) - 1
      BY <1>2, <2>5, SnapRemoval DEF SnapDrops
    <3>2. Spent(h)'
      BY <1>2, <2>2, <2>5, <3>1 DEF Spent, SnapDrops, Ends
    <3>3. ASSUME NEW g \in Handler, g # h PROVE Spent(g)'
      BY <1>2, <2>1, <2>2, <3>1, <3>3 DEF Spent
    <3> QED BY <3>2, <3>3 DEF SnapSpent
  <2> QED BY <1>4, <2>3, <2>4, <2>5 DEF Turn, Walks, Errors, Locks, Leaves, SnapPicks, Unhosts,
              Hosts
<1> QED BY <1>1, <1>3, <1>4

(* A run of the job costs one old snapshot at most, although the host may  *)
(* refuse and a process die (executeAutoSnapshot and its retries).         *)
THEOREM OneForOneAlways ==
    ASSUME Snap!SnapshotsConstants, SnapFaults \subseteq {"host", "crash"}
    PROVE  Snap!Spec => []Snap!OneForOne
<1>1. Snap!Init => SnapRoomy /\ SnapSpent
  BY DEF Snap!Init, SnapRoomy, Snap!QuotaKept, Room, Working, Filling, Snap!SnapshotsConstants,
     SnapSpent, Spent
<1>2. SnapTyped /\ SnapRoomy /\ [Snap!Next]_(Snap!vars) => SnapRoomy'
  BY SnapRoomyStep
<1>3. SnapTyped /\ SnapRoomy /\ SnapSpent /\ [Snap!Next]_(Snap!vars) => SnapSpent'
  BY SnapSpentStep
<1>4. SnapTyped /\ SnapSpent => Snap!OneForOne
  <2> SUFFICES ASSUME SnapTyped, SnapSpent, NEW h \in Handler PROVE evicted[h] <= 1
    BY DEF Snap!OneForOne
  <2>1. evicted[h] \in 0 .. Attempts /\ Spent(h)
    BY DEF SnapTyped, Snap!TypeOK, SnapSpent
  <2> QED BY <2>1 DEF Spent
<1> QED BY <1>1, <1>2, <1>3, <1>4, SnapTypedAlways, PTL DEF Snap!Spec

-----------------------------------------------------------------------------
(* Rows and host                                                           *)

(* No snapshot has two rows.                                               *)
Plain == \A i, j \in DOMAIN snaps : snaps[i] = snaps[j] => i = j
(* What is given up is gone from the host, what is made is there and new.  *)
Halfway(h) ==
    /\ snapPc[h] \in {"forget", "erase"} => snapOn[h] \notin snapHost
    /\ snapPc[h] \in {"record", "save"} =>
         /\ snapOn[h] \in snapHost \ Snap!Recorded
         /\ \A g \in Handler \ {h} : snapOn[g] # snapOn[h]
    /\ snapPc[h] # "undo"
(* Rows and host match, with what every handler knows of its snapshot.     *)
SnapMatched == Plain /\ Snap!RowsMatchHost /\ \A h \in Handler : Halfway(h)

(* Every action keeps them matched.                                        *)
LEMMA SnapMatchedStep ==
    ASSUME Snap!SnapshotsConstants, SnapTyped, SnapMatched, [Snap!Next]_(Snap!vars),
           SnapFaults \subseteq {"host", "expire"}
    PROVE  SnapMatched'
<1>1. /\ Snap!TypeOK /\ Named
      /\ Still \/ \E h \in Handler : SnapLists(h) /\ Turn(h)
      /\ "db" \notin SnapFaults /\ "unheard" \notin SnapFaults /\ "crash" \notin SnapFaults
  BY SnapEffects DEF SnapTyped
<1>2. /\ snaps \in Seq(Snapshot) /\ snapHost \subseteq Snapshot /\ None \notin Snapshot
      /\ Snap!Recorded \subseteq Snapshot /\ Snap!NewName \cap (Snap!Recorded \cup snapHost) = {}
      /\ \A h \in Handler : snapOn[h] \notin Snap!NewName
      /\ Plain /\ Snap!RowsMatchHost
  BY <1>1 DEF Snap!TypeOK, SnapMatched, Snap!SnapshotsConstants, Snap!Recorded, Snap!ToSet,
     Snap!NewName
<1>3. CASE Still
  BY <1>2, <1>3 DEF Still, SnapMatched, Plain, Snap!RowsMatchHost, Halfway, Snap!Recorded
<1>4. ASSUME NEW h \in Handler, SnapLists(h), Turn(h) PROVE SnapMatched'
  <2>1. \A g \in Handler : g # h => snapPc'[g] = snapPc[g] /\ snapOn'[g] = snapOn[g]
    BY <1>1, <1>4 DEF SnapLists, Snap!TypeOK
  <2>2. \A g \in Handler : Halfway(g)
    BY DEF SnapMatched
  <2>3. CASE Walks(h) \/ Errors(h) \/ Locks(h) \/ Leaves(h) \/ SnapPicks(h)
    <3>1. snaps' = snaps /\ snapHost' = snapHost /\ Snap!Recorded' = Snap!Recorded
      BY <2>3 DEF Walks, Errors, Locks, Leaves, SnapPicks, Snap!Recorded
    <3>2. /\ snapPc'[h] \notin {"forget", "erase", "record", "save", "undo"}
          /\ snapOn'[h] = snapOn[h] \/ snapOn'[h] = None \/ snapOn'[h] \in Snap!Recorded
      BY <1>1, <2>3 DEF Walks, Errors, Locks, Leaves, SnapPicks, Ends, Here, Tries, Ways
    <3>3. /\ snapPc[h] \notin {"forget", "erase"} \/ snapOn[h] \notin Snap!Recorded
          /\ snapPc[h] \notin {"record", "save"}
      <4>1. CASE Walks(h)
        BY <1>1, <4>1 DEF Walks, Ways
      <4>2. CASE Errors(h)
        BY <1>1, <4>2 DEF Errors, Tries, Errs
      <4>3. CASE Locks(h) \/ Leaves(h) \/ SnapPicks(h)
        BY <1>1, <4>3 DEF Locks, Leaves, SnapPicks
      <4> QED BY <2>3, <4>1, <4>2, <4>3
    <3>5. Snap!RowsMatchHost'
      BY <1>2, <2>1, <2>2, <3>1, <3>2, <3>3 DEF Snap!RowsMatchHost, Halfway
    <3>6. ASSUME NEW g \in Handler PROVE Halfway(g)'
      <4>1. CASE g = h
        BY <3>2, <4>1 DEF Halfway
      <4>2. CASE g # h
        BY <1>1, <1>2, <2>1, <2>2, <3>1, <3>2, <4>2 DEF Halfway, Named
      <4> QED BY <4>1, <4>2
    <3> QED BY <1>2, <3>1, <3>5, <3>6 DEF SnapMatched, Plain
  <2>4. CASE Unhosts(h)
    <3>1. /\ snaps' = snaps /\ snapHost' = snapHost \ {snapOn[h]}
               /\ Snap!Recorded' = Snap!Recorded
          /\ snapOn'[h] = snapOn[h] /\ snapPc'[h] \in {"forget", "erase"}
          /\ snapPc[h] \in {"evict", "remove"}
      BY <1>1, <2>2, <2>4 DEF Unhosts, Here, Halfway, Snap!Recorded
    <3>2. Snap!RowsMatchHost'
      BY <1>2, <2>1, <3>1 DEF Snap!RowsMatchHost
    <3>3. ASSUME NEW g \in Handler PROVE Halfway(g)'
      BY <2>1, <2>2, <3>1 DEF Halfway
    <3> QED BY <1>2, <3>1, <3>2, <3>3 DEF SnapMatched, Plain
  <2>5. CASE Hosts(h)
    <3>1. PICK s \in Snap!NewName : 
            /\ snaps' = snaps /\ snapHost' = snapHost \cup {s} /\ Snap!Recorded' = Snap!Recorded
            /\ snapOn'[h] = s /\ snapPc'[h] \in {"record", "save"}
                 /\ snapPc[h] \in {"take", "make"}
      BY <1>1, <2>5 DEF Hosts, Snap!Recorded
    <3>2. Snap!RowsMatchHost'
      BY <1>2, <2>1, <3>1 DEF Snap!RowsMatchHost
    <3>3. ASSUME NEW g \in Handler PROVE Halfway(g)'
      BY <1>2, <2>1, <2>2, <3>1 DEF Halfway
    <3> QED BY <1>2, <3>1, <3>2, <3>3 DEF SnapMatched, Plain
  <2>6. CASE Adds(h)
    <3>1. /\ snapOn[h] \in snapHost \ Snap!Recorded /\ snapPc[h] \in {"record", "save"}
          /\ \A g \in Handler \ {h} : snapOn[g] # snapOn[h]
      BY <2>2, <2>6 DEF Adds, Halfway
    <3>2. /\ snapHost' = snapHost /\ snapOn'[h] = snapOn[h] /\ snapPc'[h] \in {"date", "unlock"}
          /\ snaps' = Append(snaps, snapOn[h]) /\ snapOn[h] \in Snapshot
      BY <1>2, <2>6, <3>1 DEF Adds, Here
    <3>3. Snap!Recorded' = Snap!Recorded \cup {snapOn[h]} /\ Plain'
      BY <1>2, <3>1, <3>2, SnapAppend DEF Snap!Recorded, Plain
    <3>4. Snap!RowsMatchHost'
      BY <1>2, <2>1, <3>1, <3>2, <3>3 DEF Snap!RowsMatchHost
    <3>5. ASSUME NEW g \in Handler PROVE Halfway(g)'
      BY <2>1, <2>2, <3>1, <3>2, <3>3 DEF Halfway
    <3> QED BY <3>3, <3>4, <3>5 DEF SnapMatched
  <2>7. CASE SnapDrops(h)
    <3>1. PICK n \in DOMAIN snaps : snaps[n] = snapOn[h] /\ snaps' = Snap!RemoveAt(snaps, n)
      BY <2>7 DEF SnapDrops
    <3>2. /\ snapHost' = snapHost /\ snapPc[h] \in {"forget", "erase"}
               /\ snapOn[h] \notin snapHost
          /\ snapOn'[h] = snapOn[h] \/ snapOn'[h] = None
          /\ snapPc'[h] \in {"take", "idle"} /\ snapOn[h] \in Snap!Recorded
      BY <2>2, <2>7, <3>1 DEF SnapDrops, Here, Ends, Halfway, Snap!Recorded, Snap!ToSet
    <3>3. Snap!Recorded' \subseteq Snap!Recorded /\ snapOn[h] \notin Snap!Recorded' /\ Plain'
          /\ \A s \in Snap!Recorded : s # snapOn[h] => s \in Snap!Recorded'
      BY <1>2, <3>1, SnapRemoval DEF Snap!Recorded, Plain
    <3>4. Snap!RowsMatchHost'
      BY <1>2, <2>1, <3>2, <3>3 DEF Snap!RowsMatchHost
    <3>5. ASSUME NEW g \in Handler PROVE Halfway(g)'
      <4>1. CASE g = h
        BY <3>2, <4>1 DEF Halfway
      <4>2. CASE g # h
        BY <1>1, <1>2, <2>1, <2>2, <3>2, <3>3, <4>2 DEF Halfway, Named
      <4> QED BY <4>1, <4>2
    <3> QED BY <3>3, <3>4, <3>5 DEF SnapMatched
  <2> QED BY <1>4, <2>3, <2>4, <2>5, <2>6, <2>7 DEF Turn
<1> QED BY <1>1, <1>3, <1>4

(* What is recorded is on the host and the other way round, but for what a *)
(* handler is at, when calls to the host fail and the lock runs out        *)
(* (autoSnapshotJob, POST and DELETE /snapshots).                          *)
THEOREM RowsMatchHostAlways ==
    ASSUME Snap!SnapshotsConstants, SnapFaults \subseteq {"host", "expire"}
    PROVE  Snap!Spec => []Snap!RowsMatchHost
<1>1. Snap!Init => SnapMatched
  BY DEF Snap!Init, SnapMatched, Plain, Snap!RowsMatchHost, Halfway, Snap!Recorded, Snap!ToSet
<1>2. SnapTyped /\ SnapMatched /\ [Snap!Next]_(Snap!vars) => SnapMatched'
  BY SnapMatchedStep
<1>3. SnapMatched => Snap!RowsMatchHost
  BY DEF SnapMatched
<1> QED BY <1>1, <1>2, <1>3, SnapTypedAlways, PTL DEF Snap!Spec

----------------------------------------------------------------------------
(* Backups                                                                 *)

(* The types of the state, for any backups, uploads and faults.            *)
LEMMA BackupTypeStep ==
    ASSUME Copy!BackupsConstants, Copy!TypeOK, [Copy!Next]_(Copy!vars) PROVE Copy!TypeOK'
<1> USE DEF Copy!BackupsConstants, Copy!Active
<1>1. ASSUME NEW b \in Backup, Copy!Reserve(b) PROVE Copy!TypeOK'
  BY <1>1 DEF Copy!Reserve, Copy!SetRow, Copy!MakerAt, Copy!TypeOK, Copy!backups, Copy!uploads,
     Copy!execution
<1>2. ASSUME NEW b \in Backup, Copy!HostMakes(b) PROVE Copy!TypeOK'
  BY <1>2 DEF Copy!HostMakes, Copy!MakerAt, Copy!TypeOK, Copy!backups, Copy!uploads,
     Copy!execution
<1>3. ASSUME NEW b \in Backup, Copy!Made(b) PROVE Copy!TypeOK'
  BY <1>3 DEF Copy!Made, Copy!SetRow, Copy!MakerAt, Copy!TypeOK, Copy!backups, Copy!uploads,
     Copy!execution
<1>4. ASSUME NEW b \in Backup, Copy!CleanStale(b) PROVE Copy!TypeOK'
  BY <1>4 DEF Copy!CleanStale, Copy!SetRow, Copy!TypeOK, Copy!backups, Copy!uploads,
     Copy!execution
<1>5. ASSUME NEW b \in Backup, Copy!Delete(b) PROVE Copy!TypeOK'
  BY <1>5 DEF Copy!Delete, Copy!RemoverAt, Copy!TypeOK, Copy!backups, Copy!uploads, Copy!execution
<1>6. ASSUME NEW b \in Backup, Copy!HostDeletes(b) PROVE Copy!TypeOK'
  BY <1>6 DEF Copy!HostDeletes, Copy!RemoverAt, Copy!TypeOK, Copy!backups, Copy!uploads,
     Copy!execution
<1>7. ASSUME NEW b \in Backup, Copy!Erase(b) PROVE Copy!TypeOK'
  BY <1>7 DEF Copy!Erase, Copy!SetRow, Copy!RemoverAt, Copy!TypeOK, Copy!backups, Copy!uploads,
     Copy!execution
<1>8. ASSUME NEW t \in Task, NEW b \in Backup, Copy!Request(t, b) PROVE Copy!TypeOK'
  BY <1>8 DEF Copy!Request, Copy!SetTask, Copy!TypeOK, Copy!backups, Copy!uploads, Copy!execution
<1>9. ASSUME NEW t \in Task, Copy!Cancel(t) PROVE Copy!TypeOK'
  BY <1>9 DEF Copy!Cancel, Copy!SetTask, Copy!TypeOK, Copy!backups, Copy!uploads, Copy!execution
<1>10. ASSUME NEW t \in Task, Copy!Claim(t) PROVE Copy!TypeOK'
  BY <1>10 DEF Copy!Claim, Copy!SetTask, Copy!Goto, Copy!TypeOK, Copy!backups, Copy!uploads,
     Copy!execution
<1>11. ASSUME NEW t \in Task, Copy!GrowLate(t) PROVE Copy!TypeOK'
  BY <1>11 DEF Copy!GrowLate, Copy!TypeOK, Copy!backups, Copy!uploads, Copy!execution
<1>12. ASSUME NEW t \in Task, Copy!Sweep(t) PROVE Copy!TypeOK'
  BY <1>12 DEF Copy!Sweep, Copy!SetTask, Copy!TypeOK, Copy!backups, Copy!uploads, Copy!execution
<1>13. ASSUME NEW t \in Task, Copy!Overrun(t) PROVE Copy!TypeOK'
  BY <1>13 DEF Copy!Overrun, Copy!TypeOK, Copy!backups, Copy!uploads, Copy!execution
<1>14. ASSUME NEW t \in Task, Copy!Export(t) PROVE Copy!TypeOK'
  <2>1. /\ uploadPc' \in [Task -> {"idle", "export", "upload", "check", "finish", "clean",
             "settle"}]
        /\ again' \in [Task -> BOOLEAN]
    <3>1. CASE Copy!Goto(t, "upload") /\ UNCHANGED again
      BY <3>1 DEF Copy!Goto, Copy!TypeOK
    <3>2. CASE Copy!Catch(t, FALSE)
      BY <3>2 DEF Copy!Goto, Copy!Catch, Copy!TypeOK
    <3>3. CASE Copy!Catch(t, TRUE)
      BY <3>3 DEF Copy!Goto, Copy!Catch, Copy!TypeOK
    <3> QED BY <1>14, <3>1, <3>2, <3>3 DEF Copy!Export
  <2>2. UNCHANGED <<Copy!backups, upload, uploadOf, retries, late, overtime, file, stored>>
    BY <1>14 DEF Copy!Export
  <2> QED BY <2>1, <2>2 DEF Copy!TypeOK, Copy!backups
<1>15. ASSUME NEW t \in Task, Copy!Upload(t) PROVE Copy!TypeOK'
  <2>1. <<t, retries[t]>> \in Task \X (0 .. MaxRetries)
    BY DEF Copy!TypeOK
  <2>2. stored' \subseteq Task \X (0 .. MaxRetries)
    <3>1. stored' = stored \/ stored' = stored \cup {<<t, retries[t]>>}
      BY <1>15 DEF Copy!Upload
    <3>2. stored \subseteq Task \X (0 .. MaxRetries)
      BY DEF Copy!TypeOK
    <3> QED BY <2>1, <3>1, <3>2
  <2>3. /\ uploadPc' \in [Task -> {"idle", "export", "upload", "check", "finish", "clean",
             "settle"}]
        /\ again' \in [Task -> BOOLEAN]
    BY <1>15 DEF Copy!Upload, Copy!Goto, Copy!Catch, Copy!TypeOK
  <2> QED BY <1>15, <2>2, <2>3 DEF Copy!Upload, Copy!TypeOK, Copy!backups
<1>16. ASSUME NEW t \in Task, Copy!CheckTime(t) PROVE Copy!TypeOK'
  <2>1. CASE ~overtime[t] /\ Copy!Goto(t, "finish") /\ UNCHANGED again
    BY <1>16, <2>1 DEF Copy!CheckTime, Copy!Goto, Copy!TypeOK, Copy!backups
  <2>2. CASE overtime[t] /\ Copy!Catch(t, FALSE)
    BY <1>16, <2>2 DEF Copy!CheckTime, Copy!Goto, Copy!Catch, Copy!TypeOK, Copy!backups
  <2> QED BY <1>16, <2>1, <2>2 DEF Copy!CheckTime
<1>17. ASSUME NEW t \in Task, Copy!Finish(t) PROVE Copy!TypeOK'
  BY <1>17 DEF Copy!Finish, Copy!SetTask, Copy!Goto, Copy!TypeOK, Copy!backups, Copy!uploads,
     Copy!execution
<1>18. ASSUME NEW t \in Task, Copy!Clean(t) PROVE Copy!TypeOK'
  BY <1>18 DEF Copy!Clean, Copy!Goto, Copy!TypeOK, Copy!backups, Copy!uploads, Copy!execution
<1>19. ASSUME NEW t \in Task, Copy!Settle(t) PROVE Copy!TypeOK'
  BY <1>19 DEF Copy!Settle, Copy!SetTask, Copy!Goto, Copy!TypeOK, Copy!backups, Copy!uploads,
     Copy!execution
<1>20. ASSUME Copy!Crash PROVE Copy!TypeOK'
  BY <1>20 DEF Copy!Crash, Copy!TypeOK, Copy!backups, Copy!uploads, Copy!execution
<1>21. CASE UNCHANGED Copy!vars
  BY <1>21 DEF Copy!vars, Copy!TypeOK
<1> QED
  BY <1>1, <1>2, <1>3, <1>4, <1>5, <1>6, <1>7, <1>8, <1>9, <1>10, <1>11, <1>12, <1>13, <1>14,
     <1>15, <1>16, <1>17, <1>18, <1>19, <1>20, <1>21 DEF Copy!Next

(* Types are right, whatever fails.                                        *)
THEOREM BackupTypeCorrect == ASSUME Copy!BackupsConstants PROVE Copy!Spec => []Copy!TypeOK
<1> SUFFICES ASSUME Copy!BackupsConstants PROVE Copy!Spec => []Copy!TypeOK
  OBVIOUS
<1>1. Copy!Init => Copy!TypeOK
  BY DEF Copy!Init, Copy!TypeOK, Copy!BackupsConstants, Copy!Active
<1>2. Copy!TypeOK /\ [Copy!Next]_(Copy!vars) => Copy!TypeOK'
  BY BackupTypeStep
<1> QED BY <1>1, <1>2, PTL DEF Copy!Spec

(* An answer that is to come finds the row as it was, unless a deletion    *)
(* has begun.                                                              *)
MadeIsCreating ==
    \A b \in Backup :
        /\ maker[b] # "idle" /\ ~early[b] =>
             backup[b] = "creating" /\ remover[b] = "idle"
        /\ remover[b] # "idle" => backup[b] # "none"

LEMMA MadeStep ==
    ASSUME Copy!TypeOK, MadeIsCreating, [Copy!Next]_(Copy!vars)
    PROVE  MadeIsCreating'
<1>1. ASSUME NEW b \in Backup, Copy!Reserve(b) PROVE MadeIsCreating'
  BY <1>1 DEF Copy!Reserve, Copy!SetRow, Copy!MakerAt, Copy!TypeOK, MadeIsCreating,
     Copy!backups, Copy!uploads, Copy!execution
<1>2. ASSUME NEW b \in Backup, Copy!HostMakes(b) PROVE MadeIsCreating'
  BY <1>2 DEF Copy!HostMakes, Copy!MakerAt, Copy!TypeOK, MadeIsCreating, Copy!backups,
     Copy!uploads, Copy!execution
<1>3. ASSUME NEW b \in Backup, Copy!Made(b) PROVE MadeIsCreating'
  BY <1>3 DEF Copy!Made, Copy!SetRow, Copy!MakerAt, Copy!TypeOK, MadeIsCreating, Copy!backups,
     Copy!uploads, Copy!execution
<1>4. ASSUME NEW b \in Backup, Copy!CleanStale(b) PROVE MadeIsCreating'
  BY <1>4 DEF Copy!CleanStale, Copy!SetRow, Copy!TypeOK, MadeIsCreating, Copy!backups,
     Copy!uploads, Copy!execution
<1>5. ASSUME NEW b \in Backup, Copy!Delete(b) PROVE MadeIsCreating'
  BY <1>5 DEF Copy!Delete, Copy!RemoverAt, Copy!TypeOK, MadeIsCreating, Copy!backups,
     Copy!uploads, Copy!execution
<1>6. ASSUME NEW b \in Backup, Copy!HostDeletes(b) PROVE MadeIsCreating'
  BY <1>6 DEF Copy!HostDeletes, Copy!RemoverAt, Copy!TypeOK, MadeIsCreating, Copy!backups,
     Copy!uploads, Copy!execution
<1>7. ASSUME NEW b \in Backup, Copy!Erase(b) PROVE MadeIsCreating'
  BY <1>7 DEF Copy!Erase, Copy!SetRow, Copy!RemoverAt, Copy!TypeOK, MadeIsCreating,
     Copy!backups, Copy!uploads, Copy!execution
<1>8. ASSUME NEW t \in Task, NEW b \in Backup, Copy!Request(t, b) PROVE MadeIsCreating'
  BY <1>8 DEF Copy!Request, Copy!SetTask, Copy!TypeOK, MadeIsCreating, Copy!backups,
     Copy!uploads, Copy!execution
<1>9. ASSUME NEW t \in Task, Copy!Cancel(t) PROVE MadeIsCreating'
  BY <1>9 DEF Copy!Cancel, Copy!SetTask, Copy!TypeOK, MadeIsCreating, Copy!backups,
     Copy!uploads, Copy!execution
<1>10. ASSUME NEW t \in Task, Copy!Claim(t) PROVE MadeIsCreating'
  BY <1>10 DEF Copy!Claim, Copy!SetTask, Copy!Goto, Copy!TypeOK, MadeIsCreating, Copy!backups,
     Copy!uploads, Copy!execution
<1>11. ASSUME NEW t \in Task, Copy!GrowLate(t) PROVE MadeIsCreating'
  BY <1>11 DEF Copy!GrowLate, Copy!TypeOK, MadeIsCreating, Copy!backups, Copy!uploads,
     Copy!execution
<1>12. ASSUME NEW t \in Task, Copy!Sweep(t) PROVE MadeIsCreating'
  BY <1>12 DEF Copy!Sweep, Copy!SetTask, Copy!TypeOK, MadeIsCreating, Copy!backups,
     Copy!uploads, Copy!execution
<1>13. ASSUME NEW t \in Task, Copy!Overrun(t) PROVE MadeIsCreating'
  BY <1>13 DEF Copy!Overrun, Copy!TypeOK, MadeIsCreating, Copy!backups, Copy!uploads,
     Copy!execution
<1>14. ASSUME NEW t \in Task, Copy!Export(t) PROVE MadeIsCreating'
  BY <1>14 DEF Copy!Export, Copy!Goto, Copy!Catch, Copy!TypeOK, MadeIsCreating, Copy!backups,
     Copy!uploads, Copy!execution
<1>15. ASSUME NEW t \in Task, Copy!Upload(t) PROVE MadeIsCreating'
  BY <1>15 DEF Copy!Upload, Copy!Goto, Copy!Catch, Copy!TypeOK, MadeIsCreating, Copy!backups,
     Copy!uploads, Copy!execution
<1>16. ASSUME NEW t \in Task, Copy!CheckTime(t) PROVE MadeIsCreating'
  BY <1>16 DEF Copy!CheckTime, Copy!Goto, Copy!Catch, Copy!TypeOK, MadeIsCreating, Copy!backups,
     Copy!uploads, Copy!execution
<1>17. ASSUME NEW t \in Task, Copy!Finish(t) PROVE MadeIsCreating'
  BY <1>17 DEF Copy!Finish, Copy!SetTask, Copy!Goto, Copy!TypeOK, MadeIsCreating, Copy!backups,
     Copy!uploads, Copy!execution
<1>18. ASSUME NEW t \in Task, Copy!Clean(t) PROVE MadeIsCreating'
  BY <1>18 DEF Copy!Clean, Copy!Goto, Copy!TypeOK, MadeIsCreating, Copy!backups, Copy!uploads,
     Copy!execution
<1>19. ASSUME NEW t \in Task, Copy!Settle(t) PROVE MadeIsCreating'
  BY <1>19 DEF Copy!Settle, Copy!SetTask, Copy!Goto, Copy!TypeOK, MadeIsCreating, Copy!backups,
     Copy!uploads, Copy!execution
<1>20. ASSUME Copy!Crash PROVE MadeIsCreating'
  BY <1>20 DEF Copy!Crash, Copy!TypeOK, MadeIsCreating, Copy!backups, Copy!uploads, Copy!execution
<1>21. CASE UNCHANGED Copy!vars
  BY <1>21 DEF Copy!vars, Copy!TypeOK, MadeIsCreating
<1> QED
  BY <1>1, <1>2, <1>3, <1>4, <1>5, <1>6, <1>7, <1>8, <1>9, <1>10, <1>11, <1>12, <1>13, <1>14,
     <1>15, <1>16, <1>17, <1>18, <1>19, <1>20, <1>21 DEF Copy!Next

(* The backups the quota answers for, and what their count needs.          *)
Sound == {b \in Copy!Counted : ~early[b]}
WithinQuota == IsFiniteSet(Copy!Counted) /\ Cardinality(Sound) <= BackupLimit

LEMMA QuotaStep ==
    ASSUME Copy!BackupsConstants, Copy!TypeOK, MadeIsCreating, WithinQuota,
           [Copy!Next]_(Copy!vars)
    PROVE  WithinQuota'
<1> USE DEF Sound
<1>f. /\ IsFiniteSet(Sound) /\ Cardinality(Sound) \in Nat /\ Cardinality(Sound) <= BackupLimit
      /\ Cardinality(Sound) <= Cardinality(Copy!Counted) /\ Cardinality(Copy!Counted) \in Nat
      /\ IsFiniteSet(Copy!Counted) /\ BackupLimit \in Nat
  <2>1. Sound \subseteq Copy!Counted
    OBVIOUS
  <2> HIDE DEF Sound
  <2> QED BY <2>1, FS_Subset, FS_CardinalityType DEF WithinQuota, Copy!BackupsConstants
<1>a. ASSUME IsFiniteSet(Copy!Counted'), Sound' \subseteq Sound PROVE WithinQuota'
  <2> HIDE DEF Sound
  <2>1. Cardinality(Sound') <= Cardinality(Sound) /\ Cardinality(Sound') \in Nat
    BY <1>a, <1>f, FS_Subset, FS_CardinalityType
  <2> QED BY <1>a, <1>f, <2>1 DEF WithinQuota
<1>1. ASSUME NEW b \in Backup, Copy!Reserve(b) PROVE WithinQuota'
  <2>1. /\ Copy!Counted' \subseteq Copy!Counted \cup {b} /\ early' = early
        /\ Cardinality(Copy!Counted) < BackupLimit
    BY <1>1 DEF Copy!Reserve, Copy!SetRow, Copy!Counted, Copy!TypeOK, Copy!Cardinality,
            Cardinality
  <2>2. Sound' \subseteq Sound \cup {b}
    BY <2>1, Zenon
  <2> HIDE DEF Sound
  <2>3. IsFiniteSet(Copy!Counted \cup {b}) /\ IsFiniteSet(Copy!Counted')
    BY <1>f, <2>1, FS_AddElement, FS_Subset
  <2>4. /\ IsFiniteSet(Sound \cup {b})
        /\ Cardinality(Sound \cup {b}) <= Cardinality(Sound) + 1
        /\ Cardinality(Sound \cup {b}) \in Nat
    <3>1. IsFiniteSet(Sound \cup {b})
      BY <1>f, FS_AddElement
    <3>2. b \in Sound => Sound \cup {b} = Sound
      OBVIOUS
    <3>3. b \notin Sound => Cardinality(Sound \cup {b}) = Cardinality(Sound) + 1
      BY <1>f, FS_AddElement
    <3>4. Cardinality(Sound \cup {b}) \in Nat
      BY <3>1, FS_CardinalityType
    <3>5. Cardinality(Sound \cup {b}) <= Cardinality(Sound) + 1
      <4>1. CASE b \in Sound
        <5>1. Cardinality(Sound \cup {b}) = Cardinality(Sound)
          BY <3>2, <4>1, Zenon
        <5> QED BY <1>f, <5>1
      <4>2. CASE b \notin Sound
        BY <1>f, <3>3, <4>2
      <4> QED BY <4>1, <4>2
    <3> QED BY <3>1, <3>4, <3>5
  <2>5. Cardinality(Sound') <= Cardinality(Sound \cup {b}) /\ Cardinality(Sound') \in Nat
    BY <2>2, <2>4, FS_Subset, FS_CardinalityType
  <2> QED BY <1>f, <2>1, <2>3, <2>4, <2>5 DEF WithinQuota
<1>2. ASSUME NEW b \in Backup, Copy!Made(b) PROVE WithinQuota'
  <2>1. Copy!Counted' \subseteq Copy!Counted \cup {b} /\ early' = early
    BY <1>2 DEF Copy!Made, Copy!SetRow, Copy!MakerAt, Copy!Counted, Copy!TypeOK
  <2>2. ~early[b] => b \in Copy!Counted
    BY <1>2 DEF Copy!Made, Copy!Counted, MadeIsCreating
  <2>3. Sound' \subseteq Sound
    BY <2>1, <2>2, Zenon
  <2>4. IsFiniteSet(Copy!Counted')
    BY <1>f, <2>1, FS_AddElement, FS_Subset
  <2> QED BY <2>3, <2>4, <1>a
<1>3. ASSUME Copy!Counted' \subseteq Copy!Counted, \A c \in Backup : ~early'[c] => ~early[c]
      PROVE  WithinQuota'
  <2>1. Sound' \subseteq Sound
    <3>1. \A c \in Copy!Counted' : c \in Backup
      BY DEF Copy!Counted
    <3> QED BY <1>3, <3>1, Zenon
  <2>2. IsFiniteSet(Copy!Counted')
    BY <1>f, <1>3, FS_Subset
  <2> QED BY <2>1, <2>2, <1>a
<1>4. ASSUME NEW b \in Backup, Copy!CleanStale(b) \/ Copy!Erase(b) PROVE WithinQuota'
  <2>1. Copy!Counted' \subseteq Copy!Counted /\ early' = early
    BY <1>4 DEF Copy!CleanStale, Copy!Erase, Copy!SetRow, Copy!RemoverAt, Copy!Counted,
       Copy!TypeOK
  <2> QED BY <2>1, <1>3
<1>5. ASSUME NEW b \in Backup, Copy!Delete(b) PROVE WithinQuota'
  <2>1. Copy!Counted' = Copy!Counted
    BY <1>5 DEF Copy!Delete, Copy!Counted
  <2>2. \A c \in Backup : ~early'[c] => ~early[c]
    BY <1>5, Zenon DEF Copy!Delete, Copy!TypeOK
  <2> QED BY <2>1, <2>2, <1>3
<1>6. CASE UNCHANGED <<backup, early>>
  BY <1>6, <1>3 DEF Copy!Counted
<1>7. \/ UNCHANGED <<backup, early>>
      \/ \E b \in Backup : \/ Copy!Reserve(b) \/ Copy!Made(b) \/ Copy!CleanStale(b)
                            \/ Copy!Erase(b) \/ Copy!Delete(b)
  BY DEF Copy!Next, Copy!vars, Copy!backups, Copy!HostMakes, Copy!HostDeletes,
     Copy!Request, Copy!Cancel, Copy!Claim, Copy!GrowLate, Copy!Sweep, Copy!Overrun,
     Copy!Export, Copy!Upload, Copy!CheckTime, Copy!Finish, Copy!Clean, Copy!Settle, Copy!Crash
<1> QED BY <1>1, <1>2, <1>4, <1>5, <1>6, <1>7

(* A backup is on the host from the answer on until a deletion.            *)
MadeIsThere ==
    /\ \A b \in Backup : maker[b] = "made" => b \in copies \/ early[b]
    /\ Copy!ReadyIsOnHost

LEMMA ThereStep ==
    ASSUME "crash" \notin BackupFaults, Copy!TypeOK, MadeIsCreating, MadeIsThere,
           [Copy!Next]_(Copy!vars)
    PROVE  MadeIsThere'
<1>1. ASSUME NEW b \in Backup, Copy!Reserve(b) PROVE MadeIsThere'
  BY <1>1 DEF Copy!Reserve, Copy!SetRow, Copy!MakerAt, Copy!TypeOK, MadeIsCreating, MadeIsThere,
     Copy!ReadyIsOnHost, Copy!backups, Copy!uploads, Copy!execution
<1>2. ASSUME NEW b \in Backup, Copy!HostMakes(b) PROVE MadeIsThere'
  BY <1>2 DEF Copy!HostMakes, Copy!MakerAt, Copy!TypeOK, MadeIsCreating, MadeIsThere,
     Copy!ReadyIsOnHost, Copy!backups, Copy!uploads, Copy!execution
<1>3. ASSUME NEW b \in Backup, Copy!Made(b) PROVE MadeIsThere'
  BY <1>3 DEF Copy!Made, Copy!SetRow, Copy!MakerAt, Copy!TypeOK, MadeIsCreating, MadeIsThere,
     Copy!ReadyIsOnHost, Copy!backups, Copy!uploads, Copy!execution
<1>4. ASSUME NEW b \in Backup, Copy!CleanStale(b) PROVE MadeIsThere'
  BY <1>4 DEF Copy!CleanStale, Copy!SetRow, Copy!TypeOK, MadeIsCreating, MadeIsThere,
     Copy!ReadyIsOnHost, Copy!backups, Copy!uploads, Copy!execution
<1>5. ASSUME NEW b \in Backup, Copy!Delete(b) PROVE MadeIsThere'
  BY <1>5 DEF Copy!Delete, Copy!RemoverAt, Copy!TypeOK, MadeIsCreating, MadeIsThere,
     Copy!ReadyIsOnHost, Copy!backups, Copy!uploads, Copy!execution
<1>6. ASSUME NEW b \in Backup, Copy!HostDeletes(b) PROVE MadeIsThere'
  BY <1>6 DEF Copy!HostDeletes, Copy!RemoverAt, Copy!TypeOK, MadeIsCreating, MadeIsThere,
     Copy!ReadyIsOnHost, Copy!backups, Copy!uploads, Copy!execution
<1>7. ASSUME NEW b \in Backup, Copy!Erase(b) PROVE MadeIsThere'
  BY <1>7 DEF Copy!Erase, Copy!SetRow, Copy!RemoverAt, Copy!TypeOK, MadeIsCreating, MadeIsThere,
     Copy!ReadyIsOnHost, Copy!backups, Copy!uploads, Copy!execution
<1>8. ASSUME NEW t \in Task, NEW b \in Backup, Copy!Request(t, b) PROVE MadeIsThere'
  BY <1>8 DEF Copy!Request, Copy!SetTask, Copy!TypeOK, MadeIsCreating, MadeIsThere,
     Copy!ReadyIsOnHost, Copy!backups, Copy!uploads, Copy!execution
<1>9. ASSUME NEW t \in Task, Copy!Cancel(t) PROVE MadeIsThere'
  BY <1>9 DEF Copy!Cancel, Copy!SetTask, Copy!TypeOK, MadeIsCreating, MadeIsThere,
     Copy!ReadyIsOnHost, Copy!backups, Copy!uploads, Copy!execution
<1>10. ASSUME NEW t \in Task, Copy!Claim(t) PROVE MadeIsThere'
  BY <1>10 DEF Copy!Claim, Copy!SetTask, Copy!Goto, Copy!TypeOK, MadeIsCreating, MadeIsThere,
     Copy!ReadyIsOnHost, Copy!backups, Copy!uploads, Copy!execution
<1>11. ASSUME NEW t \in Task, Copy!GrowLate(t) PROVE MadeIsThere'
  BY <1>11 DEF Copy!GrowLate, Copy!TypeOK, MadeIsCreating, MadeIsThere, Copy!ReadyIsOnHost,
     Copy!backups, Copy!uploads, Copy!execution
<1>12. ASSUME NEW t \in Task, Copy!Sweep(t) PROVE MadeIsThere'
  BY <1>12 DEF Copy!Sweep, Copy!SetTask, Copy!TypeOK, MadeIsCreating, MadeIsThere,
     Copy!ReadyIsOnHost, Copy!backups, Copy!uploads, Copy!execution
<1>13. ASSUME NEW t \in Task, Copy!Overrun(t) PROVE MadeIsThere'
  BY <1>13 DEF Copy!Overrun, Copy!TypeOK, MadeIsCreating, MadeIsThere, Copy!ReadyIsOnHost,
     Copy!backups, Copy!uploads, Copy!execution
<1>14. ASSUME NEW t \in Task, Copy!Export(t) PROVE MadeIsThere'
  BY <1>14 DEF Copy!Export, Copy!Goto, Copy!Catch, Copy!TypeOK, MadeIsCreating, MadeIsThere,
     Copy!ReadyIsOnHost, Copy!backups, Copy!uploads, Copy!execution
<1>15. ASSUME NEW t \in Task, Copy!Upload(t) PROVE MadeIsThere'
  BY <1>15 DEF Copy!Upload, Copy!Goto, Copy!Catch, Copy!TypeOK, MadeIsCreating, MadeIsThere,
     Copy!ReadyIsOnHost, Copy!backups, Copy!uploads, Copy!execution
<1>16. ASSUME NEW t \in Task, Copy!CheckTime(t) PROVE MadeIsThere'
  BY <1>16 DEF Copy!CheckTime, Copy!Goto, Copy!Catch, Copy!TypeOK, MadeIsCreating, MadeIsThere,
     Copy!ReadyIsOnHost, Copy!backups, Copy!uploads, Copy!execution
<1>17. ASSUME NEW t \in Task, Copy!Finish(t) PROVE MadeIsThere'
  BY <1>17 DEF Copy!Finish, Copy!SetTask, Copy!Goto, Copy!TypeOK, MadeIsCreating, MadeIsThere,
     Copy!ReadyIsOnHost, Copy!backups, Copy!uploads, Copy!execution
<1>18. ASSUME NEW t \in Task, Copy!Clean(t) PROVE MadeIsThere'
  BY <1>18 DEF Copy!Clean, Copy!Goto, Copy!TypeOK, MadeIsCreating, MadeIsThere,
     Copy!ReadyIsOnHost, Copy!backups, Copy!uploads, Copy!execution
<1>19. ASSUME NEW t \in Task, Copy!Settle(t) PROVE MadeIsThere'
  BY <1>19 DEF Copy!Settle, Copy!SetTask, Copy!Goto, Copy!TypeOK, MadeIsCreating, MadeIsThere,
     Copy!ReadyIsOnHost, Copy!backups, Copy!uploads, Copy!execution
<1>20. ASSUME Copy!Crash PROVE MadeIsThere'
  BY <1>20 DEF Copy!Crash, Copy!TypeOK, MadeIsCreating, MadeIsThere, Copy!ReadyIsOnHost,
     Copy!backups, Copy!uploads, Copy!execution
<1>21. CASE UNCHANGED Copy!vars
  BY <1>21 DEF Copy!vars, Copy!TypeOK, MadeIsCreating, MadeIsThere, Copy!ReadyIsOnHost
<1> QED
  BY <1>1, <1>2, <1>3, <1>4, <1>5, <1>6, <1>7, <1>8, <1>9, <1>10, <1>11, <1>12, <1>13, <1>14,
     <1>15, <1>16, <1>17, <1>18, <1>19, <1>20, <1>21 DEF Copy!Next

(* What an execution has stored is there, and only it may take it away.    *)
StoredIsThere ==
    /\ \A t \in Task : upload[t] \in {"none", "PENDING", "COMPLETED"} => uploadPc[t] = "idle"
    /\ \A t \in Task : uploadPc[t] \in {"check", "finish"} => <<t, retries[t]>> \in stored
    /\ Copy!CompletedIsStored

LEMMA StoredStep ==
    ASSUME Copy!TypeOK, StoredIsThere, [Copy!Next]_(Copy!vars) PROVE StoredIsThere'
<1>1. ASSUME NEW b \in Backup, Copy!Reserve(b) PROVE StoredIsThere'
  BY <1>1 DEF Copy!Reserve, Copy!SetRow, Copy!MakerAt, Copy!TypeOK, StoredIsThere,
     Copy!CompletedIsStored, Copy!backups, Copy!uploads, Copy!execution
<1>2. ASSUME NEW b \in Backup, Copy!HostMakes(b) PROVE StoredIsThere'
  BY <1>2 DEF Copy!HostMakes, Copy!MakerAt, Copy!TypeOK, StoredIsThere, Copy!CompletedIsStored,
     Copy!backups, Copy!uploads, Copy!execution
<1>3. ASSUME NEW b \in Backup, Copy!Made(b) PROVE StoredIsThere'
  BY <1>3 DEF Copy!Made, Copy!SetRow, Copy!MakerAt, Copy!TypeOK, StoredIsThere,
     Copy!CompletedIsStored, Copy!backups, Copy!uploads, Copy!execution
<1>4. ASSUME NEW b \in Backup, Copy!CleanStale(b) PROVE StoredIsThere'
  BY <1>4 DEF Copy!CleanStale, Copy!SetRow, Copy!TypeOK, StoredIsThere, Copy!CompletedIsStored,
     Copy!backups, Copy!uploads, Copy!execution
<1>5. ASSUME NEW b \in Backup, Copy!Delete(b) PROVE StoredIsThere'
  BY <1>5 DEF Copy!Delete, Copy!RemoverAt, Copy!TypeOK, StoredIsThere, Copy!CompletedIsStored,
     Copy!backups, Copy!uploads, Copy!execution
<1>6. ASSUME NEW b \in Backup, Copy!HostDeletes(b) PROVE StoredIsThere'
  BY <1>6 DEF Copy!HostDeletes, Copy!RemoverAt, Copy!TypeOK, StoredIsThere,
     Copy!CompletedIsStored, Copy!backups, Copy!uploads, Copy!execution
<1>7. ASSUME NEW b \in Backup, Copy!Erase(b) PROVE StoredIsThere'
  BY <1>7 DEF Copy!Erase, Copy!SetRow, Copy!RemoverAt, Copy!TypeOK, StoredIsThere,
     Copy!CompletedIsStored, Copy!backups, Copy!uploads, Copy!execution
<1>8. ASSUME NEW t \in Task, NEW b \in Backup, Copy!Request(t, b) PROVE StoredIsThere'
  BY <1>8 DEF Copy!Request, Copy!SetTask, Copy!TypeOK, StoredIsThere, Copy!CompletedIsStored,
     Copy!backups, Copy!uploads, Copy!execution
<1>9. ASSUME NEW t \in Task, Copy!Cancel(t) PROVE StoredIsThere'
  BY <1>9 DEF Copy!Cancel, Copy!SetTask, Copy!TypeOK, StoredIsThere, Copy!CompletedIsStored,
     Copy!backups, Copy!uploads, Copy!execution
<1>10. ASSUME NEW t \in Task, Copy!Claim(t) PROVE StoredIsThere'
  BY <1>10 DEF Copy!Claim, Copy!SetTask, Copy!Goto, Copy!TypeOK, StoredIsThere,
     Copy!CompletedIsStored, Copy!backups, Copy!uploads, Copy!execution
<1>11. ASSUME NEW t \in Task, Copy!GrowLate(t) PROVE StoredIsThere'
  BY <1>11 DEF Copy!GrowLate, Copy!TypeOK, StoredIsThere, Copy!CompletedIsStored, Copy!backups,
     Copy!uploads, Copy!execution
<1>12. ASSUME NEW t \in Task, Copy!Sweep(t) PROVE StoredIsThere'
  BY <1>12 DEF Copy!Sweep, Copy!SetTask, Copy!TypeOK, StoredIsThere, Copy!CompletedIsStored,
     Copy!backups, Copy!uploads, Copy!execution
<1>13. ASSUME NEW t \in Task, Copy!Overrun(t) PROVE StoredIsThere'
  BY <1>13 DEF Copy!Overrun, Copy!TypeOK, StoredIsThere, Copy!CompletedIsStored, Copy!backups,
     Copy!uploads, Copy!execution
<1>14. ASSUME NEW t \in Task, Copy!Export(t) PROVE StoredIsThere'
  BY <1>14 DEF Copy!Export, Copy!Goto, Copy!Catch, Copy!TypeOK, StoredIsThere,
     Copy!CompletedIsStored, Copy!backups, Copy!uploads, Copy!execution
<1>15. ASSUME NEW t \in Task, Copy!Upload(t) PROVE StoredIsThere'
  BY <1>15 DEF Copy!Upload, Copy!Goto, Copy!Catch, Copy!TypeOK, StoredIsThere,
     Copy!CompletedIsStored, Copy!backups, Copy!uploads, Copy!execution
<1>16. ASSUME NEW t \in Task, Copy!CheckTime(t) PROVE StoredIsThere'
  BY <1>16 DEF Copy!CheckTime, Copy!Goto, Copy!Catch, Copy!TypeOK, StoredIsThere,
     Copy!CompletedIsStored, Copy!backups, Copy!uploads, Copy!execution
<1>17. ASSUME NEW t \in Task, Copy!Finish(t) PROVE StoredIsThere'
  BY <1>17 DEF Copy!Finish, Copy!SetTask, Copy!Goto, Copy!TypeOK, StoredIsThere,
     Copy!CompletedIsStored, Copy!backups, Copy!uploads, Copy!execution
<1>18. ASSUME NEW t \in Task, Copy!Clean(t) PROVE StoredIsThere'
  BY <1>18 DEF Copy!Clean, Copy!Goto, Copy!TypeOK, StoredIsThere, Copy!CompletedIsStored,
     Copy!backups, Copy!uploads, Copy!execution
<1>19. ASSUME NEW t \in Task, Copy!Settle(t) PROVE StoredIsThere'
  BY <1>19 DEF Copy!Settle, Copy!SetTask, Copy!Goto, Copy!TypeOK, StoredIsThere,
     Copy!CompletedIsStored, Copy!backups, Copy!uploads, Copy!execution
<1>20. ASSUME Copy!Crash PROVE StoredIsThere'
  BY <1>20 DEF Copy!Crash, Copy!TypeOK, StoredIsThere, Copy!CompletedIsStored, Copy!backups,
     Copy!uploads, Copy!execution
<1>21. CASE UNCHANGED Copy!vars
  BY <1>21 DEF Copy!vars, Copy!TypeOK, StoredIsThere, Copy!CompletedIsStored
<1> QED
  BY <1>1, <1>2, <1>3, <1>4, <1>5, <1>6, <1>7, <1>8, <1>9, <1>10, <1>11, <1>12, <1>13, <1>14,
     <1>15, <1>16, <1>17, <1>18, <1>19, <1>20, <1>21 DEF Copy!Next

(* An execution goes on while its upload is processing.                    *)
ExecutesProcessing == \A t \in Task : uploadPc[t] # "idle" => upload[t] = "PROCESSING"

LEMMA StrayStep ==
    ASSUME {"crash", "litter", "nodes"} \cap BackupFaults = {},
           Copy!TypeOK, ExecutesProcessing, Copy!NothingStray, [Copy!Next]_(Copy!vars)
    PROVE  ExecutesProcessing' /\ Copy!NothingStray'
<1>1. ASSUME NEW b \in Backup, Copy!Reserve(b) PROVE ExecutesProcessing' /\ Copy!NothingStray'
  BY <1>1 DEF Copy!Reserve, Copy!SetRow, Copy!MakerAt, Copy!TypeOK, ExecutesProcessing,
     Copy!NothingStray, Copy!backups, Copy!uploads, Copy!execution
<1>2. ASSUME NEW b \in Backup, Copy!HostMakes(b) PROVE ExecutesProcessing' /\ Copy!NothingStray'
  BY <1>2 DEF Copy!HostMakes, Copy!MakerAt, Copy!TypeOK, ExecutesProcessing, Copy!NothingStray,
     Copy!backups, Copy!uploads, Copy!execution
<1>3. ASSUME NEW b \in Backup, Copy!Made(b) PROVE ExecutesProcessing' /\ Copy!NothingStray'
  BY <1>3 DEF Copy!Made, Copy!SetRow, Copy!MakerAt, Copy!TypeOK, ExecutesProcessing,
     Copy!NothingStray, Copy!backups, Copy!uploads, Copy!execution
<1>4. ASSUME NEW b \in Backup, Copy!CleanStale(b) PROVE ExecutesProcessing' /\ Copy!NothingStray'
  BY <1>4 DEF Copy!CleanStale, Copy!SetRow, Copy!TypeOK, ExecutesProcessing, Copy!NothingStray,
     Copy!backups, Copy!uploads, Copy!execution
<1>5. ASSUME NEW b \in Backup, Copy!Delete(b) PROVE ExecutesProcessing' /\ Copy!NothingStray'
  BY <1>5 DEF Copy!Delete, Copy!RemoverAt, Copy!TypeOK, ExecutesProcessing, Copy!NothingStray,
     Copy!backups, Copy!uploads, Copy!execution
<1>6. ASSUME NEW b \in Backup, Copy!HostDeletes(b) PROVE ExecutesProcessing' /\ Copy!NothingStray'
  BY <1>6 DEF Copy!HostDeletes, Copy!RemoverAt, Copy!TypeOK, ExecutesProcessing,
     Copy!NothingStray, Copy!backups, Copy!uploads, Copy!execution
<1>7. ASSUME NEW b \in Backup, Copy!Erase(b) PROVE ExecutesProcessing' /\ Copy!NothingStray'
  BY <1>7 DEF Copy!Erase, Copy!SetRow, Copy!RemoverAt, Copy!TypeOK, ExecutesProcessing,
     Copy!NothingStray, Copy!backups, Copy!uploads, Copy!execution
<1>8. ASSUME NEW t \in Task, NEW b \in Backup, Copy!Request(t, b)
      PROVE  ExecutesProcessing' /\ Copy!NothingStray'
  BY <1>8 DEF Copy!Request, Copy!SetTask, Copy!TypeOK, ExecutesProcessing, Copy!NothingStray,
     Copy!backups, Copy!uploads, Copy!execution
<1>9. ASSUME NEW t \in Task, Copy!Cancel(t) PROVE ExecutesProcessing' /\ Copy!NothingStray'
  BY <1>9 DEF Copy!Cancel, Copy!SetTask, Copy!TypeOK, ExecutesProcessing, Copy!NothingStray,
     Copy!backups, Copy!uploads, Copy!execution
<1>10. ASSUME NEW t \in Task, Copy!Claim(t) PROVE ExecutesProcessing' /\ Copy!NothingStray'
  BY <1>10 DEF Copy!Claim, Copy!SetTask, Copy!Goto, Copy!TypeOK, ExecutesProcessing,
     Copy!NothingStray, Copy!backups, Copy!uploads, Copy!execution
<1>11. ASSUME NEW t \in Task, Copy!GrowLate(t) PROVE ExecutesProcessing' /\ Copy!NothingStray'
  BY <1>11 DEF Copy!GrowLate, Copy!TypeOK, ExecutesProcessing, Copy!NothingStray, Copy!backups,
     Copy!uploads, Copy!execution
<1>12. ASSUME NEW t \in Task, Copy!Sweep(t) PROVE ExecutesProcessing' /\ Copy!NothingStray'
  BY <1>12 DEF Copy!Sweep, Copy!SetTask, Copy!TypeOK, ExecutesProcessing, Copy!NothingStray,
     Copy!backups, Copy!uploads, Copy!execution
<1>13. ASSUME NEW t \in Task, Copy!Overrun(t) PROVE ExecutesProcessing' /\ Copy!NothingStray'
  BY <1>13 DEF Copy!Overrun, Copy!TypeOK, ExecutesProcessing, Copy!NothingStray, Copy!backups,
     Copy!uploads, Copy!execution
<1>14. ASSUME NEW t \in Task, Copy!Export(t) PROVE ExecutesProcessing' /\ Copy!NothingStray'
  BY <1>14 DEF Copy!Export, Copy!Goto, Copy!Catch, Copy!TypeOK, ExecutesProcessing,
     Copy!NothingStray, Copy!backups, Copy!uploads, Copy!execution
<1>15. ASSUME NEW t \in Task, Copy!Upload(t) PROVE ExecutesProcessing' /\ Copy!NothingStray'
  BY <1>15 DEF Copy!Upload, Copy!Goto, Copy!Catch, Copy!TypeOK, ExecutesProcessing,
     Copy!NothingStray, Copy!backups, Copy!uploads, Copy!execution
<1>16. ASSUME NEW t \in Task, Copy!CheckTime(t) PROVE ExecutesProcessing' /\ Copy!NothingStray'
  BY <1>16 DEF Copy!CheckTime, Copy!Goto, Copy!Catch, Copy!TypeOK, ExecutesProcessing,
     Copy!NothingStray, Copy!backups, Copy!uploads, Copy!execution
<1>17. ASSUME NEW t \in Task, Copy!Finish(t) PROVE ExecutesProcessing' /\ Copy!NothingStray'
  BY <1>17 DEF Copy!Finish, Copy!SetTask, Copy!Goto, Copy!TypeOK, ExecutesProcessing,
     Copy!NothingStray, Copy!backups, Copy!uploads, Copy!execution
<1>18. ASSUME NEW t \in Task, Copy!Clean(t) PROVE ExecutesProcessing' /\ Copy!NothingStray'
  BY <1>18 DEF Copy!Clean, Copy!Goto, Copy!TypeOK, ExecutesProcessing, Copy!NothingStray,
     Copy!backups, Copy!uploads, Copy!execution
<1>19. ASSUME NEW t \in Task, Copy!Settle(t) PROVE ExecutesProcessing' /\ Copy!NothingStray'
  BY <1>19 DEF Copy!Settle, Copy!SetTask, Copy!Goto, Copy!TypeOK, ExecutesProcessing,
     Copy!NothingStray, Copy!backups, Copy!uploads, Copy!execution
<1>20. ASSUME Copy!Crash PROVE ExecutesProcessing' /\ Copy!NothingStray'
  BY <1>20 DEF Copy!Crash, Copy!TypeOK, ExecutesProcessing, Copy!NothingStray, Copy!backups,
     Copy!uploads, Copy!execution
<1>21. CASE UNCHANGED Copy!vars
  BY <1>21 DEF Copy!vars, Copy!TypeOK, ExecutesProcessing, Copy!NothingStray
<1> QED
  BY <1>1, <1>2, <1>3, <1>4, <1>5, <1>6, <1>7, <1>8, <1>9, <1>10, <1>11, <1>12, <1>13, <1>14,
     <1>15, <1>16, <1>17, <1>18, <1>19, <1>20, <1>21 DEF Copy!Next


(* What creating and ready backups count is within the quota, whatever     *)
(* fails, but for backups that were deleted while they were created: the   *)
(* answer of the host brings their rows back (backupInstance,              *)
(* updateBackupStatus).                                                    *)
THEOREM BackupQuotaKept ==
    ASSUME Copy!BackupsConstants PROVE Copy!Spec => []Copy!QuotaKept
<1> SUFFICES ASSUME Copy!BackupsConstants PROVE Copy!Spec => []Copy!QuotaKept
  OBVIOUS
<1>1. Copy!Init => Copy!TypeOK /\ MadeIsCreating /\ WithinQuota
  <2> SUFFICES ASSUME Copy!Init PROVE Copy!TypeOK /\ MadeIsCreating /\ WithinQuota
    OBVIOUS
  <2>1. Copy!TypeOK /\ MadeIsCreating
    BY DEF Copy!Init, Copy!TypeOK, MadeIsCreating, Copy!BackupsConstants, Copy!Active
  <2>2. Copy!Counted = {}
    BY DEF Copy!Init, Copy!Counted
  <2>3. Sound = {}
    BY <2>2 DEF Sound
  <2> QED BY <2>1, <2>2, <2>3, FS_EmptySet DEF WithinQuota, Copy!BackupsConstants
<1>2. Copy!TypeOK /\ MadeIsCreating /\ WithinQuota /\ [Copy!Next]_(Copy!vars)
        => (Copy!TypeOK /\ MadeIsCreating /\ WithinQuota)'
  BY BackupTypeStep, MadeStep, QuotaStep
<1>3. WithinQuota => Copy!QuotaKept
  BY DEF WithinQuota, Sound, Copy!QuotaKept, Copy!Cardinality, Cardinality
<1> QED BY <1>1, <1>2, <1>3, PTL DEF Copy!Spec

(* A backup that is ready is on the host, unless it is deleted meanwhile or*)
(* was before its creation was answered, although the deletion trusts that *)
(* what the host refuses is not there, while no process dies.              *)
THEOREM ReadyIsOnHostAlways ==
    ASSUME Copy!BackupsConstants, "crash" \notin BackupFaults
    PROVE  Copy!Spec => []Copy!ReadyIsOnHost
<1> SUFFICES ASSUME Copy!BackupsConstants, "crash" \notin BackupFaults
             PROVE  Copy!Spec => []Copy!ReadyIsOnHost
  OBVIOUS
<1>1. Copy!Init => Copy!TypeOK /\ MadeIsCreating /\ MadeIsThere
  BY DEF Copy!Init, Copy!TypeOK, MadeIsCreating, MadeIsThere, Copy!ReadyIsOnHost,
     Copy!BackupsConstants, Copy!Active
<1>2. Copy!TypeOK /\ MadeIsCreating /\ MadeIsThere /\ [Copy!Next]_(Copy!vars)
        => (Copy!TypeOK /\ MadeIsCreating /\ MadeIsThere)'
  BY BackupTypeStep, MadeStep, ThereStep
<1>3. MadeIsThere => Copy!ReadyIsOnHost
  BY DEF MadeIsThere
<1> QED BY <1>1, <1>2, <1>3, PTL DEF Copy!Spec

(* The file of a completed upload stays at the storage, whatever fails: a  *)
(* sweep, a late end of the upload, a crash, another process.              *)
THEOREM CompletedIsStoredAlways ==
    ASSUME Copy!BackupsConstants PROVE Copy!Spec => []Copy!CompletedIsStored
<1> SUFFICES ASSUME Copy!BackupsConstants PROVE Copy!Spec => []Copy!CompletedIsStored
  OBVIOUS
<1>1. Copy!Init => Copy!TypeOK /\ StoredIsThere
  BY DEF Copy!Init, Copy!TypeOK, StoredIsThere, Copy!CompletedIsStored, Copy!BackupsConstants,
     Copy!Active
<1>2. Copy!TypeOK /\ StoredIsThere /\ [Copy!Next]_(Copy!vars) => (Copy!TypeOK /\ StoredIsThere)'
  BY BackupTypeStep, StoredStep
<1>3. StoredIsThere => Copy!CompletedIsStored
  BY DEF StoredIsThere
<1> QED BY <1>1, <1>2, <1>3, PTL DEF Copy!Spec

(* Nothing else is at the storage but what an execution has just put there,*)
(* with one process that does not die and can remove what it has left.     *)
THEOREM NothingStrayAlways ==
    ASSUME Copy!BackupsConstants, {"crash", "litter", "nodes"} \cap BackupFaults = {}
    PROVE  Copy!Spec => []Copy!NothingStray
<1> SUFFICES ASSUME Copy!BackupsConstants, {"crash", "litter", "nodes"} \cap BackupFaults = {}
             PROVE  Copy!Spec => []Copy!NothingStray
  OBVIOUS
<1>1. Copy!Init => Copy!TypeOK /\ ExecutesProcessing /\ Copy!NothingStray
  BY DEF Copy!Init, Copy!TypeOK, ExecutesProcessing, Copy!NothingStray, Copy!BackupsConstants,
     Copy!Active
<1>2. Copy!TypeOK /\ ExecutesProcessing /\ Copy!NothingStray /\ [Copy!Next]_(Copy!vars)
        => (Copy!TypeOK /\ ExecutesProcessing /\ Copy!NothingStray)'
  BY BackupTypeStep, StrayStep
<1> QED BY <1>1, <1>2, PTL DEF Copy!Spec

----------------------------------------------------------------------------
(* Bandwidth                                                               *)

(* A step of one handler, by kind.                                         *)
Reconciles(h) ==
    \/ Band!Read(h) \/ Band!Throttle(h) \/ Band!Warn(h) \/ Band!Deliver(h) \/ Band!Restore(h)
    \/ Band!Lock(h) \/ Band!ReadRow(h) \/ Band!Patch(h) \/ Band!Write(h)
(* A step of a request of a user or an administrator.                      *)
Requests(h) ==
    \/ Band!Reset(h) \/ Band!SetLimit(h) \/ Band!SetStatus(h)
    \/ Band!ChangePlan(h) \/ Band!SetPlan(h) \/ Band!SetDirectly(h)
(* A step by which something fails.                                        *)
Breaks(h) == Band!ArbitrationFails(h) \/ Band!LockExpires(h) \/ Band!Crash(h)

LEMMA HandlerSteps ==
    ASSUME NEW h \in Handler, Band!HandlerStep(h)
    PROVE  Reconciles(h) \/ Requests(h) \/ Breaks(h)
  BY DEF Band!HandlerStep, Reconciles, Requests, Breaks

LEMMA ThrottleTyped == Band!TypeOK /\ [Band!Next]_(Band!vars) => Band!TypeOK'
<1> SUFFICES ASSUME Band!TypeOK, [Band!Next]_(Band!vars) PROVE Band!TypeOK'
    OBVIOUS
<1> USE DEF Band!TypeOK, Band!Level, Band!Status, Band!Line, Band!Speed, Band!row, Band!local,
   Band!Goto, Band!Act, Band!Disturb, Band!Unlock, Band!Forget, Band!Effective, Band!Calculated
<1>1. CASE Band!Grow
  BY <1>1 DEF Band!Grow
<1>2. CASE UNCHANGED Band!vars
  BY <1>2 DEF Band!vars
<1>3. ASSUME NEW h \in Handler, Reconciles(h) PROVE Band!TypeOK'
  <2>1. CASE Band!Read(h)
    BY <2>1 DEF Band!Read
  <2>2. CASE Band!Throttle(h) \/ Band!Deliver(h) \/ Band!Restore(h)
    BY <2>2 DEF Band!Throttle, Band!Deliver, Band!Restore
  <2>3. CASE Band!Warn(h)
    BY <2>3 DEF Band!Warn
  <2>4. CASE Band!Lock(h) \/ Band!ReadRow(h) \/ Band!Patch(h)
    <3>1. CASE Band!Lock(h)
      BY <3>1 DEF Band!Lock
    <3>2. CASE Band!ReadRow(h)
      BY <3>2 DEF Band!ReadRow
    <3>3. CASE Band!Patch(h)
      BY <3>3 DEF Band!Patch
    <3> QED BY <2>4, <3>1, <3>2, <3>3
  <2>5. CASE Band!Write(h)
    BY <2>5 DEF Band!Write
  <2> QED BY <1>3, <2>1, <2>2, <2>3, <2>4, <2>5 DEF Reconciles
<1>4. ASSUME NEW h \in Handler, Requests(h) PROVE Band!TypeOK'
  <2>1. CASE Band!Reset(h)
    BY <2>1 DEF Band!Reset
  <2>2. CASE Band!SetLimit(h)
    BY <2>2 DEF Band!SetLimit
  <2>3. CASE Band!SetStatus(h)
    BY <2>3 DEF Band!SetStatus
  <2>4. CASE Band!ChangePlan(h)
    BY <2>4 DEF Band!ChangePlan
  <2>5. CASE Band!SetPlan(h)
    BY <2>5 DEF Band!SetPlan
  <2>6. CASE Band!SetDirectly(h)
    BY <2>6 DEF Band!SetDirectly
  <2> QED BY <1>4, <2>1, <2>2, <2>3, <2>4, <2>5, <2>6 DEF Requests
<1>5. ASSUME NEW h \in Handler, Breaks(h) PROVE Band!TypeOK'
  <2>1. CASE Band!ArbitrationFails(h)
    BY <2>1 DEF Band!ArbitrationFails
  <2>2. CASE Band!LockExpires(h)
    BY <2>2 DEF Band!LockExpires
  <2>3. CASE Band!Crash(h)
    BY <2>3 DEF Band!Crash
  <2> QED BY <1>5, <2>1, <2>2, <2>3 DEF Breaks
<1> QED BY <1>1, <1>2, <1>3, <1>4, <1>5, HandlerSteps DEF Band!Next

LEMMA ThrottleTypedFirst == Band!Init => Band!TypeOK
<1> SUFFICES ASSUME Band!Init PROVE Band!TypeOK
    OBVIOUS
<1> QED BY DEF Band!Init, Band!TypeOK, Band!Level, Band!Status, Band!Line, Band!Speed

(* Types are right, whatever fails.                                        *)
THEOREM ThrottleTypeCorrect == ASSUME Band!TrafficThrottleConstants
                               PROVE  Band!Spec => []Band!TypeOK
<1> QED BY ThrottleTypedFirst, ThrottleTyped, PTL DEF Band!Spec

----------------------------------------------------------------------------
(* If nothing goes wrong, one handler at a time arbitrates, and whoever    *)
(* changes the status will.                                                *)
Arbitrating == {"read", "patch", "write"}
(* Where a handler is before it has read the row to arbitrate it.          *)
Pending == {"reconcile", "throttle", "warn", "deliver", "restore", "lock", "read"}

(* One handler arbitrates at a time, as it holds the lock.                 *)
OneArbitrates ==
    \A h \in Handler :
        /\ bandwidthLock = h <=> throttlePc[h] \in Arbitrating
        /\ throttlePc[h] = "write" /\ direct = FALSE => bandwidth = speed[h]
        /\ throttlePc[h] = "direct" => line = "fast"
        /\ next[h] = "direct" /\ throttlePc[h] # "plan" => line = "fast"

(* What a change of the plan set is the speed of the new plan.             *)
DirectIsLine == direct = TRUE => line = "fast" /\ bandwidth = "fast"

(* Row and host have the speed the status calls for - or the host that of  *)
(* the new plan - or somebody will set it.                                 *)
SpeedFollows ==
    \/ \E h \in Handler : throttlePc[h] \in Pending
    \/ \E h \in Handler : throttlePc[h] \in {"patch", "write"} /\ speed[h] = Band!Effective
    \/ /\ bandwidth = Band!Effective \/ (direct = TRUE /\ bandwidth = line)
       /\ limits = Band!Effective
       /\ \A h \in Handler : throttlePc[h] \notin {"patch", "write"}

LEMMA OneArbitratesStep ==
    ASSUME Band!TrafficThrottleConstants, BandwidthFaults = {}, Band!TypeOK, OneArbitrates,
           [Band!Next]_(Band!vars)
    PROVE  OneArbitrates'
<1> DEFINE One(k) == /\ bandwidthLock = k <=> throttlePc[k] \in Arbitrating
                     /\ throttlePc[k] = "write" /\ direct = FALSE => bandwidth = speed[k]
                     /\ throttlePc[k] = "direct" => line = "fast"
                     /\ next[k] = "direct" /\ throttlePc[k] # "plan" => line = "fast"
<1> SUFFICES ASSUME NEW k \in Handler PROVE One(k)'
    BY DEF OneArbitrates
<1> USE DEF Band!TypeOK, OneArbitrates, Arbitrating, Band!TrafficThrottleConstants, Band!row,
   Band!local, Band!Goto, Band!Act, Band!Disturb, Band!Unlock, Band!Forget
<1>1. CASE Band!Grow \/ UNCHANGED Band!vars
  BY <1>1 DEF Band!Grow, Band!vars
<1>2. ASSUME NEW h \in Handler, Reconciles(h) PROVE One(k)'
  <2>1. CASE Band!Read(h) \/ Band!Throttle(h) \/ Band!Warn(h) \/ Band!Deliver(h)
       \/ Band!Restore(h)
    BY <2>1 DEF Band!Read, Band!Throttle, Band!Warn, Band!Deliver, Band!Restore
  <2>2. CASE Band!Lock(h) \/ Band!ReadRow(h)
    BY <2>2 DEF Band!Lock, Band!ReadRow
  <2>3. CASE Band!Patch(h)
    BY <2>3 DEF Band!Patch
  <2>4. CASE Band!Write(h)
    BY <2>4 DEF Band!Write
  <2> QED BY <1>2, <2>1, <2>2, <2>3, <2>4 DEF Reconciles
<1>3. ASSUME NEW h \in Handler, Requests(h) PROVE One(k)'
  <2>1. CASE Band!Reset(h) \/ Band!SetLimit(h) \/ Band!SetStatus(h) \/ Band!ChangePlan(h)
    BY <2>1 DEF Band!Reset, Band!SetLimit, Band!SetStatus, Band!ChangePlan
  <2>2. CASE Band!SetPlan(h)
    <3>1. /\ bandwidthLock' = bandwidthLock /\ bandwidth' = bandwidth /\ direct' = direct
          /\ line = "basic" => line' = "fast" /\ speed' = speed /\ next' = next
          /\ throttlePc[h] = "plan"
          /\ line = "fast" => /\ line' = line /\ throttlePc' = [throttlePc EXCEPT ![h] = "idle"]
                              /\ speed' = [speed EXCEPT ![h] = "basic"]
                              /\ next' = [next EXCEPT ![h] = "idle"]
      BY <2>2 DEF Band!SetPlan, Band!Line
    <3>2. \/ throttlePc' = [throttlePc EXCEPT ![h] = "reconcile"]
          \/ throttlePc' = [throttlePc EXCEPT ![h] = "idle"]
      BY <2>2 DEF Band!SetPlan
    <3> QED BY <3>1, <3>2 DEF Band!Line
  <2>3. CASE Band!SetDirectly(h)
    BY <2>3 DEF Band!SetDirectly
  <2> QED BY <1>3, <2>1, <2>2, <2>3 DEF Requests
<1>4. ASSUME NEW h \in Handler, Breaks(h) PROVE FALSE
  BY <1>4 DEF Breaks, Band!ArbitrationFails, Band!LockExpires, Band!Crash
<1> QED BY <1>1, <1>2, <1>3, <1>4, HandlerSteps DEF Band!Next

LEMMA DirectIsLineStep ==
    ASSUME BandwidthFaults = {}, Band!TypeOK, OneArbitrates, DirectIsLine,
           [Band!Next]_(Band!vars)
    PROVE  DirectIsLine'
<1> USE DEF Band!TypeOK, DirectIsLine, Band!row, Band!local
<1>1. CASE Band!Grow \/ UNCHANGED Band!vars
  BY <1>1 DEF Band!Grow, Band!vars
<1>2. ASSUME NEW h \in Handler, Reconciles(h) PROVE DirectIsLine'
  BY <1>2 DEF Reconciles, Band!Read, Band!Throttle, Band!Warn, Band!Deliver, Band!Restore,
     Band!Lock, Band!ReadRow, Band!Patch, Band!Write
<1>3. ASSUME NEW h \in Handler, Requests(h) PROVE DirectIsLine'
  <2>1. CASE Band!SetDirectly(h)
    BY <2>1 DEF Band!SetDirectly, OneArbitrates
  <2>2. CASE Band!SetPlan(h)
    BY <2>2 DEF Band!SetPlan
  <2>3. CASE Band!Reset(h) \/ Band!SetLimit(h) \/ Band!SetStatus(h) \/ Band!ChangePlan(h)
    BY <2>3 DEF Band!Reset, Band!SetLimit, Band!SetStatus, Band!ChangePlan
  <2> QED BY <1>3, <2>1, <2>2, <2>3 DEF Requests
<1>4. ASSUME NEW h \in Handler, Breaks(h) PROVE DirectIsLine'
  BY <1>4 DEF Breaks, Band!ArbitrationFails, Band!LockExpires, Band!Crash
<1> QED BY <1>1, <1>2, <1>3, <1>4, HandlerSteps DEF Band!Next

LEMMA SpeedFollowsStep ==
    ASSUME Band!TrafficThrottleConstants, BandwidthFaults = {}, Band!TypeOK, OneArbitrates,
           DirectIsLine, SpeedFollows, [Band!Next]_(Band!vars)
    PROVE  SpeedFollows'
<1> USE DEF Band!TypeOK, Band!TrafficThrottleConstants, Band!row, Band!local, Band!Goto, Pending
<1>1. CASE Band!Grow \/ UNCHANGED Band!vars
  BY <1>1 DEF Band!Grow, Band!vars, SpeedFollows, Band!Effective
<1>2. ASSUME NEW h \in Handler, Reconciles(h) PROVE SpeedFollows'
  <2>1. CASE Band!Read(h)
    <3> throttlePc'[h] \in Pending
      BY <2>1 DEF Band!Read
    <3> QED BY DEF SpeedFollows
  <2>2. CASE Band!Throttle(h) \/ Band!Warn(h) \/ Band!Deliver(h) \/ Band!Restore(h)
       \/ Band!Lock(h)
    <3> throttlePc'[h] \in Pending
      BY <2>2 DEF Band!Throttle, Band!Warn, Band!Deliver, Band!Restore, Band!Lock
    <3> QED BY DEF SpeedFollows
  <2>3. CASE Band!ReadRow(h)
    <3> throttlePc'[h] \in {"patch", "write"} /\ speed'[h] = Band!Effective'
      BY <2>3 DEF Band!ReadRow, Band!Effective
    <3> QED BY DEF SpeedFollows
  <2>4. CASE Band!Patch(h)
    <3>1. throttlePc' = [throttlePc EXCEPT ![h] = "write"] /\ speed' = speed
         /\ Band!Effective' = Band!Effective
          /\ bandwidth' = speed[h] /\ limits' = limits /\ throttlePc[h] = "patch"
      BY <2>4 DEF Band!Patch, Band!Effective
    <3>2. CASE \E g \in Handler : throttlePc[g] \in Pending
      BY <3>1, <3>2 DEF SpeedFollows
    <3>3. CASE \E g \in Handler : throttlePc[g] \in {"patch", "write"}
         /\ speed[g] = Band!Effective
      BY <3>1, <3>3 DEF SpeedFollows
    <3> QED BY <3>1, <3>2, <3>3 DEF SpeedFollows
  <2>5. CASE Band!Write(h)
    <3>1. /\ throttlePc' = [throttlePc EXCEPT ![h] = next[h]] /\ next[h] \in {"idle", "direct"}
          /\ speed' = [speed EXCEPT ![h] = "basic"]
          /\ Band!Effective' = Band!Effective /\ line' = line /\ direct' = direct
          /\ bandwidth' = bandwidth /\ limits' = speed[h] /\ throttlePc[h] = "write"
      BY <2>5 DEF Band!Write, Band!Effective, Band!Forget
    <3>2. \A g \in Handler : throttlePc[g] \in {"patch", "write"} => g = h
      BY <3>1 DEF OneArbitrates, Arbitrating
    <3>3. CASE \E g \in Handler : throttlePc[g] \in Pending
      BY <3>1, <3>3 DEF SpeedFollows
    <3>4. CASE \E g \in Handler : throttlePc[g] \in {"patch", "write"}
         /\ speed[g] = Band!Effective
      <4>1. speed[h] = Band!Effective
        BY <3>2, <3>4
      <4>2. bandwidth = speed[h] \/ (direct = TRUE /\ bandwidth = line)
        BY <3>1 DEF OneArbitrates, DirectIsLine
      <4>3. \A g \in Handler : throttlePc'[g] \notin {"patch", "write"}
        BY <3>1, <3>2
      <4>4. bandwidth' = Band!Effective' \/ (direct' = TRUE /\ bandwidth' = line')
        BY <3>1, <4>1, <4>2, Zenon
      <4>5. limits' = Band!Effective'
        BY <3>1, <4>1, Zenon
      <4> QED BY <4>3, <4>4, <4>5, Zenon DEF SpeedFollows
    <3> QED BY <3>1, <3>3, <3>4 DEF SpeedFollows
  <2> QED BY <1>2, <2>1, <2>2, <2>3, <2>4, <2>5 DEF Reconciles
<1>3. ASSUME NEW h \in Handler, Requests(h) PROVE SpeedFollows'
  <2>1. CASE Band!Reset(h) \/ Band!SetStatus(h)
    <3> throttlePc'[h] \in Pending
      BY <2>1 DEF Band!Reset, Band!SetStatus
    <3> QED BY DEF SpeedFollows
  <2>2. CASE Band!SetLimit(h) \/ Band!ChangePlan(h)
    <3> /\ throttlePc[h] = "idle" /\ \A g \in Handler \ {h} : throttlePc'[g] = throttlePc[g]
        /\ throttlePc'[h] \in {"limit", "plan"} /\ speed' = speed /\ line' = line
        /\ Band!Effective' = Band!Effective /\ bandwidth' = bandwidth /\ limits' = limits
        /\ direct' = direct
      BY <2>2 DEF Band!SetLimit, Band!ChangePlan, Band!Effective
    <3> QED BY DEF SpeedFollows
  <2>3. CASE Band!SetPlan(h)
    <3>1. CASE line = "basic"
      <4> throttlePc'[h] \in Pending
        BY <2>3, <3>1 DEF Band!SetPlan
      <4> QED BY DEF SpeedFollows
    <3>2. CASE line # "basic"
      <4> /\ throttlePc[h] = "plan" /\ throttlePc' = [throttlePc EXCEPT ![h] = "idle"]
          /\ \A g \in Handler \ {h} : speed'[g] = speed[g]
          /\ line' = line /\ direct' = direct
          /\ Band!Effective' = Band!Effective /\ bandwidth' = bandwidth /\ limits' = limits
        BY <2>3, <3>2 DEF Band!SetPlan, Band!Effective, Band!Forget
      <4> QED BY DEF SpeedFollows
    <3> QED BY <3>1, <3>2
  <2>4. CASE Band!SetDirectly(h)
    <3>1. /\ throttlePc[h] = "direct" /\ throttlePc' = [throttlePc EXCEPT ![h] = "idle"]
          /\ speed' = speed /\ line' = line /\ direct' = TRUE
          /\ Band!Effective' = Band!Effective /\ bandwidth' = line /\ limits' = limits
      BY <2>4 DEF Band!SetDirectly, Band!Effective
    <3> QED BY <3>1 DEF SpeedFollows
  <2> QED BY <1>3, <2>1, <2>2, <2>3, <2>4 DEF Requests
<1>4. ASSUME NEW h \in Handler, Breaks(h) PROVE FALSE
  BY <1>4 DEF Breaks, Band!ArbitrationFails, Band!LockExpires, Band!Crash, OneArbitrates,
     Arbitrating
<1> QED BY <1>1, <1>2, <1>3, <1>4, HandlerSteps DEF Band!Next

(* If locks are had in time and outlast a call, hosts obey and nobody      *)
(* dies, the host and the row have the speed the status calls for whenever *)
(* nobody is about to arbitrate - but that the host may have the speed of  *)
(* a new plan, which its change sets beside the lock.                      *)
THEOREM BandwidthFollowsAlways ==
    ASSUME Band!TrafficThrottleConstants, BandwidthFaults = {}
    PROVE  Band!Spec => []Band!BandwidthFollows
<1> DEFINE Inv == Band!TypeOK /\ OneArbitrates /\ DirectIsLine /\ SpeedFollows
<1>1. Band!Init => Inv
  <2> SUFFICES ASSUME Band!Init PROVE Inv
      OBVIOUS
  <2>1. Band!TypeOK
    BY ThrottleTypedFirst
  <2>2. OneArbitrates
    BY DEF Band!Init, OneArbitrates, Arbitrating, Band!TrafficThrottleConstants
  <2>3. SpeedFollows
    BY DEF Band!Init, SpeedFollows, Band!Effective
  <2>4. DirectIsLine
    BY DEF Band!Init, DirectIsLine
  <2> QED BY <2>1, <2>2, <2>3, <2>4
<1>2. Inv /\ [Band!Next]_(Band!vars) => Inv'
  BY ThrottleTyped, OneArbitratesStep, DirectIsLineStep, SpeedFollowsStep
<1>3. Inv => Band!BandwidthFollows
  <2> SUFFICES ASSUME SpeedFollows, \A h \in Handler : throttlePc[h] \in {"idle", "limit", "plan"}
               PROVE  /\ bandwidth = Band!Effective \/ (direct /\ bandwidth = line)
                      /\ limits = Band!Effective
    BY Zenon DEF Band!BandwidthFollows
  <2>1. (direct = TRUE) => direct
    BY Zenon
  <2>2. /\ bandwidth = Band!Effective \/ (direct = TRUE /\ bandwidth = line)
        /\ limits = Band!Effective
    BY DEF SpeedFollows, Pending
  <2> QED BY <2>1, <2>2, Zenon
<1> HIDE DEF Inv
<1> QED BY <1>1, <1>2, <1>3, PTL DEF Band!Spec

----------------------------------------------------------------------------
(* Whatever goes wrong elsewhere: what a handler that is alone has read is *)
(* still so, and each step of its pass brings the row closer to it.        *)
AloneIsExact ==
    \A h \in Handler : alone[h] =>
        /\ \A g \in Handler \ {h} : throttlePc[g] = "idle"
        /\ throttlePc[h] = "throttle" => level = "over"
        /\ throttlePc[h] \in {"warn", "deliver", "restore"} =>
              level # "over" /\ (overrun = "LIMITED" => seenOverrun[h] = "LIMITED")
        /\ throttlePc[h] \in {"lock", "read", "patch", "write"} =>
              (overrun = "LIMITED" <=> level = "over")
        /\ throttlePc[h] \in {"read", "patch", "write"} => bandwidthLock = h
        /\ throttlePc[h] = "patch" => speed[h] = Band!Effective
        /\ throttlePc[h] = "write" => speed[h] = Band!Effective /\ bandwidth = Band!Effective

LEMMA AloneStep == ASSUME Band!TypeOK, AloneIsExact, [Band!Next]_(Band!vars) PROVE AloneIsExact'
<1> DEFINE Exact(h) ==
        /\ \A g \in Handler \ {h} : throttlePc[g] = "idle"
        /\ throttlePc[h] = "throttle" => level = "over"
        /\ throttlePc[h] \in {"warn", "deliver", "restore"} =>
              level # "over" /\ (overrun = "LIMITED" => seenOverrun[h] = "LIMITED")
        /\ throttlePc[h] \in {"lock", "read", "patch", "write"} =>
              (overrun = "LIMITED" <=> level = "over")
        /\ throttlePc[h] \in {"read", "patch", "write"} => bandwidthLock = h
        /\ throttlePc[h] = "patch" => speed[h] = Band!Effective
        /\ throttlePc[h] = "write" => speed[h] = Band!Effective /\ bandwidth = Band!Effective
<1> SUFFICES ASSUME NEW k \in Handler, alone'[k] PROVE Exact(k)'
    BY DEF AloneIsExact
<1>1. alone[k] => Exact(k)
    BY DEF AloneIsExact
<1> USE DEF Band!TypeOK, Band!Level, Band!Status, Band!row, Band!local, Band!Goto, Band!Act,
   Band!Disturb, Band!Effective
<1>2. ASSUME Band!Disturb PROVE FALSE
  BY <1>2
<1>3. ASSUME NEW h \in Handler, Band!Act(h) PROVE h = k /\ alone[k]
  BY <1>3
<1>4. CASE UNCHANGED Band!vars
  BY <1>1, <1>4 DEF Band!vars
<1>5. ASSUME NEW h \in Handler, Reconciles(h) PROVE Exact(k)'
  <2>1. CASE Band!Read(h)
    <3>1. h = k /\ \A f \in Handler \ {h} : throttlePc[f] = "idle"
      BY <2>1 DEF Band!Read
    <3> QED BY <2>1, <3>1 DEF Band!Read
  <2>2. CASE Band!Throttle(h)
    BY <1>1, <1>3, <2>2 DEF Band!Throttle
  <2>3. CASE Band!Warn(h)
    BY <1>1, <1>3, <2>3 DEF Band!Warn
  <2>4. CASE Band!Deliver(h)
    BY <1>1, <1>3, <2>4 DEF Band!Deliver
  <2>5. CASE Band!Restore(h)
    BY <1>1, <1>3, <2>5 DEF Band!Restore
  <2>6. CASE Band!Lock(h) \/ Band!ReadRow(h) \/ Band!Patch(h)
    BY <1>1, <1>3, <2>6 DEF Band!Lock, Band!ReadRow, Band!Patch
  <2>7. CASE Band!Write(h)
    BY <1>1, <1>3, <2>7 DEF Band!Write
  <2> QED BY <1>5, <2>1, <2>2, <2>3, <2>4, <2>5, <2>6, <2>7 DEF Reconciles
<1>6. ASSUME NEW h \in Handler, Requests(h) PROVE Exact(k)'
  BY <1>1, <1>2, <1>3, <1>6 DEF Requests, Band!Reset, Band!SetLimit, Band!SetStatus,
     Band!ChangePlan, Band!SetPlan, Band!SetDirectly
<1>7. ASSUME NEW h \in Handler, Breaks(h) PROVE FALSE
  BY <1>2, <1>7 DEF Breaks, Band!ArbitrationFails, Band!LockExpires, Band!Crash
<1>8. ~Band!Grow
  BY <1>2 DEF Band!Grow
<1> QED BY <1>4, <1>5, <1>6, <1>7, <1>8, HandlerSteps DEF Band!Next

(* A pass that is alone and does not fail leaves status, row and host as   *)
(* the usage calls for, whatever failed, expired or died before.           *)
THEOREM NextPassHealsAlways ==
    ASSUME Band!TrafficThrottleConstants
    PROVE  Band!Spec => Band!NextPassHeals
<1> DEFINE Heals ==
        \A h \in Handler :
          throttlePc[h] = "write" /\ throttlePc'[h] = "idle" /\ alone[h]
              => /\ overrun' = "LIMITED" <=> level' = "over"
                 /\ bandwidth' = Band!Effective' /\ limits' = Band!Effective'
<1>1. Band!Init => Band!TypeOK /\ AloneIsExact
  <2> SUFFICES ASSUME Band!Init PROVE AloneIsExact
    BY ThrottleTypedFirst
  <2> QED BY DEF Band!Init, AloneIsExact
<1>2. Band!TypeOK /\ AloneIsExact /\ [Band!Next]_(Band!vars) => (Band!TypeOK /\ AloneIsExact)'
  BY ThrottleTyped, AloneStep
<1>3. Band!TypeOK /\ AloneIsExact /\ [Band!Next]_(Band!vars) => [Heals]_(Band!vars)
  <2> SUFFICES ASSUME Band!TypeOK, AloneIsExact, [Band!Next]_(Band!vars), NEW h \in Handler,
                      throttlePc[h] = "write", throttlePc'[h] = "idle", alone[h]
               PROVE  /\ overrun' = "LIMITED" <=> level' = "over"
                      /\ bandwidth' = Band!Effective' /\ limits' = Band!Effective'
      OBVIOUS
  <2>1. bandwidthLock = h /\ speed[h] = Band!Effective /\ bandwidth = Band!Effective
        /\ (overrun = "LIMITED" <=> level = "over")
    BY DEF AloneIsExact
  <2> USE DEF Band!TypeOK, Band!Goto
  <2>2. CASE Band!Write(h)
    BY <2>1, <2>2 DEF Band!Write, Band!Effective
  <2>3. ASSUME NEW g \in Handler, Reconciles(g) PROVE Band!Write(h)
    BY <2>3 DEF Reconciles, Band!Read, Band!Throttle, Band!Warn, Band!Deliver, Band!Restore,
       Band!Lock, Band!ReadRow, Band!Patch, Band!Write
  <2>4. ASSUME NEW g \in Handler, Requests(g) PROVE FALSE
    BY <2>4 DEF Requests, Band!Reset, Band!SetLimit, Band!SetStatus, Band!ChangePlan,
       Band!SetPlan, Band!SetDirectly
  <2>5. ASSUME NEW g \in Handler, Breaks(g) PROVE FALSE
    BY <2>1, <2>5 DEF Breaks, Band!ArbitrationFails, Band!LockExpires, Band!Crash
  <2>6. ~Band!Grow /\ ~UNCHANGED Band!vars
    BY DEF Band!Grow, Band!vars
  <2> QED BY <2>2, <2>3, <2>4, <2>5, <2>6, HandlerSteps DEF Band!Next
<1> QED BY <1>1, <1>2, <1>3, PTL DEF Band!Spec, Band!NextPassHeals

----------------------------------------------------------------------------
(* Domains                                                                 *)

LEMMA MailTypeStep ==
    ASSUME Mail!MailDomainsConstants, Mail!TypeOK, [Mail!Next]_(Mail!vars) PROVE Mail!TypeOK'
<1>1. ASSUME Mail!Expire
      PROVE  Mail!TypeOK'
    BY <1>1 DEF Mail!Expire, Mail!Patient, Mail!TypeOK, Mail!Resuming, Mail!Working
<1>2. ASSUME Mail!MarkExpired
      PROVE  Mail!TypeOK'
    BY <1>2 DEF Mail!MarkExpired, Mail!TypeOK, Mail!Patient, Mail!Resuming, Mail!Working
<1>3. ASSUME Mail!AutoRenew
      PROVE  Mail!TypeOK'
    BY <1>3 DEF Mail!AutoRenew, Mail!TypeOK, Mail!Patient, Mail!Resuming, Mail!Working
<1>4. ASSUME NEW h \in Handler, Mail!Renew(h)
      PROVE  Mail!TypeOK'
    BY <1>4 DEF Mail!Renew, Mail!Goto, Mail!TypeOK, Mail!Patient, Mail!Resuming, Mail!Working
<1>5. ASSUME NEW h \in Handler, Mail!FindLapsed(h)
      PROVE  Mail!TypeOK'
    BY <1>5 DEF Mail!FindLapsed, Mail!Begin, Mail!Goto, Mail!TypeOK, Mail!Patient,
       Mail!Resuming, Mail!Working
<1>6. ASSUME NEW h \in Handler, Mail!Recheck(h)
      PROVE  Mail!TypeOK'
    BY <1>6 DEF Mail!Recheck, Mail!Begin, Mail!Goto, Mail!Pick, Mail!TypeOK, Mail!Patient,
       Mail!Resuming, Mail!Working
<1>7. ASSUME NEW h \in Handler, Mail!SuspendDone(h)
      PROVE  Mail!TypeOK'
    BY <1>7 DEF Mail!SuspendDone, Mail!Goto, Mail!TypeOK, Mail!Patient, Mail!Resuming,
       Mail!Working
<1>8. ASSUME NEW h \in Handler, Mail!SuspendDomain(h)
      PROVE  Mail!TypeOK'
    BY <1>8 DEF Mail!SuspendDomain, Mail!Goto, Mail!Reached, Mail!Missed, Mail!TypeOK,
       Mail!Patient, Mail!Resuming, Mail!Working
<1>9. ASSUME NEW h \in Handler, Mail!Mark(h)
      PROVE  Mail!TypeOK'
    BY <1>9 DEF Mail!Mark, Mail!Goto, Mail!SetRow, Mail!HasRow, Mail!TypeOK, Mail!Patient,
       Mail!Resuming, Mail!Working
<1>10. ASSUME NEW h \in Handler, Mail!Renewed(h)
      PROVE  Mail!TypeOK'
    BY <1>10 DEF Mail!Renewed, Mail!Goto, Mail!TypeOK, Mail!Patient, Mail!Resuming, Mail!Working
<1>11. ASSUME NEW h \in Handler, Mail!Compensate(h)
      PROVE  Mail!TypeOK'
    BY <1>11 DEF Mail!Compensate, Mail!ResumeDomain, Mail!Goto, Mail!Reached, Mail!Missed,
       Mail!TypeOK, Mail!Patient, Mail!Resuming, Mail!Working
<1>12. ASSUME NEW h \in Handler, Mail!Reopen(h)
      PROVE  Mail!TypeOK'
    BY <1>12 DEF Mail!Reopen, Mail!Goto, Mail!SetRow, Mail!HasRow, Mail!TypeOK, Mail!Patient,
       Mail!Resuming, Mail!Working
<1>13. ASSUME NEW h \in Handler, Mail!Hold(h)
      PROVE  Mail!TypeOK'
    BY <1>13 DEF Mail!Hold, Mail!Goto, Mail!SetRow, Mail!HasRow, Mail!TypeOK, Mail!Patient,
       Mail!Resuming, Mail!Working
<1>14. ASSUME NEW h \in Handler, Mail!FindSuspended(h)
      PROVE  Mail!TypeOK'
    BY <1>14 DEF Mail!FindSuspended, Mail!Begin, Mail!End, Mail!Goto, Mail!TypeOK, Mail!Patient,
       Mail!Resuming, Mail!Working
<1>15. ASSUME NEW h \in Handler, NEW d \in Domain, Mail!ResumeSuspended(h, d)
      PROVE  Mail!TypeOK'
    BY <1>15 DEF Mail!ResumeSuspended, Mail!Pick, Mail!Goto, Mail!Reached, Mail!Missed,
       Mail!TypeOK, Mail!Patient, Mail!Resuming, Mail!Working
<1>16. ASSUME NEW h \in Handler, Mail!Keep(h)
      PROVE  Mail!TypeOK'
    BY <1>16 DEF Mail!Keep, Mail!Goto, Mail!SetRow, Mail!TypeOK, Mail!Patient, Mail!Resuming,
       Mail!Working
<1>17. ASSUME NEW h \in Handler, Mail!FindRevived(h)
      PROVE  Mail!TypeOK'
    BY <1>17 DEF Mail!FindRevived, Mail!Begin, Mail!End, Mail!Goto, Mail!HasRow, Mail!TypeOK,
       Mail!Patient, Mail!Resuming, Mail!Working
<1>18. ASSUME NEW h \in Handler, NEW d \in Domain, Mail!ResumeRevived(h, d)
      PROVE  Mail!TypeOK'
    BY <1>18 DEF Mail!ResumeRevived, Mail!Pick, Mail!ResumeDomain, Mail!Goto, Mail!Reached,
       Mail!Missed, Mail!TypeOK, Mail!Patient, Mail!Resuming, Mail!Working
<1>19. ASSUME NEW h \in Handler, Mail!Done(h)
      PROVE  Mail!TypeOK'
    BY <1>19 DEF Mail!Done, Mail!End, Mail!Goto, Mail!TypeOK, Mail!Patient, Mail!Resuming,
       Mail!Working
<1>20. ASSUME NEW h \in Handler, NEW d \in Domain, Mail!Add(h, d)
      PROVE  Mail!TypeOK'
    BY <1>20 DEF Mail!Add, Mail!Goto, Mail!TypeOK, Mail!Patient, Mail!Resuming, Mail!Working
<1>21. ASSUME NEW h \in Handler, Mail!Insert(h)
      PROVE  Mail!TypeOK'
    BY <1>21 DEF Mail!Insert, Mail!SetRow, Mail!End, Mail!Goto, Mail!TypeOK, Mail!Patient,
       Mail!Resuming, Mail!Working
<1>22. ASSUME NEW h \in Handler, NEW d \in Domain, Mail!Delete(h, d)
      PROVE  Mail!TypeOK'
    BY <1>22 DEF Mail!Delete, Mail!Reached, Mail!Goto, Mail!HasRow, Mail!TypeOK, Mail!Patient,
       Mail!Resuming, Mail!Working
<1>23. ASSUME NEW h \in Handler, Mail!Erase(h)
      PROVE  Mail!TypeOK'
    BY <1>23 DEF Mail!Erase, Mail!SetRow, Mail!End, Mail!Goto, Mail!TypeOK, Mail!Patient,
       Mail!Resuming, Mail!Working
<1>24. ASSUME NEW h \in Handler, NEW d \in Domain, Mail!Verify(h, d)
      PROVE  Mail!TypeOK'
    BY <1>24 DEF Mail!Verify, Mail!Goto, Mail!HasRow, Mail!TypeOK, Mail!Patient, Mail!Resuming,
       Mail!Working
<1>25. ASSUME NEW h \in Handler, Mail!Verified(h)
      PROVE  Mail!TypeOK'
    BY <1>25 DEF Mail!Verified, Mail!SetRow, Mail!End, Mail!Goto, Mail!HasRow, Mail!TypeOK,
       Mail!Patient, Mail!Resuming, Mail!Working
<1>26. ASSUME NEW h \in Handler, Mail!Cancel(h)
      PROVE  Mail!TypeOK'
    BY <1>26 DEF Mail!Cancel, Mail!Begin, Mail!Goto, Mail!HasRow, Mail!TypeOK, Mail!Patient,
       Mail!Resuming, Mail!Working
<1>27. ASSUME NEW h \in Handler, NEW d \in Domain, Mail!CancelDomain(h, d)
      PROVE  Mail!TypeOK'
    BY <1>27 DEF Mail!CancelDomain, Mail!Pick, Mail!End, Mail!Goto, Mail!Reached, Mail!Missed,
       Mail!TypeOK, Mail!Patient, Mail!Resuming, Mail!Working
<1>28. ASSUME NEW h \in Handler, Mail!CancelSubscription(h)
      PROVE  Mail!TypeOK'
    BY <1>28 DEF Mail!CancelSubscription, Mail!End, Mail!Goto, Mail!HasRow, Mail!TypeOK,
       Mail!Patient, Mail!Resuming, Mail!Working
<1>29. ASSUME NEW h \in Handler, Mail!Crash(h)
      PROVE  Mail!TypeOK'
    BY <1>29 DEF Mail!Crash, Mail!End, Mail!Goto, Mail!Working, Mail!Resuming, Mail!TypeOK,
       Mail!Patient
<1>30. CASE UNCHANGED Mail!vars
  BY <1>30 DEF Mail!vars, Mail!TypeOK, Mail!Patient, Mail!Resuming, Mail!Working
<1> QED
  BY <1>1, <1>2, <1>3, <1>4, <1>5, <1>6, <1>7, <1>8, <1>9, <1>10, <1>11,
     <1>12, <1>13, <1>14, <1>15, <1>16, <1>17, <1>18, <1>19, <1>20, <1>21,
     <1>22, <1>23, <1>24, <1>25, <1>26, <1>27, <1>28, <1>29, <1>30 DEF Mail!Next,
     Mail!HandlerStep, Mail!DomainStep

LEMMA MailInitTyped == Mail!Init => Mail!TypeOK
<1> SUFFICES ASSUME Mail!Init PROVE Mail!TypeOK
  OBVIOUS
<1>1. "idle" \in Mail!Patient \cup Mail!Resuming \cup Mail!Working
  BY DEF Mail!Patient
<1>2. /\ sub \in {"active", "expired", "deleted"} /\ past \in BOOLEAN
      /\ domain \in [Domain -> {"none", "open", "suspended", "gone"}]
      /\ upstream \in [Domain -> {"none", "up", "down"}]
      /\ subLock \in Handler \cup {None}
  BY DEF Mail!Init
<1>3. mailPc \in [Handler -> Mail!Patient \cup Mail!Resuming \cup Mail!Working]
  BY <1>1 DEF Mail!Init
<1>4. /\ mailLoop \in [Handler -> {"suspend", "renewal"}]
      /\ mailOn \in [Handler -> Domain \cup {None}]
      /\ mailLeft \in [Handler -> SUBSET Domain]
  BY DEF Mail!Init
<1> QED BY <1>2, <1>3, <1>4 DEF Mail!TypeOK

(* The subscription, its domains and the handlers keep their types.        *)
THEOREM MailTypeCorrect == ASSUME Mail!MailDomainsConstants PROVE Mail!Spec => []Mail!TypeOK
<1>1. Mail!Init => Mail!TypeOK
  BY MailInitTyped
<1> QED BY <1>1, MailTypeStep, PTL DEF Mail!Spec

-----------------------------------------------------------------------------
(* What handlers know of the domains they work on.                         *)

(* A domain is handled only after it was added.                            *)
AddedIsKnown ==
    \A h \in Handler :
        /\ mailPc[h] \in {"call", "mark", "renewed", "compensate", "reopen", "hold", "keep",
                      "erase", "verify"}
              => mailOn[h] \in Domain /\ domain[mailOn[h]] # "none"
        /\ \A d \in mailLeft[h] : domain[d] # "none"

(* One handler at a time adds a domain, and nobody else knows it.          *)
AddsAlone ==
    \A h \in Handler : mailPc[h] = "insert" =>
        /\ subLock = h
        /\ mailOn[h] \in Domain
        /\ domain[mailOn[h]] = "none" /\ upstream[mailOn[h]] = "up"

(* A row is erased when the provider has nothing any more.                 *)
ErasesLast ==
    \A h \in Handler : mailPc[h] = "erase" => upstream[mailOn[h]] = "none"

MailKnown == Mail!TypeOK /\ AddedIsKnown /\ AddsAlone /\ ErasesLast

LEMMA MailKnownStep ==
    ASSUME Mail!MailDomainsConstants, MailKnown, [Mail!Next]_(Mail!vars) PROVE MailKnown'
<1>1. ASSUME Mail!Expire
      PROVE  MailKnown'
    BY <1>1 DEF Mail!Expire, Mail!Patient, MailKnown, AddedIsKnown, AddsAlone, ErasesLast,
         Mail!TypeOK, Mail!Resuming, Mail!Working
<1>2. ASSUME Mail!MarkExpired
      PROVE  MailKnown'
    BY <1>2 DEF Mail!MarkExpired, MailKnown, AddedIsKnown, AddsAlone, ErasesLast,
         Mail!TypeOK, Mail!Patient, Mail!Resuming, Mail!Working
<1>3. ASSUME Mail!AutoRenew
      PROVE  MailKnown'
    BY <1>3 DEF Mail!AutoRenew, MailKnown, AddedIsKnown, AddsAlone, ErasesLast, Mail!TypeOK,
         Mail!Patient, Mail!Resuming, Mail!Working
<1>4. ASSUME NEW h \in Handler, Mail!Renew(h)
      PROVE  MailKnown'
    BY <1>4 DEF Mail!Renew, Mail!Goto, MailKnown, AddedIsKnown, AddsAlone, ErasesLast,
         Mail!TypeOK, Mail!Patient, Mail!Resuming, Mail!Working
<1>5. ASSUME NEW h \in Handler, Mail!FindLapsed(h)
      PROVE  MailKnown'
    BY <1>5 DEF Mail!FindLapsed, Mail!Begin, Mail!Goto, MailKnown, AddedIsKnown, AddsAlone,
         ErasesLast, Mail!TypeOK, Mail!Patient, Mail!Resuming, Mail!Working
<1>6. ASSUME NEW h \in Handler, Mail!Recheck(h)
      PROVE  MailKnown'
    BY <1>6 DEF Mail!Recheck, Mail!Begin, Mail!Goto, Mail!Pick, MailKnown, AddedIsKnown,
       AddsAlone, ErasesLast, Mail!TypeOK, Mail!Patient, Mail!Resuming, Mail!Working
<1>7. ASSUME NEW h \in Handler, Mail!SuspendDone(h)
      PROVE  MailKnown'
    BY <1>7 DEF Mail!SuspendDone, Mail!Goto, MailKnown, AddedIsKnown, AddsAlone, ErasesLast,
         Mail!TypeOK, Mail!Patient, Mail!Resuming, Mail!Working
<1>8. ASSUME NEW h \in Handler, Mail!SuspendDomain(h)
      PROVE  MailKnown'
    BY <1>8 DEF Mail!SuspendDomain, Mail!Goto, Mail!Reached, Mail!Missed, MailKnown, AddedIsKnown,
         AddsAlone, ErasesLast, Mail!TypeOK, Mail!Patient, Mail!Resuming, Mail!Working
<1>9. ASSUME NEW h \in Handler, Mail!Mark(h)
      PROVE  MailKnown'
    BY <1>9 DEF Mail!Mark, Mail!Goto, Mail!SetRow, Mail!HasRow, MailKnown, AddedIsKnown,
       AddsAlone, ErasesLast, Mail!TypeOK, Mail!Patient, Mail!Resuming, Mail!Working
<1>10. ASSUME NEW h \in Handler, Mail!Renewed(h)
      PROVE  MailKnown'
    BY <1>10 DEF Mail!Renewed, Mail!Goto, MailKnown, AddedIsKnown, AddsAlone, ErasesLast,
         Mail!TypeOK, Mail!Patient, Mail!Resuming, Mail!Working
<1>11. ASSUME NEW h \in Handler, Mail!Compensate(h)
      PROVE  MailKnown'
    BY <1>11 DEF Mail!Compensate, Mail!ResumeDomain, Mail!Goto, Mail!Reached, Mail!Missed,
       MailKnown, AddedIsKnown, AddsAlone, ErasesLast, Mail!TypeOK, Mail!Patient, Mail!Resuming,
       Mail!Working
<1>12. ASSUME NEW h \in Handler, Mail!Reopen(h)
      PROVE  MailKnown'
    BY <1>12 DEF Mail!Reopen, Mail!Goto, Mail!SetRow, Mail!HasRow, MailKnown, AddedIsKnown,
       AddsAlone, ErasesLast, Mail!TypeOK, Mail!Patient, Mail!Resuming, Mail!Working
<1>13. ASSUME NEW h \in Handler, Mail!Hold(h)
      PROVE  MailKnown'
    BY <1>13 DEF Mail!Hold, Mail!Goto, Mail!SetRow, Mail!HasRow, MailKnown, AddedIsKnown,
       AddsAlone, ErasesLast, Mail!TypeOK, Mail!Patient, Mail!Resuming, Mail!Working
<1>14. ASSUME NEW h \in Handler, Mail!FindSuspended(h)
      PROVE  MailKnown'
    BY <1>14 DEF Mail!FindSuspended, Mail!Begin, Mail!End, Mail!Goto, MailKnown, AddedIsKnown,
         AddsAlone, ErasesLast, Mail!TypeOK, Mail!Patient, Mail!Resuming, Mail!Working
<1>15. ASSUME NEW h \in Handler, NEW d \in Domain, Mail!ResumeSuspended(h, d)
      PROVE  MailKnown'
    BY <1>15 DEF Mail!ResumeSuspended, Mail!Pick, Mail!Goto, Mail!Reached, Mail!Missed, MailKnown,
         AddedIsKnown, AddsAlone, ErasesLast, Mail!TypeOK, Mail!Patient, Mail!Resuming,
         Mail!Working
<1>16. ASSUME NEW h \in Handler, Mail!Keep(h)
      PROVE  MailKnown'
    BY <1>16 DEF Mail!Keep, Mail!Goto, Mail!SetRow, MailKnown, AddedIsKnown, AddsAlone,
         ErasesLast, Mail!TypeOK, Mail!Patient, Mail!Resuming, Mail!Working
<1>17. ASSUME NEW h \in Handler, Mail!FindRevived(h)
      PROVE  MailKnown'
    BY <1>17 DEF Mail!FindRevived, Mail!Begin, Mail!End, Mail!Goto, Mail!HasRow, MailKnown,
       AddedIsKnown, AddsAlone, ErasesLast, Mail!TypeOK, Mail!Patient, Mail!Resuming,
       Mail!Working
<1>18. ASSUME NEW h \in Handler, NEW d \in Domain, Mail!ResumeRevived(h, d)
      PROVE  MailKnown'
    BY <1>18 DEF Mail!ResumeRevived, Mail!Pick, Mail!ResumeDomain, Mail!Goto, Mail!Reached,
       Mail!Missed, MailKnown, AddedIsKnown, AddsAlone, ErasesLast, Mail!TypeOK, Mail!Patient,
       Mail!Resuming, Mail!Working
<1>19. ASSUME NEW h \in Handler, Mail!Done(h)
      PROVE  MailKnown'
    BY <1>19 DEF Mail!Done, Mail!End, Mail!Goto, MailKnown, AddedIsKnown, AddsAlone, ErasesLast,
         Mail!TypeOK, Mail!Patient, Mail!Resuming, Mail!Working
<1>20. ASSUME NEW h \in Handler, NEW d \in Domain, Mail!Add(h, d)
      PROVE  MailKnown'
    BY <1>20 DEF Mail!Add, Mail!Goto, Mail!MailDomainsConstants, MailKnown, AddedIsKnown,
         AddsAlone, ErasesLast, Mail!TypeOK, Mail!Patient, Mail!Resuming, Mail!Working
<1>21. ASSUME NEW h \in Handler, Mail!Insert(h)
      PROVE  MailKnown'
    BY <1>21 DEF Mail!Insert, Mail!SetRow, Mail!End, Mail!Goto, MailKnown, AddedIsKnown,
       AddsAlone, ErasesLast, Mail!TypeOK, Mail!Patient, Mail!Resuming, Mail!Working
<1>22. ASSUME NEW h \in Handler, NEW d \in Domain, Mail!Delete(h, d)
      PROVE  MailKnown'
    BY <1>22 DEF Mail!Delete, Mail!Reached, Mail!Goto, Mail!HasRow, MailKnown, AddedIsKnown,
         AddsAlone, ErasesLast, Mail!TypeOK, Mail!Patient, Mail!Resuming, Mail!Working
<1>23. ASSUME NEW h \in Handler, Mail!Erase(h)
      PROVE  MailKnown'
    BY <1>23 DEF Mail!Erase, Mail!SetRow, Mail!End, Mail!Goto, MailKnown, AddedIsKnown, AddsAlone,
         ErasesLast, Mail!TypeOK, Mail!Patient, Mail!Resuming, Mail!Working
<1>24. ASSUME NEW h \in Handler, NEW d \in Domain, Mail!Verify(h, d)
      PROVE  MailKnown'
    BY <1>24 DEF Mail!Verify, Mail!Goto, Mail!HasRow, MailKnown, AddedIsKnown, AddsAlone,
         ErasesLast, Mail!TypeOK, Mail!Patient, Mail!Resuming, Mail!Working
<1>25. ASSUME NEW h \in Handler, Mail!Verified(h)
      PROVE  MailKnown'
    BY <1>25 DEF Mail!Verified, Mail!SetRow, Mail!End, Mail!Goto, Mail!HasRow, MailKnown,
       AddedIsKnown, AddsAlone, ErasesLast, Mail!TypeOK, Mail!Patient, Mail!Resuming,
       Mail!Working
<1>26. ASSUME NEW h \in Handler, Mail!Cancel(h)
      PROVE  MailKnown'
    BY <1>26 DEF Mail!Cancel, Mail!Begin, Mail!Goto, Mail!HasRow, MailKnown, AddedIsKnown,
       AddsAlone, ErasesLast, Mail!TypeOK, Mail!Patient, Mail!Resuming, Mail!Working
<1>27. ASSUME NEW h \in Handler, NEW d \in Domain, Mail!CancelDomain(h, d)
      PROVE  MailKnown'
    BY <1>27 DEF Mail!CancelDomain, Mail!Pick, Mail!End, Mail!Goto, Mail!Reached, Mail!Missed,
       MailKnown, AddedIsKnown, AddsAlone, ErasesLast, Mail!TypeOK, Mail!Patient, Mail!Resuming,
       Mail!Working
<1>28. ASSUME NEW h \in Handler, Mail!CancelSubscription(h)
      PROVE  MailKnown'
    BY <1>28 DEF Mail!CancelSubscription, Mail!End, Mail!Goto, Mail!HasRow, MailKnown,
       AddedIsKnown, AddsAlone, ErasesLast, Mail!TypeOK, Mail!Patient, Mail!Resuming,
       Mail!Working
<1>29. ASSUME NEW h \in Handler, Mail!Crash(h)
      PROVE  MailKnown'
    BY <1>29 DEF Mail!Crash, Mail!End, Mail!Goto, Mail!Working, Mail!Resuming, MailKnown,
       AddedIsKnown, AddsAlone, ErasesLast, Mail!TypeOK, Mail!Patient
<1>30. CASE UNCHANGED Mail!vars
  BY <1>30 DEF Mail!vars, MailKnown, AddedIsKnown, AddsAlone, ErasesLast, Mail!TypeOK,
         Mail!Patient, Mail!Resuming, Mail!Working
<1> QED
  BY <1>1, <1>2, <1>3, <1>4, <1>5, <1>6, <1>7, <1>8, <1>9, <1>10, <1>11,
     <1>12, <1>13, <1>14, <1>15, <1>16, <1>17, <1>18, <1>19, <1>20, <1>21,
     <1>22, <1>23, <1>24, <1>25, <1>26, <1>27, <1>28, <1>29, <1>30 DEF Mail!Next,
     Mail!HandlerStep, Mail!DomainStep

-----------------------------------------------------------------------------
(* What is at the provider has a row, or will have one.                    *)

Promised == \A d \in Domain : upstream[d] # "none" =>
                Mail!HasRow(d) \/ \E h \in Handler : mailPc[h] = "insert" /\ mailOn[h] = d
NotCancelled == sub # "deleted" /\ \A h \in Handler : mailPc[h] # "cancel"

LEMMA PromisedStep ==
    ASSUME Mail!MailDomainsConstants, "cancel" \notin MailFaults, "slow" \notin MailFaults,
           "unheard" \notin MailFaults, MailKnown, Promised, NotCancelled, [Mail!Next]_(Mail!vars)
    PROVE  Promised' /\ NotCancelled'
<1>1. ASSUME Mail!Expire
      PROVE  Promised' /\ NotCancelled'
    BY <1>1 DEF Mail!Expire, Mail!Patient, Promised, NotCancelled, Mail!HasRow, MailKnown,
         AddedIsKnown, AddsAlone, ErasesLast, Mail!TypeOK
<1>2. ASSUME Mail!MarkExpired
      PROVE  Promised' /\ NotCancelled'
    BY <1>2 DEF Mail!MarkExpired, Promised, NotCancelled, Mail!HasRow, MailKnown,
         AddedIsKnown, AddsAlone, ErasesLast, Mail!TypeOK
<1>3. ASSUME Mail!AutoRenew
      PROVE  Promised' /\ NotCancelled'
    BY <1>3 DEF Mail!AutoRenew, Promised, NotCancelled, Mail!HasRow, MailKnown,
         AddedIsKnown, AddsAlone, ErasesLast, Mail!TypeOK
<1>4. ASSUME NEW h \in Handler, Mail!Renew(h)
      PROVE  Promised' /\ NotCancelled'
    BY <1>4 DEF Mail!Renew, Mail!Goto, Promised, NotCancelled, Mail!HasRow, MailKnown,
         AddedIsKnown, AddsAlone, ErasesLast, Mail!TypeOK
<1>5. ASSUME NEW h \in Handler, Mail!FindLapsed(h)
      PROVE  Promised' /\ NotCancelled'
    BY <1>5 DEF Mail!FindLapsed, Mail!Begin, Mail!Goto, Promised, NotCancelled, Mail!HasRow,
         MailKnown, AddedIsKnown, AddsAlone, ErasesLast, Mail!TypeOK
<1>6. ASSUME NEW h \in Handler, Mail!Recheck(h)
      PROVE  Promised' /\ NotCancelled'
    BY <1>6 DEF Mail!Recheck, Mail!Begin, Mail!Goto, Mail!Pick, Promised, NotCancelled,
       Mail!HasRow, MailKnown, AddedIsKnown, AddsAlone, ErasesLast, Mail!TypeOK
<1>7. ASSUME NEW h \in Handler, Mail!SuspendDone(h)
      PROVE  Promised' /\ NotCancelled'
    BY <1>7 DEF Mail!SuspendDone, Mail!Goto, Promised, NotCancelled, Mail!HasRow, MailKnown,
         AddedIsKnown, AddsAlone, ErasesLast, Mail!TypeOK
<1>8. ASSUME NEW h \in Handler, Mail!SuspendDomain(h)
      PROVE  Promised' /\ NotCancelled'
    BY <1>8 DEF Mail!SuspendDomain, Mail!Goto, Mail!Reached, Mail!Missed, Promised, NotCancelled,
         Mail!HasRow, MailKnown, AddedIsKnown, AddsAlone, ErasesLast, Mail!TypeOK
<1>9. ASSUME NEW h \in Handler, Mail!Mark(h)
      PROVE  Promised' /\ NotCancelled'
    BY <1>9 DEF Mail!Mark, Mail!Goto, Mail!SetRow, Mail!HasRow, Promised, NotCancelled, MailKnown,
         AddedIsKnown, AddsAlone, ErasesLast, Mail!TypeOK
<1>10. ASSUME NEW h \in Handler, Mail!Renewed(h)
      PROVE  Promised' /\ NotCancelled'
    BY <1>10 DEF Mail!Renewed, Mail!Goto, Promised, NotCancelled, Mail!HasRow, MailKnown,
         AddedIsKnown, AddsAlone, ErasesLast, Mail!TypeOK
<1>11. ASSUME NEW h \in Handler, Mail!Compensate(h)
      PROVE  Promised' /\ NotCancelled'
    BY <1>11 DEF Mail!Compensate, Mail!ResumeDomain, Mail!Goto, Mail!Reached, Mail!Missed,
       Promised, NotCancelled, Mail!HasRow, MailKnown, AddedIsKnown, AddsAlone, ErasesLast,
       Mail!TypeOK
<1>12. ASSUME NEW h \in Handler, Mail!Reopen(h)
      PROVE  Promised' /\ NotCancelled'
    BY <1>12 DEF Mail!Reopen, Mail!Goto, Mail!SetRow, Mail!HasRow, Promised, NotCancelled,
       MailKnown, AddedIsKnown, AddsAlone, ErasesLast, Mail!TypeOK
<1>13. ASSUME NEW h \in Handler, Mail!Hold(h)
      PROVE  Promised' /\ NotCancelled'
    BY <1>13 DEF Mail!Hold, Mail!Goto, Mail!SetRow, Mail!HasRow, Promised, NotCancelled,
       MailKnown, AddedIsKnown, AddsAlone, ErasesLast, Mail!TypeOK
<1>14. ASSUME NEW h \in Handler, Mail!FindSuspended(h)
      PROVE  Promised' /\ NotCancelled'
    BY <1>14 DEF Mail!FindSuspended, Mail!Begin, Mail!End, Mail!Goto, Promised, NotCancelled,
         Mail!HasRow, MailKnown, AddedIsKnown, AddsAlone, ErasesLast, Mail!TypeOK
<1>15. ASSUME NEW h \in Handler, NEW d \in Domain, Mail!ResumeSuspended(h, d)
      PROVE  Promised' /\ NotCancelled'
    BY <1>15 DEF Mail!ResumeSuspended, Mail!Pick, Mail!Goto, Mail!Reached, Mail!Missed, Promised,
         NotCancelled, Mail!HasRow, MailKnown, AddedIsKnown, AddsAlone, ErasesLast,
         Mail!TypeOK
<1>16. ASSUME NEW h \in Handler, Mail!Keep(h)
      PROVE  Promised' /\ NotCancelled'
    BY <1>16 DEF Mail!Keep, Mail!Goto, Mail!SetRow, Promised, NotCancelled, Mail!HasRow,
       MailKnown, AddedIsKnown, AddsAlone, ErasesLast, Mail!TypeOK
<1>17. ASSUME NEW h \in Handler, Mail!FindRevived(h)
      PROVE  Promised' /\ NotCancelled'
    BY <1>17 DEF Mail!FindRevived, Mail!Begin, Mail!End, Mail!Goto, Mail!HasRow, Promised,
         NotCancelled, MailKnown, AddedIsKnown, AddsAlone, ErasesLast, Mail!TypeOK
<1>18. ASSUME NEW h \in Handler, NEW d \in Domain, Mail!ResumeRevived(h, d)
      PROVE  Promised' /\ NotCancelled'
    BY <1>18 DEF Mail!ResumeRevived, Mail!Pick, Mail!ResumeDomain, Mail!Goto, Mail!Reached,
       Mail!Missed, Promised, NotCancelled, Mail!HasRow, MailKnown, AddedIsKnown, AddsAlone,
       ErasesLast, Mail!TypeOK
<1>19. ASSUME NEW h \in Handler, Mail!Done(h)
      PROVE  Promised' /\ NotCancelled'
    BY <1>19 DEF Mail!Done, Mail!End, Mail!Goto, Promised, NotCancelled, Mail!HasRow, MailKnown,
         AddedIsKnown, AddsAlone, ErasesLast, Mail!TypeOK
<1>20. ASSUME NEW h \in Handler, NEW d \in Domain, Mail!Add(h, d)
      PROVE  Promised' /\ NotCancelled'
    BY <1>20 DEF Mail!Add, Mail!Goto, Promised, NotCancelled, Mail!HasRow, MailKnown,
         AddedIsKnown, AddsAlone, ErasesLast, Mail!TypeOK
<1>21. ASSUME NEW h \in Handler, Mail!Insert(h)
      PROVE  Promised' /\ NotCancelled'
    BY <1>21 DEF Mail!Insert, Mail!SetRow, Mail!End, Mail!Goto, Promised, NotCancelled,
       Mail!HasRow, MailKnown, AddedIsKnown, AddsAlone, ErasesLast, Mail!TypeOK
<1>22. ASSUME NEW h \in Handler, NEW d \in Domain, Mail!Delete(h, d)
      PROVE  Promised' /\ NotCancelled'
    BY <1>22 DEF Mail!Delete, Mail!Reached, Mail!Goto, Mail!HasRow, Promised, NotCancelled,
       MailKnown, AddedIsKnown, AddsAlone, ErasesLast, Mail!TypeOK
<1>23. ASSUME NEW h \in Handler, Mail!Erase(h)
      PROVE  Promised' /\ NotCancelled'
    BY <1>23 DEF Mail!Erase, Mail!SetRow, Mail!End, Mail!Goto, Promised, NotCancelled,
       Mail!HasRow, MailKnown, AddedIsKnown, AddsAlone, ErasesLast, Mail!TypeOK
<1>24. ASSUME NEW h \in Handler, NEW d \in Domain, Mail!Verify(h, d)
      PROVE  Promised' /\ NotCancelled'
    BY <1>24 DEF Mail!Verify, Mail!Goto, Mail!HasRow, Promised, NotCancelled, MailKnown,
         AddedIsKnown, AddsAlone, ErasesLast, Mail!TypeOK
<1>25. ASSUME NEW h \in Handler, Mail!Verified(h)
      PROVE  Promised' /\ NotCancelled'
    BY <1>25 DEF Mail!Verified, Mail!SetRow, Mail!End, Mail!Goto, Mail!HasRow, Promised,
       NotCancelled, MailKnown, AddedIsKnown, AddsAlone, ErasesLast, Mail!TypeOK
<1>26. ASSUME NEW h \in Handler, Mail!Cancel(h)
      PROVE  Promised' /\ NotCancelled'
    BY <1>26 DEF Mail!Cancel, Mail!Begin, Mail!Goto, Mail!HasRow, Promised, NotCancelled,
       MailKnown, AddedIsKnown, AddsAlone, ErasesLast, Mail!TypeOK
<1>27. ASSUME NEW h \in Handler, NEW d \in Domain, Mail!CancelDomain(h, d)
      PROVE  Promised' /\ NotCancelled'
    BY <1>27 DEF Mail!CancelDomain, Mail!Pick, Mail!End, Mail!Goto, Mail!Reached, Mail!Missed,
       Promised, NotCancelled, Mail!HasRow, MailKnown, AddedIsKnown, AddsAlone, ErasesLast,
       Mail!TypeOK
<1>28. ASSUME NEW h \in Handler, Mail!CancelSubscription(h)
      PROVE  Promised' /\ NotCancelled'
    BY <1>28 DEF Mail!CancelSubscription, Mail!End, Mail!Goto, Mail!HasRow, Promised,
         NotCancelled, MailKnown, AddedIsKnown, AddsAlone, ErasesLast, Mail!TypeOK
<1>29. ASSUME NEW h \in Handler, Mail!Crash(h)
      PROVE  Promised' /\ NotCancelled'
    BY <1>29 DEF Mail!Crash, Mail!End, Mail!Goto, Mail!Working, Mail!Resuming, Promised,
       NotCancelled, Mail!HasRow, MailKnown, AddedIsKnown, AddsAlone, ErasesLast, Mail!TypeOK
<1>30. CASE UNCHANGED Mail!vars
  BY <1>30 DEF Mail!vars, Promised, NotCancelled, Mail!HasRow, MailKnown, AddedIsKnown,
         AddsAlone, ErasesLast, Mail!TypeOK
<1> QED
  BY <1>1, <1>2, <1>3, <1>4, <1>5, <1>6, <1>7, <1>8, <1>9, <1>10, <1>11,
     <1>12, <1>13, <1>14, <1>15, <1>16, <1>17, <1>18, <1>19, <1>20, <1>21,
     <1>22, <1>23, <1>24, <1>25, <1>26, <1>27, <1>28, <1>29, <1>30 DEF Mail!Next,
     Mail!HandlerStep, Mail!DomainStep

(* Nothing is left at the provider without a row, if transactions and      *)
(* answers are in time and nobody cancels; processes may die and calls be  *)
(* refused at any moment.                                                  *)
THEOREM NothingHiddenAlways ==
    ASSUME Mail!MailDomainsConstants, "cancel" \notin MailFaults, "slow" \notin MailFaults,
           "unheard" \notin MailFaults
    PROVE  Mail!Spec => []Mail!NothingHidden
<1> SUFFICES ASSUME Mail!MailDomainsConstants, "cancel" \notin MailFaults,
                    "slow" \notin MailFaults,
                    "unheard" \notin MailFaults
             PROVE  Mail!Spec => []Mail!NothingHidden
  OBVIOUS
<1>1. Mail!Init => MailKnown /\ Promised /\ NotCancelled
  BY MailInitTyped DEF Mail!Init, MailKnown, AddedIsKnown, AddsAlone, ErasesLast, Promised,
         NotCancelled
<1>2. MailKnown /\ Promised /\ NotCancelled /\ [Mail!Next]_(Mail!vars)
        => (MailKnown /\ Promised /\ NotCancelled)'
  BY MailKnownStep, PromisedStep
<1>3. Promised => Mail!NothingHidden
  BY DEF Promised, Mail!NothingHidden, Mail!AtWork
<1> QED BY <1>1, <1>2, <1>3, PTL DEF Mail!Spec

-----------------------------------------------------------------------------
(* What is suspended and paid for is marked, or will be.                   *)

(* Jobs begin with what has expired, and only a renewal ends that; who     *)
(* resumes does so for a subscription that is paid for.                    *)
InPeriod == sub # "deleted" =>
    /\ sub = "expired" => past
    /\ \A h \in Handler :
          /\ mailPc[h] \in {"suspend", "call", "mark", "renewed", "find"} => Mail!Lapsed
               \/ Mail!Usable
          /\ mailPc[h] \in {"compensate", "reopen", "hold", "resume", "renewal", "keep",
                        "revived"} => Mail!Usable

LEMMA InPeriodStep ==
    ASSUME Mail!MailDomainsConstants, "late" \notin MailFaults, Mail!TypeOK, InPeriod,
           [Mail!Next]_(Mail!vars)
    PROVE  InPeriod'
<1>1. ASSUME Mail!Expire
      PROVE  InPeriod'
    BY <1>1 DEF Mail!Expire, Mail!Patient, InPeriod, Mail!Usable, Mail!Lapsed, Mail!TypeOK,
       Mail!Resuming, Mail!Working
<1>2. ASSUME Mail!MarkExpired
      PROVE  InPeriod'
    BY <1>2 DEF Mail!MarkExpired, InPeriod, Mail!Usable, Mail!Lapsed, Mail!TypeOK, Mail!Patient,
         Mail!Resuming, Mail!Working
<1>3. ASSUME Mail!AutoRenew
      PROVE  InPeriod'
    BY <1>3 DEF Mail!AutoRenew, InPeriod, Mail!Usable, Mail!Lapsed, Mail!TypeOK, Mail!Patient,
         Mail!Resuming, Mail!Working
<1>4. ASSUME NEW h \in Handler, Mail!Renew(h)
      PROVE  InPeriod'
    BY <1>4 DEF Mail!Renew, Mail!Goto, InPeriod, Mail!Usable, Mail!Lapsed, Mail!TypeOK,
       Mail!Patient, Mail!Resuming, Mail!Working
<1>5. ASSUME NEW h \in Handler, Mail!FindLapsed(h)
      PROVE  InPeriod'
    BY <1>5 DEF Mail!FindLapsed, Mail!Begin, Mail!Goto, InPeriod, Mail!Usable, Mail!Lapsed,
       Mail!TypeOK, Mail!Patient, Mail!Resuming, Mail!Working
<1>6. ASSUME NEW h \in Handler, Mail!Recheck(h)
      PROVE  InPeriod'
    BY <1>6 DEF Mail!Recheck, Mail!Begin, Mail!Goto, Mail!Pick, InPeriod, Mail!Usable,
       Mail!Lapsed, Mail!TypeOK, Mail!Patient, Mail!Resuming, Mail!Working
<1>7. ASSUME NEW h \in Handler, Mail!SuspendDone(h)
      PROVE  InPeriod'
    BY <1>7 DEF Mail!SuspendDone, Mail!Goto, InPeriod, Mail!Usable, Mail!Lapsed, Mail!TypeOK,
       Mail!Patient, Mail!Resuming, Mail!Working
<1>8. ASSUME NEW h \in Handler, Mail!SuspendDomain(h)
      PROVE  InPeriod'
    BY <1>8 DEF Mail!SuspendDomain, Mail!Goto, Mail!Reached, Mail!Missed, InPeriod, Mail!Usable,
         Mail!Lapsed, Mail!TypeOK, Mail!Patient, Mail!Resuming, Mail!Working
<1>9. ASSUME NEW h \in Handler, Mail!Mark(h)
      PROVE  InPeriod'
    BY <1>9 DEF Mail!Mark, Mail!Goto, Mail!SetRow, Mail!HasRow, InPeriod, Mail!Usable,
       Mail!Lapsed, Mail!TypeOK, Mail!Patient, Mail!Resuming, Mail!Working
<1>10. ASSUME NEW h \in Handler, Mail!Renewed(h)
      PROVE  InPeriod'
    BY <1>10 DEF Mail!Renewed, Mail!Goto, InPeriod, Mail!Usable, Mail!Lapsed, Mail!TypeOK,
       Mail!Patient, Mail!Resuming, Mail!Working
<1>11. ASSUME NEW h \in Handler, Mail!Compensate(h)
      PROVE  InPeriod'
    BY <1>11 DEF Mail!Compensate, Mail!ResumeDomain, Mail!Goto, Mail!Reached, Mail!Missed,
       InPeriod, Mail!Usable, Mail!Lapsed, Mail!TypeOK, Mail!Patient, Mail!Resuming,
       Mail!Working
<1>12. ASSUME NEW h \in Handler, Mail!Reopen(h)
      PROVE  InPeriod'
    BY <1>12 DEF Mail!Reopen, Mail!Goto, Mail!SetRow, Mail!HasRow, InPeriod, Mail!Usable,
       Mail!Lapsed, Mail!TypeOK, Mail!Patient, Mail!Resuming, Mail!Working
<1>13. ASSUME NEW h \in Handler, Mail!Hold(h)
      PROVE  InPeriod'
    BY <1>13 DEF Mail!Hold, Mail!Goto, Mail!SetRow, Mail!HasRow, InPeriod, Mail!Usable,
       Mail!Lapsed, Mail!TypeOK, Mail!Patient, Mail!Resuming, Mail!Working
<1>14. ASSUME NEW h \in Handler, Mail!FindSuspended(h)
      PROVE  InPeriod'
    BY <1>14 DEF Mail!FindSuspended, Mail!Begin, Mail!End, Mail!Goto, InPeriod, Mail!Usable,
       Mail!Lapsed, Mail!TypeOK, Mail!Patient, Mail!Resuming, Mail!Working
<1>15. ASSUME NEW h \in Handler, NEW d \in Domain, Mail!ResumeSuspended(h, d)
      PROVE  InPeriod'
    BY <1>15 DEF Mail!ResumeSuspended, Mail!Pick, Mail!Goto, Mail!Reached, Mail!Missed, InPeriod,
         Mail!Usable, Mail!Lapsed, Mail!TypeOK, Mail!Patient, Mail!Resuming, Mail!Working
<1>16. ASSUME NEW h \in Handler, Mail!Keep(h)
      PROVE  InPeriod'
    BY <1>16 DEF Mail!Keep, Mail!Goto, Mail!SetRow, InPeriod, Mail!Usable, Mail!Lapsed,
       Mail!TypeOK, Mail!Patient, Mail!Resuming, Mail!Working
<1>17. ASSUME NEW h \in Handler, Mail!FindRevived(h)
      PROVE  InPeriod'
    BY <1>17 DEF Mail!FindRevived, Mail!Begin, Mail!End, Mail!Goto, Mail!HasRow, InPeriod,
       Mail!Usable, Mail!Lapsed, Mail!TypeOK, Mail!Patient, Mail!Resuming, Mail!Working
<1>18. ASSUME NEW h \in Handler, NEW d \in Domain, Mail!ResumeRevived(h, d)
      PROVE  InPeriod'
    BY <1>18 DEF Mail!ResumeRevived, Mail!Pick, Mail!ResumeDomain, Mail!Goto, Mail!Reached,
       Mail!Missed, InPeriod, Mail!Usable, Mail!Lapsed, Mail!TypeOK, Mail!Patient,
       Mail!Resuming, Mail!Working
<1>19. ASSUME NEW h \in Handler, Mail!Done(h)
      PROVE  InPeriod'
    BY <1>19 DEF Mail!Done, Mail!End, Mail!Goto, InPeriod, Mail!Usable, Mail!Lapsed,
       Mail!TypeOK, Mail!Patient, Mail!Resuming, Mail!Working
<1>20. ASSUME NEW h \in Handler, NEW d \in Domain, Mail!Add(h, d)
      PROVE  InPeriod'
    BY <1>20 DEF Mail!Add, Mail!Goto, InPeriod, Mail!Usable, Mail!Lapsed, Mail!TypeOK,
       Mail!Patient, Mail!Resuming, Mail!Working
<1>21. ASSUME NEW h \in Handler, Mail!Insert(h)
      PROVE  InPeriod'
    BY <1>21 DEF Mail!Insert, Mail!SetRow, Mail!End, Mail!Goto, InPeriod, Mail!Usable,
       Mail!Lapsed, Mail!TypeOK, Mail!Patient, Mail!Resuming, Mail!Working
<1>22. ASSUME NEW h \in Handler, NEW d \in Domain, Mail!Delete(h, d)
      PROVE  InPeriod'
    BY <1>22 DEF Mail!Delete, Mail!Reached, Mail!Goto, Mail!HasRow, InPeriod, Mail!Usable,
       Mail!Lapsed, Mail!TypeOK, Mail!Patient, Mail!Resuming, Mail!Working
<1>23. ASSUME NEW h \in Handler, Mail!Erase(h)
      PROVE  InPeriod'
    BY <1>23 DEF Mail!Erase, Mail!SetRow, Mail!End, Mail!Goto, InPeriod, Mail!Usable,
       Mail!Lapsed, Mail!TypeOK, Mail!Patient, Mail!Resuming, Mail!Working
<1>24. ASSUME NEW h \in Handler, NEW d \in Domain, Mail!Verify(h, d)
      PROVE  InPeriod'
    BY <1>24 DEF Mail!Verify, Mail!Goto, Mail!HasRow, InPeriod, Mail!Usable, Mail!Lapsed,
       Mail!TypeOK, Mail!Patient, Mail!Resuming, Mail!Working
<1>25. ASSUME NEW h \in Handler, Mail!Verified(h)
      PROVE  InPeriod'
    BY <1>25 DEF Mail!Verified, Mail!SetRow, Mail!End, Mail!Goto, Mail!HasRow, InPeriod,
       Mail!Usable, Mail!Lapsed, Mail!TypeOK, Mail!Patient, Mail!Resuming, Mail!Working
<1>26. ASSUME NEW h \in Handler, Mail!Cancel(h)
      PROVE  InPeriod'
    BY <1>26 DEF Mail!Cancel, Mail!Begin, Mail!Goto, Mail!HasRow, InPeriod, Mail!Usable,
       Mail!Lapsed, Mail!TypeOK, Mail!Patient, Mail!Resuming, Mail!Working
<1>27. ASSUME NEW h \in Handler, NEW d \in Domain, Mail!CancelDomain(h, d)
      PROVE  InPeriod'
    BY <1>27 DEF Mail!CancelDomain, Mail!Pick, Mail!End, Mail!Goto, Mail!Reached, Mail!Missed,
       InPeriod, Mail!Usable, Mail!Lapsed, Mail!TypeOK, Mail!Patient, Mail!Resuming,
       Mail!Working
<1>28. ASSUME NEW h \in Handler, Mail!CancelSubscription(h)
      PROVE  InPeriod'
    BY <1>28 DEF Mail!CancelSubscription, Mail!End, Mail!Goto, Mail!HasRow, InPeriod, Mail!Usable,
         Mail!Lapsed, Mail!TypeOK, Mail!Patient, Mail!Resuming, Mail!Working
<1>29. ASSUME NEW h \in Handler, Mail!Crash(h)
      PROVE  InPeriod'
    BY <1>29 DEF Mail!Crash, Mail!End, Mail!Goto, Mail!Working, Mail!Resuming, InPeriod,
       Mail!Usable, Mail!Lapsed, Mail!TypeOK, Mail!Patient
<1>30. CASE UNCHANGED Mail!vars
  BY <1>30 DEF Mail!vars, InPeriod, Mail!Usable, Mail!Lapsed, Mail!TypeOK, Mail!Patient,
     Mail!Resuming, Mail!Working
<1> QED
  BY <1>1, <1>2, <1>3, <1>4, <1>5, <1>6, <1>7, <1>8, <1>9, <1>10, <1>11,
     <1>12, <1>13, <1>14, <1>15, <1>16, <1>17, <1>18, <1>19, <1>20, <1>21,
     <1>22, <1>23, <1>24, <1>25, <1>26, <1>27, <1>28, <1>29, <1>30 DEF Mail!Next,
     Mail!HandlerStep, Mail!DomainStep

(* A job that finds nothing to mark while the subscription is expired has  *)
(* seen its domain deleted.                                                *)
Unmarked == sub # "deleted" => \A h \in Handler :
    mailPc[h] = "renewed" /\ Mail!Lapsed => domain[mailOn[h]] = "gone"

Suspending(d) ==
    \E g \in Handler : mailPc[g] \in {"mark", "renewed", "compensate"} /\ mailOn[g] = d
Reopening(d) ==
    \E g \in Handler : mailPc[g] \in {"reopen", "keep"} /\ mailOn[g] = d

(* Whatever is down and not marked, or about to lose its mark, is in the   *)
(* hands of a job that will mark it or resume it.                          *)
InHand == sub # "deleted" => \A d \in Domain :
    upstream[d] = "down" /\ (domain[d] = "open" \/ Reopening(d)) => Suspending(d)

NotVerified == \A h \in Handler : mailPc[h] # "verify"

Followed == Unmarked /\ InHand /\ NotVerified

LEMMA FollowedStep ==
    ASSUME Mail!MailDomainsConstants, "refuse" \notin MailFaults, "unheard" \notin MailFaults,
           "crash" \notin MailFaults, "late" \notin MailFaults, "verify" \notin MailFaults,
           MailKnown, InPeriod, Followed, [Mail!Next]_(Mail!vars)
    PROVE  Followed'
<1>1. ASSUME Mail!Expire
      PROVE  Followed'
    BY <1>1 DEF Mail!Expire, Mail!Patient, Followed, InPeriod, Unmarked, InHand,
         NotVerified, Suspending, Reopening, Mail!Usable, Mail!Lapsed, Mail!HasRow, MailKnown,
         AddedIsKnown, AddsAlone, Mail!TypeOK, Mail!Resuming, Mail!Working
<1>2. ASSUME Mail!MarkExpired
      PROVE  Followed'
    BY <1>2 DEF Mail!MarkExpired, Followed, InPeriod, Unmarked, InHand,
         NotVerified, Suspending, Reopening, Mail!Usable, Mail!Lapsed, Mail!HasRow, MailKnown,
         AddedIsKnown, AddsAlone, Mail!TypeOK, Mail!Patient, Mail!Resuming, Mail!Working
<1>3. ASSUME Mail!AutoRenew
      PROVE  Followed'
    BY <1>3 DEF Mail!AutoRenew, Followed, InPeriod, Unmarked, InHand, NotVerified,
         Suspending, Reopening, Mail!Usable, Mail!Lapsed, Mail!HasRow, MailKnown, AddedIsKnown,
         AddsAlone, Mail!TypeOK, Mail!Patient, Mail!Resuming, Mail!Working
<1>4. ASSUME NEW h \in Handler, Mail!Renew(h)
      PROVE  Followed'
    BY <1>4 DEF Mail!Renew, Mail!Goto, Followed, InPeriod, Unmarked, InHand,
         NotVerified, Suspending, Reopening, Mail!Usable, Mail!Lapsed, Mail!HasRow, MailKnown,
         AddedIsKnown, AddsAlone, Mail!TypeOK, Mail!Patient, Mail!Resuming, Mail!Working
<1>5. ASSUME NEW h \in Handler, Mail!FindLapsed(h)
      PROVE  Followed'
    BY <1>5 DEF Mail!FindLapsed, Mail!Begin, Mail!Goto, Followed, InPeriod, Unmarked, InHand,
         NotVerified, Suspending, Reopening, Mail!Usable, Mail!Lapsed, Mail!HasRow, MailKnown,
         AddedIsKnown, AddsAlone, Mail!TypeOK, Mail!Patient, Mail!Resuming, Mail!Working
<1>6. ASSUME NEW h \in Handler, Mail!Recheck(h)
      PROVE  Followed'
    BY <1>6 DEF Mail!Recheck, Mail!Begin, Mail!Goto, Mail!Pick, Followed, InPeriod, Unmarked,
       InHand, NotVerified, Suspending, Reopening, Mail!Usable, Mail!Lapsed, Mail!HasRow,
       MailKnown, AddedIsKnown, AddsAlone, Mail!TypeOK, Mail!Patient, Mail!Resuming,
       Mail!Working
<1>7. ASSUME NEW h \in Handler, Mail!SuspendDone(h)
      PROVE  Followed'
    BY <1>7 DEF Mail!SuspendDone, Mail!Goto, Followed, InPeriod, Unmarked, InHand,
         NotVerified, Suspending, Reopening, Mail!Usable, Mail!Lapsed, Mail!HasRow, MailKnown,
         AddedIsKnown, AddsAlone, Mail!TypeOK, Mail!Patient, Mail!Resuming, Mail!Working
<1>8. ASSUME NEW h \in Handler, Mail!SuspendDomain(h)
      PROVE  Followed'
    BY <1>8 DEF Mail!SuspendDomain, Mail!Goto, Mail!Reached, Mail!Missed, Followed, InPeriod,
       Unmarked, InHand, NotVerified, Suspending, Reopening, Mail!Usable, Mail!Lapsed,
       Mail!HasRow, MailKnown, AddedIsKnown, AddsAlone, Mail!TypeOK, Mail!Patient,
       Mail!Resuming, Mail!Working
<1>9. ASSUME NEW h \in Handler, Mail!Mark(h)
      PROVE  Followed'
    BY <1>9 DEF Mail!Mark, Mail!Goto, Mail!SetRow, Mail!HasRow, Followed, InPeriod, Unmarked,
         InHand, NotVerified, Suspending, Reopening, Mail!Usable, Mail!Lapsed, MailKnown,
         AddedIsKnown, AddsAlone, Mail!TypeOK, Mail!Patient, Mail!Resuming, Mail!Working
<1>10. ASSUME NEW h \in Handler, Mail!Renewed(h)
      PROVE  Followed'
    BY <1>10 DEF Mail!Renewed, Mail!Goto, Followed, InPeriod, Unmarked, InHand,
         NotVerified, Suspending, Reopening, Mail!Usable, Mail!Lapsed, Mail!HasRow, MailKnown,
         AddedIsKnown, AddsAlone, Mail!TypeOK, Mail!Patient, Mail!Resuming, Mail!Working
<1>11. ASSUME NEW h \in Handler, Mail!Compensate(h)
      PROVE  Followed'
    BY <1>11 DEF Mail!Compensate, Mail!ResumeDomain, Mail!Goto, Mail!Reached, Mail!Missed,
       Followed, InPeriod, Unmarked, InHand, NotVerified, Suspending, Reopening, Mail!Usable,
       Mail!Lapsed, Mail!HasRow, MailKnown, AddedIsKnown, AddsAlone, Mail!TypeOK, Mail!Patient,
       Mail!Resuming, Mail!Working
<1>12. ASSUME NEW h \in Handler, Mail!Reopen(h)
      PROVE  Followed'
    BY <1>12 DEF Mail!Reopen, Mail!Goto, Mail!SetRow, Mail!HasRow, Followed, InPeriod, Unmarked,
         InHand, NotVerified, Suspending, Reopening, Mail!Usable, Mail!Lapsed, MailKnown,
         AddedIsKnown, AddsAlone, Mail!TypeOK, Mail!Patient, Mail!Resuming, Mail!Working
<1>13. ASSUME NEW h \in Handler, Mail!Hold(h)
      PROVE  Followed'
    BY <1>13 DEF Mail!Hold, Mail!Goto, Mail!SetRow, Mail!HasRow, Followed, InPeriod, Unmarked,
         InHand, NotVerified, Suspending, Reopening, Mail!Usable, Mail!Lapsed, MailKnown,
         AddedIsKnown, AddsAlone, Mail!TypeOK, Mail!Patient, Mail!Resuming, Mail!Working
<1>14. ASSUME NEW h \in Handler, Mail!FindSuspended(h)
      PROVE  Followed'
    BY <1>14 DEF Mail!FindSuspended, Mail!Begin, Mail!End, Mail!Goto, Followed, InPeriod,
       Unmarked, InHand, NotVerified, Suspending, Reopening, Mail!Usable, Mail!Lapsed,
       Mail!HasRow, MailKnown, AddedIsKnown, AddsAlone, Mail!TypeOK, Mail!Patient,
       Mail!Resuming, Mail!Working
<1>15. ASSUME NEW h \in Handler, NEW d \in Domain, Mail!ResumeSuspended(h, d)
      PROVE  Followed'
    BY <1>15 DEF Mail!ResumeSuspended, Mail!Pick, Mail!Goto, Mail!Reached, Mail!Missed, Followed,
         InPeriod, Unmarked, InHand, NotVerified, Suspending, Reopening,
         Mail!Usable, Mail!Lapsed, Mail!HasRow, MailKnown, AddedIsKnown, AddsAlone, Mail!TypeOK,
         Mail!Patient, Mail!Resuming, Mail!Working
<1>16. ASSUME NEW h \in Handler, Mail!Keep(h)
      PROVE  Followed'
    BY <1>16 DEF Mail!Keep, Mail!Goto, Mail!SetRow, Followed, InPeriod, Unmarked, InHand,
         NotVerified, Suspending, Reopening, Mail!Usable, Mail!Lapsed, Mail!HasRow, MailKnown,
         AddedIsKnown, AddsAlone, Mail!TypeOK, Mail!Patient, Mail!Resuming, Mail!Working
<1>17. ASSUME NEW h \in Handler, Mail!FindRevived(h)
      PROVE  Followed'
    BY <1>17 DEF Mail!FindRevived, Mail!Begin, Mail!End, Mail!Goto, Mail!HasRow, Followed,
       InPeriod, Unmarked, InHand, NotVerified, Suspending, Reopening, Mail!Usable, Mail!Lapsed,
       MailKnown, AddedIsKnown, AddsAlone, Mail!TypeOK, Mail!Patient, Mail!Resuming,
       Mail!Working
<1>18. ASSUME NEW h \in Handler, NEW d \in Domain, Mail!ResumeRevived(h, d)
      PROVE  Followed'
    BY <1>18 DEF Mail!ResumeRevived, Mail!Pick, Mail!ResumeDomain, Mail!Goto, Mail!Reached,
       Mail!Missed, Followed, InPeriod, Unmarked, InHand, NotVerified, Suspending, Reopening,
       Mail!Usable, Mail!Lapsed, Mail!HasRow, MailKnown, AddedIsKnown, AddsAlone, Mail!TypeOK,
       Mail!Patient, Mail!Resuming, Mail!Working
<1>19. ASSUME NEW h \in Handler, Mail!Done(h)
      PROVE  Followed'
    BY <1>19 DEF Mail!Done, Mail!End, Mail!Goto, Followed, InPeriod, Unmarked, InHand,
         NotVerified, Suspending, Reopening, Mail!Usable, Mail!Lapsed, Mail!HasRow, MailKnown,
         AddedIsKnown, AddsAlone, Mail!TypeOK, Mail!Patient, Mail!Resuming, Mail!Working
<1>20. ASSUME NEW h \in Handler, NEW d \in Domain, Mail!Add(h, d)
      PROVE  Followed'
    BY <1>20 DEF Mail!Add, Mail!Goto, Followed, InPeriod, Unmarked, InHand, NotVerified,
         Suspending, Reopening, Mail!Usable, Mail!Lapsed, Mail!HasRow, MailKnown, AddedIsKnown,
         AddsAlone, Mail!TypeOK, Mail!Patient, Mail!Resuming, Mail!Working
<1>21. ASSUME NEW h \in Handler, Mail!Insert(h)
      PROVE  Followed'
    BY <1>21 DEF Mail!Insert, Mail!SetRow, Mail!End, Mail!Goto, Followed, InPeriod, Unmarked,
       InHand, NotVerified, Suspending, Reopening, Mail!Usable, Mail!Lapsed, Mail!HasRow,
       MailKnown, AddedIsKnown, AddsAlone, Mail!TypeOK, Mail!Patient, Mail!Resuming,
       Mail!Working
<1>22. ASSUME NEW h \in Handler, NEW d \in Domain, Mail!Delete(h, d)
      PROVE  Followed'
    BY <1>22 DEF Mail!Delete, Mail!Reached, Mail!Goto, Mail!HasRow, Followed, InPeriod, Unmarked,
         InHand, NotVerified, Suspending, Reopening, Mail!Usable, Mail!Lapsed, MailKnown,
         AddedIsKnown, AddsAlone, Mail!TypeOK, Mail!Patient, Mail!Resuming, Mail!Working
<1>23. ASSUME NEW h \in Handler, Mail!Erase(h)
      PROVE  Followed'
    BY <1>23 DEF Mail!Erase, Mail!SetRow, Mail!End, Mail!Goto, Followed, InPeriod, Unmarked,
       InHand, NotVerified, Suspending, Reopening, Mail!Usable, Mail!Lapsed, Mail!HasRow,
       MailKnown, AddedIsKnown, AddsAlone, Mail!TypeOK, Mail!Patient, Mail!Resuming,
       Mail!Working
<1>24. ASSUME NEW h \in Handler, NEW d \in Domain, Mail!Verify(h, d)
      PROVE  Followed'
    BY <1>24 DEF Mail!Verify, Mail!Goto, Mail!HasRow, Followed, InPeriod, Unmarked, InHand,
         NotVerified, Suspending, Reopening, Mail!Usable, Mail!Lapsed, MailKnown,
         AddedIsKnown, AddsAlone, Mail!TypeOK, Mail!Patient, Mail!Resuming, Mail!Working
<1>25. ASSUME NEW h \in Handler, Mail!Verified(h)
      PROVE  Followed'
    BY <1>25 DEF Mail!Verified, Mail!SetRow, Mail!End, Mail!Goto, Mail!HasRow, Followed,
       InPeriod, Unmarked, InHand, NotVerified, Suspending, Reopening, Mail!Usable, Mail!Lapsed,
       MailKnown, AddedIsKnown, AddsAlone, Mail!TypeOK, Mail!Patient, Mail!Resuming,
       Mail!Working
<1>26. ASSUME NEW h \in Handler, Mail!Cancel(h)
      PROVE  Followed'
    BY <1>26 DEF Mail!Cancel, Mail!Begin, Mail!Goto, Mail!HasRow, Followed, InPeriod, Unmarked,
         InHand, NotVerified, Suspending, Reopening, Mail!Usable, Mail!Lapsed, MailKnown,
         AddedIsKnown, AddsAlone, Mail!TypeOK, Mail!Patient, Mail!Resuming, Mail!Working
<1>27. ASSUME NEW h \in Handler, NEW d \in Domain, Mail!CancelDomain(h, d)
      PROVE  Followed'
    BY <1>27 DEF Mail!CancelDomain, Mail!Pick, Mail!End, Mail!Goto, Mail!Reached, Mail!Missed,
       Followed, InPeriod, Unmarked, InHand, NotVerified, Suspending, Reopening, Mail!Usable,
       Mail!Lapsed, Mail!HasRow, MailKnown, AddedIsKnown, AddsAlone, Mail!TypeOK, Mail!Patient,
       Mail!Resuming, Mail!Working
<1>28. ASSUME NEW h \in Handler, Mail!CancelSubscription(h)
      PROVE  Followed'
    BY <1>28 DEF Mail!CancelSubscription, Mail!End, Mail!Goto, Mail!HasRow, Followed, InPeriod,
       Unmarked, InHand, NotVerified, Suspending, Reopening, Mail!Usable, Mail!Lapsed,
       MailKnown, AddedIsKnown, AddsAlone, Mail!TypeOK, Mail!Patient, Mail!Resuming,
       Mail!Working
<1>29. ASSUME NEW h \in Handler, Mail!Crash(h)
      PROVE  Followed'
    BY <1>29 DEF Mail!Crash, Mail!End, Mail!Goto, Mail!Working, Mail!Resuming, Followed, InPeriod,
         Unmarked, InHand, NotVerified, Suspending, Reopening, Mail!Usable, Mail!Lapsed,
         Mail!HasRow, MailKnown, AddedIsKnown, AddsAlone, Mail!TypeOK, Mail!Patient
<1>30. CASE UNCHANGED Mail!vars
  BY <1>30 DEF Mail!vars, Followed, InPeriod, Unmarked, InHand, NotVerified,
         Suspending, Reopening, Mail!Usable, Mail!Lapsed, Mail!HasRow, MailKnown, AddedIsKnown,
         AddsAlone, Mail!TypeOK, Mail!Patient, Mail!Resuming, Mail!Working
<1> QED
  BY <1>1, <1>2, <1>3, <1>4, <1>5, <1>6, <1>7, <1>8, <1>9, <1>10, <1>11,
     <1>12, <1>13, <1>14, <1>15, <1>16, <1>17, <1>18, <1>19, <1>20, <1>21,
     <1>22, <1>23, <1>24, <1>25, <1>26, <1>27, <1>28, <1>29, <1>30 DEF Mail!Next,
     Mail!HandlerStep, Mail!DomainStep

(* A domain that is paid for and suspended at the provider is marked for   *)
(* the next job, if the provider obeys and is heard, no job dies, and      *)
(* nothing expires or is verified while it is resumed; renewals may be     *)
(* lost, transactions fail and subscriptions be cancelled.                 *)
THEOREM PaidIsMarkedAlways ==
    ASSUME Mail!MailDomainsConstants, "refuse" \notin MailFaults, "unheard" \notin MailFaults,
           "crash" \notin MailFaults, "late" \notin MailFaults, "verify" \notin MailFaults
    PROVE  Mail!Spec => []Mail!PaidIsMarked
<1> SUFFICES ASSUME Mail!MailDomainsConstants, "refuse" \notin MailFaults,
                    "unheard" \notin MailFaults,
                    "crash" \notin MailFaults, "late" \notin MailFaults,
                         "verify" \notin MailFaults
             PROVE  Mail!Spec => []Mail!PaidIsMarked
  OBVIOUS
<1>1. Mail!Init => MailKnown /\ InPeriod /\ Followed
  BY MailInitTyped DEF Mail!Init, MailKnown, AddedIsKnown, AddsAlone, ErasesLast, Followed,
     InPeriod, Unmarked, InHand, NotVerified
<1>2. MailKnown /\ InPeriod /\ Followed /\ [Mail!Next]_(Mail!vars)
     => (MailKnown /\ InPeriod /\ Followed)'
  BY MailKnownStep, InPeriodStep, FollowedStep DEF MailKnown
<1>3. Followed => Mail!PaidIsMarked
  BY DEF Followed, InHand, Suspending, Mail!PaidIsMarked, Mail!AtWork, Mail!Usable
<1> QED BY <1>1, <1>2, <1>3, PTL DEF Mail!Spec

-----------------------------------------------------------------------------
(* What is marked and not paid for is suspended.                           *)

(* A renewal that has still to look at a domain.                           *)
Reviving(d) == \E h \in Handler :
    \/ mailPc[h] = "revived"
    \/ mailPc[h] = "renewal" /\ d \in mailLeft[h]
    \/ mailPc[h] \in {"reopen", "hold"} /\ mailLoop[h] = "renewal"
         /\ (mailOn[h] = d \/ d \in mailLeft[h])

MarkedIsDown == \A d \in Domain : domain[d] = "suspended" =>
    /\ sub = "active" => Reviving(d) \/ upstream[d] = "none"
    /\ sub = "expired" => upstream[d] # "up"

MarksWhatIsDown == \A h \in Handler :
    mailPc[h] = "mark" /\ sub = "expired" => upstream[mailOn[h]] # "up"

HoldsWhatIsGone == \A h \in Handler :
    /\ mailPc[h] = "hold" => upstream[mailOn[h]] = "none"
    /\ mailPc[h] = "renewal" => mailLoop[h] = "renewal"

Down == MarkedIsDown /\ MarksWhatIsDown /\ HoldsWhatIsGone

LEMMA DownStep ==
    ASSUME Mail!MailDomainsConstants, "refuse" \notin MailFaults, "unheard" \notin MailFaults,
           "lost" \notin MailFaults, "late" \notin MailFaults,
           MailKnown, InPeriod, Down, [Mail!Next]_(Mail!vars)
    PROVE  Down'
<1>1. ASSUME Mail!Expire
      PROVE  Down'
    BY <1>1 DEF Mail!Expire, Mail!Patient, Down, MarkedIsDown, MarksWhatIsDown,
         HoldsWhatIsGone, Reviving, InPeriod, Mail!Usable, Mail!Lapsed, Mail!HasRow, MailKnown,
         AddedIsKnown, AddsAlone, Mail!TypeOK, Mail!Resuming, Mail!Working
<1>2. ASSUME Mail!MarkExpired
      PROVE  Down'
    BY <1>2 DEF Mail!MarkExpired, Down, MarkedIsDown, MarksWhatIsDown,
         HoldsWhatIsGone, Reviving, InPeriod, Mail!Usable, Mail!Lapsed, Mail!HasRow, MailKnown,
         AddedIsKnown, AddsAlone, Mail!TypeOK, Mail!Patient, Mail!Resuming, Mail!Working
<1>3. ASSUME Mail!AutoRenew
      PROVE  Down'
    BY <1>3 DEF Mail!AutoRenew, Down, MarkedIsDown, MarksWhatIsDown,
         HoldsWhatIsGone, Reviving, InPeriod, Mail!Usable, Mail!Lapsed, Mail!HasRow, MailKnown,
         AddedIsKnown, AddsAlone, Mail!TypeOK, Mail!Patient, Mail!Resuming, Mail!Working
<1>4. ASSUME NEW h \in Handler, Mail!Renew(h)
      PROVE  Down'
    BY <1>4 DEF Mail!Renew, Mail!Goto, Down, MarkedIsDown, MarksWhatIsDown,
         HoldsWhatIsGone, Reviving, InPeriod, Mail!Usable, Mail!Lapsed, Mail!HasRow, MailKnown,
         AddedIsKnown, AddsAlone, Mail!TypeOK, Mail!Patient, Mail!Resuming, Mail!Working
<1>5. ASSUME NEW h \in Handler, Mail!FindLapsed(h)
      PROVE  Down'
    BY <1>5 DEF Mail!FindLapsed, Mail!Begin, Mail!Goto, Down, MarkedIsDown, MarksWhatIsDown,
         HoldsWhatIsGone, Reviving, InPeriod, Mail!Usable, Mail!Lapsed, Mail!HasRow, MailKnown,
         AddedIsKnown, AddsAlone, Mail!TypeOK, Mail!Patient, Mail!Resuming, Mail!Working
<1>6. ASSUME NEW h \in Handler, Mail!Recheck(h)
      PROVE  Down'
    BY <1>6 DEF Mail!Recheck, Mail!Begin, Mail!Goto, Mail!Pick, Down, MarkedIsDown,
       MarksWhatIsDown, HoldsWhatIsGone, Reviving, InPeriod, Mail!Usable, Mail!Lapsed,
       Mail!HasRow, MailKnown, AddedIsKnown, AddsAlone, Mail!TypeOK, Mail!Patient,
       Mail!Resuming, Mail!Working
<1>7. ASSUME NEW h \in Handler, Mail!SuspendDone(h)
      PROVE  Down'
    BY <1>7 DEF Mail!SuspendDone, Mail!Goto, Down, MarkedIsDown, MarksWhatIsDown,
         HoldsWhatIsGone, Reviving, InPeriod, Mail!Usable, Mail!Lapsed, Mail!HasRow, MailKnown,
         AddedIsKnown, AddsAlone, Mail!TypeOK, Mail!Patient, Mail!Resuming, Mail!Working
<1>8. ASSUME NEW h \in Handler, Mail!SuspendDomain(h)
      PROVE  Down'
    BY <1>8 DEF Mail!SuspendDomain, Mail!Goto, Mail!Reached, Mail!Missed, Down, MarkedIsDown,
       MarksWhatIsDown, HoldsWhatIsGone, Reviving, InPeriod, Mail!Usable, Mail!Lapsed,
       Mail!HasRow, MailKnown, AddedIsKnown, AddsAlone, Mail!TypeOK, Mail!Patient,
       Mail!Resuming, Mail!Working
<1>9. ASSUME NEW h \in Handler, Mail!Mark(h)
      PROVE  Down'
    BY <1>9 DEF Mail!Mark, Mail!Goto, Mail!SetRow, Mail!HasRow, Down, MarkedIsDown,
       MarksWhatIsDown, HoldsWhatIsGone, Reviving, InPeriod, Mail!Usable, Mail!Lapsed,
       MailKnown, AddedIsKnown, AddsAlone, Mail!TypeOK, Mail!Patient, Mail!Resuming,
       Mail!Working
<1>10. ASSUME NEW h \in Handler, Mail!Renewed(h)
      PROVE  Down'
    BY <1>10 DEF Mail!Renewed, Mail!Goto, Down, MarkedIsDown, MarksWhatIsDown,
         HoldsWhatIsGone, Reviving, InPeriod, Mail!Usable, Mail!Lapsed, Mail!HasRow, MailKnown,
         AddedIsKnown, AddsAlone, Mail!TypeOK, Mail!Patient, Mail!Resuming, Mail!Working
<1>11. ASSUME NEW h \in Handler, Mail!Compensate(h)
      PROVE  Down'
    BY <1>11 DEF Mail!Compensate, Mail!ResumeDomain, Mail!Goto, Mail!Reached, Mail!Missed, Down,
         MarkedIsDown, MarksWhatIsDown, HoldsWhatIsGone, Reviving, InPeriod,
         Mail!Usable, Mail!Lapsed, Mail!HasRow, MailKnown, AddedIsKnown, AddsAlone, Mail!TypeOK,
         Mail!Patient, Mail!Resuming, Mail!Working
<1>12. ASSUME NEW h \in Handler, Mail!Reopen(h)
      PROVE  Down'
    BY <1>12 DEF Mail!Reopen, Mail!Goto, Mail!SetRow, Mail!HasRow, Down, MarkedIsDown,
       MarksWhatIsDown, HoldsWhatIsGone, Reviving, InPeriod, Mail!Usable, Mail!Lapsed,
       MailKnown, AddedIsKnown, AddsAlone, Mail!TypeOK, Mail!Patient, Mail!Resuming,
       Mail!Working
<1>13. ASSUME NEW h \in Handler, Mail!Hold(h)
      PROVE  Down'
    BY <1>13 DEF Mail!Hold, Mail!Goto, Mail!SetRow, Mail!HasRow, Down, MarkedIsDown,
       MarksWhatIsDown, HoldsWhatIsGone, Reviving, InPeriod, Mail!Usable, Mail!Lapsed,
       MailKnown, AddedIsKnown, AddsAlone, Mail!TypeOK, Mail!Patient, Mail!Resuming,
       Mail!Working
<1>14. ASSUME NEW h \in Handler, Mail!FindSuspended(h)
      PROVE  Down'
    BY <1>14 DEF Mail!FindSuspended, Mail!Begin, Mail!End, Mail!Goto, Down, MarkedIsDown,
       MarksWhatIsDown, HoldsWhatIsGone, Reviving, InPeriod, Mail!Usable, Mail!Lapsed,
       Mail!HasRow, MailKnown, AddedIsKnown, AddsAlone, Mail!TypeOK, Mail!Patient,
       Mail!Resuming, Mail!Working
<1>15. ASSUME NEW h \in Handler, NEW d \in Domain, Mail!ResumeSuspended(h, d)
      PROVE  Down'
    BY <1>15 DEF Mail!ResumeSuspended, Mail!Pick, Mail!Goto, Mail!Reached, Mail!Missed, Down,
         MarkedIsDown, MarksWhatIsDown, HoldsWhatIsGone, Reviving, InPeriod,
         Mail!Usable, Mail!Lapsed, Mail!HasRow, MailKnown, AddedIsKnown, AddsAlone, Mail!TypeOK,
         Mail!Patient, Mail!Resuming, Mail!Working
<1>16. ASSUME NEW h \in Handler, Mail!Keep(h)
      PROVE  Down'
    BY <1>16 DEF Mail!Keep, Mail!Goto, Mail!SetRow, Down, MarkedIsDown, MarksWhatIsDown,
         HoldsWhatIsGone, Reviving, InPeriod, Mail!Usable, Mail!Lapsed, Mail!HasRow, MailKnown,
         AddedIsKnown, AddsAlone, Mail!TypeOK, Mail!Patient, Mail!Resuming, Mail!Working
<1>17. ASSUME NEW h \in Handler, Mail!FindRevived(h)
      PROVE  Down'
    BY <1>17 DEF Mail!FindRevived, Mail!Begin, Mail!End, Mail!Goto, Mail!HasRow, Down,
       MarkedIsDown, MarksWhatIsDown, HoldsWhatIsGone, Reviving, InPeriod, Mail!Usable,
       Mail!Lapsed, MailKnown, AddedIsKnown, AddsAlone, Mail!TypeOK, Mail!Patient,
       Mail!Resuming, Mail!Working
<1>18. ASSUME NEW h \in Handler, NEW d \in Domain, Mail!ResumeRevived(h, d)
      PROVE  Down'
    BY <1>18 DEF Mail!ResumeRevived, Mail!Pick, Mail!ResumeDomain, Mail!Goto, Mail!Reached,
       Mail!Missed, Down, MarkedIsDown, MarksWhatIsDown, HoldsWhatIsGone, Reviving, InPeriod,
       Mail!Usable, Mail!Lapsed, Mail!HasRow, MailKnown, AddedIsKnown, AddsAlone, Mail!TypeOK,
       Mail!Patient, Mail!Resuming, Mail!Working
<1>19. ASSUME NEW h \in Handler, Mail!Done(h)
      PROVE  Down'
    BY <1>19 DEF Mail!Done, Mail!End, Mail!Goto, Down, MarkedIsDown, MarksWhatIsDown,
         HoldsWhatIsGone, Reviving, InPeriod, Mail!Usable, Mail!Lapsed, Mail!HasRow, MailKnown,
         AddedIsKnown, AddsAlone, Mail!TypeOK, Mail!Patient, Mail!Resuming, Mail!Working
<1>20. ASSUME NEW h \in Handler, NEW d \in Domain, Mail!Add(h, d)
      PROVE  Down'
    BY <1>20 DEF Mail!Add, Mail!Goto, Down, MarkedIsDown, MarksWhatIsDown,
         HoldsWhatIsGone, Reviving, InPeriod, Mail!Usable, Mail!Lapsed, Mail!HasRow, MailKnown,
         AddedIsKnown, AddsAlone, Mail!TypeOK, Mail!Patient, Mail!Resuming, Mail!Working
<1>21. ASSUME NEW h \in Handler, Mail!Insert(h)
      PROVE  Down'
    BY <1>21 DEF Mail!Insert, Mail!SetRow, Mail!End, Mail!Goto, Down, MarkedIsDown,
       MarksWhatIsDown, HoldsWhatIsGone, Reviving, InPeriod, Mail!Usable, Mail!Lapsed,
       Mail!HasRow, MailKnown, AddedIsKnown, AddsAlone, Mail!TypeOK, Mail!Patient,
       Mail!Resuming, Mail!Working
<1>22. ASSUME NEW h \in Handler, NEW d \in Domain, Mail!Delete(h, d)
      PROVE  Down'
    BY <1>22 DEF Mail!Delete, Mail!Reached, Mail!Goto, Mail!HasRow, Down, MarkedIsDown,
       MarksWhatIsDown, HoldsWhatIsGone, Reviving, InPeriod, Mail!Usable, Mail!Lapsed,
       MailKnown, AddedIsKnown, AddsAlone, Mail!TypeOK, Mail!Patient, Mail!Resuming,
       Mail!Working
<1>23. ASSUME NEW h \in Handler, Mail!Erase(h)
      PROVE  Down'
    BY <1>23 DEF Mail!Erase, Mail!SetRow, Mail!End, Mail!Goto, Down, MarkedIsDown,
       MarksWhatIsDown, HoldsWhatIsGone, Reviving, InPeriod, Mail!Usable, Mail!Lapsed,
       Mail!HasRow, MailKnown, AddedIsKnown, AddsAlone, Mail!TypeOK, Mail!Patient,
       Mail!Resuming, Mail!Working
<1>24. ASSUME NEW h \in Handler, NEW d \in Domain, Mail!Verify(h, d)
      PROVE  Down'
    BY <1>24 DEF Mail!Verify, Mail!Goto, Mail!HasRow, Down, MarkedIsDown, MarksWhatIsDown,
         HoldsWhatIsGone, Reviving, InPeriod, Mail!Usable, Mail!Lapsed, MailKnown,
         AddedIsKnown, AddsAlone, Mail!TypeOK, Mail!Patient, Mail!Resuming, Mail!Working
<1>25. ASSUME NEW h \in Handler, Mail!Verified(h)
      PROVE  Down'
    BY <1>25 DEF Mail!Verified, Mail!SetRow, Mail!End, Mail!Goto, Mail!HasRow, Down,
       MarkedIsDown, MarksWhatIsDown, HoldsWhatIsGone, Reviving, InPeriod, Mail!Usable,
       Mail!Lapsed, MailKnown, AddedIsKnown, AddsAlone, Mail!TypeOK, Mail!Patient,
       Mail!Resuming, Mail!Working
<1>26. ASSUME NEW h \in Handler, Mail!Cancel(h)
      PROVE  Down'
    BY <1>26 DEF Mail!Cancel, Mail!Begin, Mail!Goto, Mail!HasRow, Down, MarkedIsDown,
       MarksWhatIsDown, HoldsWhatIsGone, Reviving, InPeriod, Mail!Usable, Mail!Lapsed,
       MailKnown, AddedIsKnown, AddsAlone, Mail!TypeOK, Mail!Patient, Mail!Resuming,
       Mail!Working
<1>27. ASSUME NEW h \in Handler, NEW d \in Domain, Mail!CancelDomain(h, d)
      PROVE  Down'
    BY <1>27 DEF Mail!CancelDomain, Mail!Pick, Mail!End, Mail!Goto, Mail!Reached, Mail!Missed,
       Down, MarkedIsDown, MarksWhatIsDown, HoldsWhatIsGone, Reviving, InPeriod, Mail!Usable,
       Mail!Lapsed, Mail!HasRow, MailKnown, AddedIsKnown, AddsAlone, Mail!TypeOK, Mail!Patient,
       Mail!Resuming, Mail!Working
<1>28. ASSUME NEW h \in Handler, Mail!CancelSubscription(h)
      PROVE  Down'
    BY <1>28 DEF Mail!CancelSubscription, Mail!End, Mail!Goto, Mail!HasRow, Down, MarkedIsDown,
       MarksWhatIsDown, HoldsWhatIsGone, Reviving, InPeriod, Mail!Usable, Mail!Lapsed,
       MailKnown, AddedIsKnown, AddsAlone, Mail!TypeOK, Mail!Patient, Mail!Resuming,
       Mail!Working
<1>29. ASSUME NEW h \in Handler, Mail!Crash(h)
      PROVE  Down'
    BY <1>29 DEF Mail!Crash, Mail!End, Mail!Goto, Mail!Working, Mail!Resuming, Down, MarkedIsDown,
         MarksWhatIsDown, HoldsWhatIsGone, Reviving, InPeriod, Mail!Usable, Mail!Lapsed,
         Mail!HasRow, MailKnown, AddedIsKnown, AddsAlone, Mail!TypeOK, Mail!Patient
<1>30. CASE UNCHANGED Mail!vars
  BY <1>30 DEF Mail!vars, Down, MarkedIsDown, MarksWhatIsDown, HoldsWhatIsGone,
         Reviving, InPeriod, Mail!Usable, Mail!Lapsed, Mail!HasRow, MailKnown, AddedIsKnown,
         AddsAlone, Mail!TypeOK, Mail!Patient, Mail!Resuming, Mail!Working
<1> QED
  BY <1>1, <1>2, <1>3, <1>4, <1>5, <1>6, <1>7, <1>8, <1>9, <1>10, <1>11,
     <1>12, <1>13, <1>14, <1>15, <1>16, <1>17, <1>18, <1>19, <1>20, <1>21,
     <1>22, <1>23, <1>24, <1>25, <1>26, <1>27, <1>28, <1>29, <1>30 DEF Mail!Next,
     Mail!HandlerStep, Mail!DomainStep

(* A domain that is marked and not paid for is suspended at the provider,  *)
(* if the provider obeys and is heard, no renewal is lost, and nothing     *)
(* expires while it is resumed; jobs may die and domains be verified.      *)
THEOREM UnpaidIsSuspendedAlways ==
    ASSUME Mail!MailDomainsConstants, "refuse" \notin MailFaults, "unheard" \notin MailFaults,
           "lost" \notin MailFaults, "late" \notin MailFaults
    PROVE  Mail!Spec => []Mail!UnpaidIsSuspended
<1> SUFFICES ASSUME Mail!MailDomainsConstants, "refuse" \notin MailFaults,
                    "unheard" \notin MailFaults,
                    "lost" \notin MailFaults, "late" \notin MailFaults
             PROVE  Mail!Spec => []Mail!UnpaidIsSuspended
  OBVIOUS
<1>1. Mail!Init => MailKnown /\ InPeriod /\ Down
  BY MailInitTyped DEF Mail!Init, MailKnown, AddedIsKnown, AddsAlone, ErasesLast, InPeriod,
         Down, MarkedIsDown, MarksWhatIsDown, HoldsWhatIsGone
<1>2. MailKnown /\ InPeriod /\ Down /\ [Mail!Next]_(Mail!vars) => (MailKnown /\ InPeriod /\ Down)'
  BY MailKnownStep, InPeriodStep, DownStep DEF MailKnown
<1>3. Down => Mail!UnpaidIsSuspended
  BY DEF Down, MarkedIsDown, Mail!UnpaidIsSuspended, Mail!Lapsed
<1> QED BY <1>1, <1>2, <1>3, PTL DEF Mail!Spec

=============================================================================
