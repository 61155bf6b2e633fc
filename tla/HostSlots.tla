----------------------------- MODULE HostSlots -----------------------------
(***************************************************************************)
(* What the three task queues promise for one host: its work slot is held  *)
(* either by any number of light jobs or by one exclusive job, and a job   *)
(* that has given the slot back may only get it again through Acquire.     *)
(*                                                                         *)
(* This is the abstract specification HostTaskQueue implements; it knows   *)
(* nothing of tables, nodes or time.                                       *)
(***************************************************************************)
EXTENDS FiniteSets

CONSTANTS Host,     \* the hosts
          Job       \* the identities of jobs

VARIABLES light,    \* light[h]: the light jobs that hold a share of host h
          exclusive \* exclusive[h]: the exclusive jobs that hold host h

slots == <<light, exclusive>>

Init ==
    /\ light = [h \in Host |-> {}]
    /\ exclusive = [h \in Host |-> {}]

(* A light job joins the light jobs of h; no exclusive job may hold h.     *)
AcquireLight(h, j) ==
    /\ exclusive[h] = {}
    /\ light' = [light EXCEPT ![h] = @ \cup {j}]
    /\ UNCHANGED exclusive

(* An exclusive job takes h; nothing may hold h.                           *)
AcquireExclusive(h, j) ==
    /\ light[h] = {}
    /\ exclusive[h] = {}
    /\ exclusive' = [exclusive EXCEPT ![h] = {j}]
    /\ UNCHANGED light

(* Any jobs, of any hosts, give their slots back: a job ended, or a sweep  *)
(* declared several of them dead at once.                                  *)
Release(gone) ==
    /\ gone # {}
    /\ light' = [h \in Host |-> light[h] \ gone]
    /\ exclusive' = [h \in Host |-> exclusive[h] \ gone]

Next ==
    \/ \E h \in Host, j \in Job : AcquireLight(h, j) \/ AcquireExclusive(h, j)
    \/ \E gone \in SUBSET Job : Release(gone)

Spec == Init /\ [][Next]_slots

(* A host never works for two jobs unless both are light.                  *)
SlotExclusive ==
    \A h \in Host :
        /\ exclusive[h] # {} => light[h] = {}
        /\ \A j, k \in exclusive[h] : j = k
=============================================================================
