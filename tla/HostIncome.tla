----------------------------- MODULE HostIncome -----------------------------
(***************************************************************************)
(* What the owners of hosts earn: each payment for an instance on their    *)
(* hosts is a row that stays frozen for 30 days, then an hourly job on     *)
(* every process releases it to their available balance.  Meanwhile refunds*)
(* of the instances are deducted, administrators adjust, and withdrawals   *)
(* are asked for, approved and rejected.                                   *)
(*                                                                         *)
(* Every operation but the job is one transaction under the lock of the    *)
(* owner, which is tried and not waited for.  The job looks for the rows   *)
(* that are due, reads their amounts, and only then takes the locks.       *)
(***************************************************************************)
EXTENDS Integers, FiniteSetsExt, Functions

CONSTANTS Owner,        \* of hosts, not administrators
          Instance,
          HostedBy,     \* the owner of the host of each instance
          Process,      \* each runs the job
          MaxRows, MaxWithdrawals, MaxAmount, MaxNet, \* bounds
          Fee,          \* kept of what goes to the panel balance
          ShrinkRead    \* a row may shrink after a job has read it

Row == 1 .. MaxRows                  \* in the order of creation
Withdrawal == 1 .. MaxWithdrawals
Amount == 1 .. MaxAmount

HostIncomeConstants ==
    /\ HostedBy \in [Instance -> Owner]
    /\ MaxRows \in Nat
    /\ MaxWithdrawals \in Nat
    /\ MaxAmount \in Nat
    /\ MaxNet \in Int
    /\ Fee \in Nat
    /\ ShrinkRead \in BOOLEAN

VARIABLES
    rowState,                  \* none, frozen, released or deleted
    holder, about, purchase,   \* its owner, instance and type
    amount, due,
    available,                 \* hostingBalance of the owners
    panel,                     \* their balance for purchases
    paid,                      \* for each instance, less what was paid back
    asked, askedOf, withdrawn, \* amount, owner and status of withdrawals
    left,                      \* history: the money of the withdrawal has left
    job, ids, read,            \* the job of each process, the rows it found,
                               \* the amounts it read
    earned, credited, offset,  \* history: of each row, what it brought, what
                               \* was released and what was deducted
    net                        \* history: what each owner has a right to

rows == <<rowState, holder, about, purchase, amount, due>>
withdrawals == <<asked, askedOf, withdrawn, left>>
jobs == <<job, ids, read>>
rowHistory == <<earned, credited, offset>>
vars == <<rows, available, panel, paid, withdrawals, jobs, rowHistory, net>>

NoOwner == "none"

Init ==
    /\ rowState = [r \in Row |-> "none"]
    /\ holder = [r \in Row |-> NoOwner]
    /\ about = [r \in Row |-> NoOwner]
    /\ purchase = [r \in Row |-> FALSE]
    /\ amount = [r \in Row |-> 0]
    /\ due = [r \in Row |-> FALSE]
    /\ available = [o \in Owner |-> 0]
    /\ panel = [o \in Owner |-> 1]
    /\ paid = [i \in Instance |-> 0]
    /\ asked = [w \in Withdrawal |-> 0]
    /\ askedOf = [w \in Withdrawal |-> NoOwner]
    /\ withdrawn = [w \in Withdrawal |-> "none"]
    /\ left = [w \in Withdrawal |-> FALSE]
    /\ job = [p \in Process |-> "idle"]
    /\ ids = [p \in Process |-> {}]
    /\ read = [p \in Process |-> [r \in Row |-> 0]]
    /\ earned = [r \in Row |-> 0]
    /\ credited = [r \in Row |-> 0]
    /\ offset = [r \in Row |-> 0]
    /\ net = [o \in Owner |-> 0]

Frozen(r) == rowState[r] = "frozen"
SumOver(f, S) == MapThenSumSet(LAMBDA r : f[r], S)
Smaller(a, b) == IF a < b THEN a ELSE b

----------------------------------------------------------------------------
(* Income                                                                  *)

(* createHostingLogWithSnapshot: the next row.  It takes no lock.          *)
AddRow(r, o, i, bought, a) ==
    /\ rowState[r] = "none"
    /\ \A q \in Row : q < r => rowState[q] # "none"
    /\ rowState' = [rowState EXCEPT ![r] = "frozen"]
    /\ holder' = [holder EXCEPT ![r] = o]
    /\ about' = [about EXCEPT ![r] = i]
    /\ purchase' = [purchase EXCEPT ![r] = bought]
    /\ amount' = [amount EXCEPT ![r] = a]
    /\ earned' = [earned EXCEPT ![r] = a]
    /\ net' = [net EXCEPT ![o] = @ + a]
    /\ UNCHANGED <<due, available, panel, withdrawals, jobs, credited, offset>>

(* A purchase, then a renewal or an upgrade, on the host of a user.        *)
Earn(r, i, a) ==
    /\ AddRow(r, HostedBy[i], i, i \notin Range(about), a)
    /\ paid' = [paid EXCEPT ![i] = @ + a]

(* An administrator adds to the frozen balance.                            *)
AddFrozen(r, o, a) ==
    /\ net[o] < MaxNet
    /\ AddRow(r, o, NoOwner, FALSE, a)
    /\ UNCHANGED paid

(* The 30 days of a row are over.                                          *)
BecomesDue(r) ==
    /\ Frozen(r)
    /\ ~due[r]
    /\ due' = [due EXCEPT ![r] = TRUE]
    /\ UNCHANGED <<rowState, holder, about, purchase, amount, available, panel,
                   paid, withdrawals, jobs, rowHistory, net>>

----------------------------------------------------------------------------
(* The release                                                             *)

(* Looks for the rows that are due.                                        *)
FindDue(p) ==
    /\ job[p] = "idle"
    /\ \E r \in Row : Frozen(r) /\ due[r]
    /\ ids' = [ids EXCEPT ![p] = {r \in Row : Frozen(r) /\ due[r]}]
    /\ job' = [job EXCEPT ![p] = "found"]
    /\ UNCHANGED <<rows, available, panel, paid, withdrawals, read, rowHistory, net>>

(* Its transaction reads those that still are, and their amounts.          *)
ReadDue(p) ==
    /\ job[p] = "found"
    /\ ids' = [ids EXCEPT ![p] = {r \in @ : Frozen(r)}]
    /\ read' = [read EXCEPT ![p] =
                  [r \in Row |-> IF r \in ids[p] /\ Frozen(r) THEN amount[r] ELSE 0]]
    /\ job' = [job EXCEPT ![p] = "read"]
    /\ UNCHANGED <<rows, available, panel, paid, withdrawals, rowHistory, net>>

ReadBy(p, o) == SumOver(read[p], {r \in ids[p] : holder[r] = o})

Rest(p) ==
    /\ job' = [job EXCEPT ![p] = "idle"]
    /\ ids' = [ids EXCEPT ![p] = {}]
    /\ read' = [read EXCEPT ![p] = [r \in Row |-> 0]]

ReleaseRows(p) ==
    /\ rowState' = [r \in Row |->
                      IF r \in ids[p] /\ Frozen(r) THEN "released" ELSE rowState[r]]
    /\ credited' = [r \in Row |->
                      IF r \in ids[p] THEN credited[r] + read[p][r] ELSE credited[r]]
    /\ available' = [o \in Owner |-> available[o] + ReadBy(p, o)]
    /\ Rest(p)
    /\ UNCHANGED <<holder, about, purchase, amount, due, panel, paid, withdrawals,
                   earned, offset, net>>

(* Mutation: rows settled by another job or a deduction are not counted.   *)
Release_Uncounted(p) == job[p] = "read" /\ ReleaseRows(p)

(* With the locks of all owners, it releases the rows if all of them are   *)
(* still frozen, and credits what it had read.                             *)
Release(p) ==
    /\ job[p] = "read"
    /\ \A r \in ids[p] : Frozen(r)
    /\ ReleaseRows(p)

(* The lock of one owner is busy, a row is gone, nothing was left to       *)
(* release, or the process dies: the transaction has no effect.            *)
GiveUp(p) ==
    /\ job[p] \in {"found", "read"}
    /\ Rest(p)
    /\ UNCHANGED <<rows, available, panel, paid, withdrawals, rowHistory, net>>

----------------------------------------------------------------------------
(* Deductions                                                              *)

(* What is taken of each row: from the oldest on.                          *)
OldestFirst(take, S, a) ==
    /\ \A r \in Row : take[r] <= IF r \in S THEN amount[r] ELSE 0
    /\ \A q, r \in S : q < r /\ take[r] > 0 => take[q] = amount[q]
    /\ SumOver(take, Row) = Smaller(a, SumOver(amount, S))

(* No job has read what this takes a part of.                              *)
Unread(take) ==
    \A p \in Process, r \in Row :
        job[p] = "read" /\ r \in ids[p] => take[r] \in {0, amount[r]}

(* Rows of which all is taken are deleted.                                 *)
TakeFrom(take) ==
    /\ ShrinkRead \/ Unread(take)
    /\ rowState' = [r \in Row |-> IF take[r] > 0 /\ take[r] = amount[r]
                                  THEN "deleted" ELSE rowState[r]]
    /\ amount' = [r \in Row |-> amount[r] - take[r]]
    /\ offset' = [r \in Row |-> offset[r] + take[r]]
    /\ UNCHANGED <<holder, about, purchase, due, jobs, earned, credited>>

FrozenOf(i) == {r \in Row : Frozen(r) /\ holder[r] = HostedBy[i] /\ about[r] = i}

(* What is left after the frozen rows comes out of the available balance,  *)
(* then of the panel balance, and the rest is a debt.                      *)
FromAvailable(o, rest) == IF available[o] > 0 THEN Smaller(available[o], rest) ELSE 0

(* Mutation: the panel balance is not asked for what it has.               *)
FromPanel_Unbounded(o, rest) == rest

FromPanel(o, rest) == Smaller(panel[o], rest)

(* deductHostingBalance, in the transaction of a refund.                   *)
Deduct(i, a) ==
    LET o == HostedBy[i]
    IN /\ a <= paid[i]
       /\ \E take \in [Row -> 0 .. MaxAmount] :
         LET rest == a - SumOver(take, Row)
             kept == FromAvailable(o, rest)
             topUp == FromPanel(o, rest - kept)
         IN /\ OldestFirst(take, FrozenOf(i), a)
            /\ TakeFrom(take)
            /\ available' = [available EXCEPT ![o] = @ - (rest - topUp)]
            /\ panel' = [panel EXCEPT ![o] = @ - topUp]
            /\ net' = [net EXCEPT ![o] = @ - (a - topUp)]
            /\ paid' = [paid EXCEPT ![i] = @ - a]
            /\ UNCHANGED withdrawals

FrozenRows(o) == {r \in Row : Frozen(r) /\ holder[r] = o}

(* An administrator takes from the frozen balance, if there is as much.    *)
TakeFrozen(o, a) ==
    /\ SumOver(amount, FrozenRows(o)) >= a
    /\ \E take \in [Row -> 0 .. MaxAmount] :
         /\ OldestFirst(take, FrozenRows(o), a)
         /\ TakeFrom(take)
    /\ net' = [net EXCEPT ![o] = @ - a]
    /\ UNCHANGED <<available, panel, paid, withdrawals>>

(* An administrator adds to or takes from the available balance.           *)
AdjustAvailable(o, a) ==
    /\ IF a > 0 THEN net[o] < MaxNet ELSE available[o] >= -a
    /\ available' = [available EXCEPT ![o] = @ + a]
    /\ net' = [net EXCEPT ![o] = @ + a]
    /\ UNCHANGED <<rows, panel, paid, withdrawals, jobs, rowHistory>>

Unpaid(i) == {r \in Row : Frozen(r) /\ about[r] = i /\ purchase[r]}

(* The creation of an instance failed: its purchase is paid back and the   *)
(* income of it deleted, without the lock of the owner.  Creations fail    *)
(* long before their income is due.                                        *)
UndoPurchase(i) ==
    LET gone == Unpaid(i)
    IN /\ gone # {}
       /\ \A r \in gone : ~due[r]
       /\ paid[i] >= SumOver(earned, gone)
       /\ rowState' = [r \in Row |-> IF r \in gone THEN "deleted" ELSE rowState[r]]
       /\ offset' = [r \in Row |-> IF r \in gone THEN offset[r] + amount[r] ELSE offset[r]]
       /\ amount' = [r \in Row |-> IF r \in gone THEN 0 ELSE amount[r]]
       /\ net' = [net EXCEPT ![HostedBy[i]] = @ - SumOver(amount, gone)]
       /\ paid' = [paid EXCEPT ![i] = @ - SumOver(earned, gone)]
       /\ UNCHANGED <<holder, about, purchase, due, available, panel, withdrawals,
                      jobs, earned, credited>>

----------------------------------------------------------------------------
(* Withdrawals                                                             *)

(* To the panel at once, less a fee, or outside after approval.            *)
Withdraw(w, o, a, outside) ==
    /\ withdrawn[w] = "none"
    /\ available[o] >= a
    /\ available' = [available EXCEPT ![o] = @ - a]
    /\ asked' = [asked EXCEPT ![w] = a]
    /\ askedOf' = [askedOf EXCEPT ![w] = o]
    /\ withdrawn' = [withdrawn EXCEPT ![w] = IF outside THEN "pending" ELSE "completed"]
    /\ left' = [left EXCEPT ![w] = ~outside]
    /\ panel' = [panel EXCEPT ![o] = IF outside THEN @ ELSE @ + (a - Smaller(a, Fee))]
    /\ UNCHANGED <<rows, paid, jobs, rowHistory, net>>

Approve(w) ==
    /\ withdrawn[w] = "pending"
    /\ withdrawn' = [withdrawn EXCEPT ![w] = "completed"]
    /\ left' = [left EXCEPT ![w] = TRUE]
    /\ UNCHANGED <<rows, available, panel, paid, asked, askedOf, jobs, rowHistory, net>>

(* Mutation: an approved withdrawal can be rejected too.                   *)
Rejectable_Approved(w) == withdrawn[w] \in {"pending", "completed"}

Rejectable(w) == withdrawn[w] = "pending"

(* The full amount goes back.                                              *)
Reject(w) ==
    /\ Rejectable(w)
    /\ withdrawn' = [withdrawn EXCEPT ![w] = "rejected"]
    /\ available' = [available EXCEPT ![askedOf[w]] = @ + asked[w]]
    /\ UNCHANGED <<rows, panel, paid, asked, askedOf, left, jobs, rowHistory, net>>

----------------------------------------------------------------------------

Job(p) == FindDue(p) \/ ReadDue(p) \/ Release(p) \/ GiveUp(p)

Adjustments ==
    \E o \in Owner, a \in Amount :
        \/ \E r \in Row : AddFrozen(r, o, a)
        \/ TakeFrozen(o, a)
        \/ AdjustAvailable(o, a)
        \/ AdjustAvailable(o, -a)

Next ==
    \/ \E i \in Instance, a \in Amount :
         \/ \E r \in Row : Earn(r, i, a)
         \/ Deduct(i, a)
    \/ \E r \in Row : BecomesDue(r)
    \/ \E i \in Instance : UndoPurchase(i)
    \/ \E p \in Process : Job(p)
    \/ Adjustments
    \/ \E w \in Withdrawal, o \in Owner, a \in Amount, outside \in BOOLEAN :
         Withdraw(w, o, a, outside)
    \/ \E w \in Withdrawal : Approve(w) \/ Reject(w)

Spec == Init /\ [][Next]_vars

----------------------------------------------------------------------------
(* Properties                                                              *)

RowStates == {"none", "frozen", "released", "deleted"}

TypeOK ==
    /\ rowState \in [Row -> RowStates]
    /\ holder \in [Row -> Owner \cup {NoOwner}]
    /\ about \in [Row -> Instance \cup {NoOwner}]
    /\ purchase \in [Row -> BOOLEAN]
    /\ amount \in [Row -> Nat]
    /\ due \in [Row -> BOOLEAN]
    /\ available \in [Owner -> Int]
    /\ panel \in [Owner -> Nat]
    /\ paid \in [Instance -> Nat]
    /\ asked \in [Withdrawal -> Nat]
    /\ askedOf \in [Withdrawal -> Owner \cup {NoOwner}]
    /\ withdrawn \in [Withdrawal -> {"none", "pending", "completed", "rejected"}]
    /\ left \in [Withdrawal -> BOOLEAN]
    /\ job \in [Process -> {"idle", "found", "read"}]
    /\ ids \in [Process -> SUBSET Row]
    /\ read \in [Process -> [Row -> Nat]]
    /\ earned \in [Row -> Nat]
    /\ credited \in [Row -> Nat]
    /\ offset \in [Row -> Nat]

(* What a row brought is in one place: frozen, released or deducted.  Two  *)
(* jobs that found the same row, and a deduction or a failed creation that *)
(* deletes it between the look of a job and its locks, do not make it pay  *)
(* twice.                                                                  *)
IncomeIsOnce ==
    \A r \in Row :
        earned[r] = credited[r] + offset[r] + IF Frozen(r) THEN amount[r] ELSE 0

(* What an owner has available and frozen, waits to withdraw or has taken  *)
(* out is what he earned less what he paid back, whatever order releases,  *)
(* deductions, debts, adjustments, and approvals and rejections of         *)
(* withdrawals come in.                                                    *)
Withdrawn(o) ==
    SumOver(asked, {w \in Withdrawal : askedOf[w] = o /\ (left[w] \/ withdrawn[w] = "pending")})

OwnersGetTheirs ==
    \A o \in Owner :
        available[o] + SumOver(amount, FrozenRows(o)) + Withdrawn(o) = net[o]

(* The comment in the release (hosting-scheduler.ts 87): what a deduction  *)
(* has deleted or changed is not released as it was read before.           *)
ReleasesWhatIsLeft ==
    [][\A r \in Row : credited'[r] > credited[r] =>
         credited'[r] = credited[r] + amount[r]]_vars
=============================================================================
