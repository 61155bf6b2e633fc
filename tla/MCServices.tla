----------------------------- MODULE MCServices -----------------------------
(***************************************************************************)
(* Eleven services that share no state, each with instances small enough   *)
(* for TLC: a behaviour is one of one service, with one of its sets of     *)
(* faults, chosen at the start; the others have no state.                  *)
(***************************************************************************)
EXTENDS Naturals, TLC

CONSTANTS Process,      \* two processes or handlers, interchangeable
          Handler,      \* the same two and one more, where it takes three
          Item,         \* two instances, transfers, ..., interchangeable
          None

VARIABLE mix    \* the service of this behaviour, and its faults

-----------------------------------------------------------------------------
VARIABLES rowState, holder, about, purchase, amount, due, available, panel, paid,
          asked, askedOf, withdrawn, left, job, ids, read, earned, credited, offset, net

Income == INSTANCE HostIncome
    WITH Owner <- {"u1"}, Instance <- {"i1"}, HostedBy <- [i \in {"i1"} |-> "u1"],
         MaxRows <- 2, MaxWithdrawals <- 1, MaxAmount <- 2, MaxNet <- 1, Fee <- 1,
         ShrinkRead <- FALSE

-----------------------------------------------------------------------------
VARIABLES status, mode, old, machine, mapped, used, ports, assigned, balance,
          paidBack, recorded, pc, on, catch, seen, owed, counted, hasty, undone

Faulty == INSTANCE Provisioning
    WITH Row <- {"i1"}, Worker <- Handler, Address <- {"a1"},
         Capacity <- 2, PortTotal <- 2, Deposit <- 2, holder <- assigned,
         Faults <- {"crash", "release", "refund", "host", "stall", "query"}

Smooth == INSTANCE Provisioning
    WITH Row <- Item, Worker <- Process, Address <- {"a1"},
         Capacity <- 2, PortTotal <- 2, Deposit <- 2, holder <- assigned,
         Faults <- {"rollback", "create"}

-----------------------------------------------------------------------------
VARIABLES request, sender, receiver, overdue, feeRefunded, owner, state, name,
          actual, names, step, onRequest, before, after, seenOwner, seenState, met

Moves == INSTANCE Transfer
    WITH Request <- Item, User <- {"u1", "u2"}, MaxNames <- 3, MaxRefunds <- 1,
         Handler <- Process, Faults <- {},
         status <- request, refunded <- feeRefunded, pc <- step, on <- onRequest

FaultyMoves == INSTANCE Transfer
    WITH Request <- {"t1"}, User <- {"u1", "u2"}, MaxNames <- 3, MaxRefunds <- 2,
         Faults <- {"crash", "host", "query"},
         status <- request, refunded <- feeRefunded, pc <- step, on <- onRequest

-----------------------------------------------------------------------------
VARIABLES card, issuer, dated, passed, cardRefunded, wallet

Cards == INSTANCE GiftCard
    WITH Card <- Item, User <- {"u1", "u2"}, Admin <- "admin",
         Worth <- 2, Deposit <- 3,
         status <- card, refunded <- cardRefunded, balance <- wallet

-----------------------------------------------------------------------------
VARIABLES now, email, scheduledFor, retryCount, startedAt, sending, tries, phase,
          sent, claimed, requeued, last

Emails == INSTANCE EmailQueue
    WITH Task <- Item, Interval <- 1, RetryDelay <- 2, Timeout <- 2,
         MaxRetries <- 1, MaxTime <- 7, status <- email, step <- phase

-----------------------------------------------------------------------------
VARIABLES size, patched, hostUsed, pool, logs, usable, redeemed, lease, stage,
          kind, item, found, batch

Growth == INSTANCE InstanceResources
    WITH Log <- Item, Code <- {"c1", "c2"}, Pool <- 2, Capacity <- 5,
         Faults <- {"crash", "host"},
         actual <- patched, pc <- stage, job <- kind, read <- found

-----------------------------------------------------------------------------
VARIABLES sub, past, domain, upstream, subLock, mailPc, mailLoop, mailOn, mailLeft

Mails == INSTANCE MailDomains
    WITH Domain <- Item, Handler <- Process, Faults <- {"lost", "slow", "busy", "cancel"},
         row <- domain, lock <- subLock, pc <- mailPc, loop <- mailLoop, on <- mailOn,
         left <- mailLeft

CrashedMails == INSTANCE MailDomains
    WITH Domain <- Item, Handler <- Process,
         Faults <- {"crash", "slow", "busy", "cancel", "verify"},
         row <- domain, lock <- subLock, pc <- mailPc, loop <- mailLoop, on <- mailOn,
         left <- mailLeft

FaultyMails == INSTANCE MailDomains
    WITH Domain <- Item, Handler <- Process,
         Faults <- {"crash", "refuse", "lost", "late", "busy", "verify"},
         row <- domain, lock <- subLock, pc <- mailPc, loop <- mailLoop, on <- mailOn,
         left <- mailLeft

-----------------------------------------------------------------------------
VARIABLES level, overrun, line, limits, bandwidth, bandwidthLock, throttlePc, next,
          seenLevel, seenOverrun, speed, alone, direct

Throttling == INSTANCE TrafficThrottle
    WITH Handler <- Process, Faults <- {},
         status <- overrun, host <- bandwidth, lock <- bandwidthLock, pc <- throttlePc,
         seen <- seenLevel, seenStatus <- seenOverrun

FaultyThrottling == INSTANCE TrafficThrottle
    WITH Handler <- Process, Faults <- {"wait", "expire", "host", "crash"},
         status <- overrun, host <- bandwidth, lock <- bandwidthLock, pc <- throttlePc,
         seen <- seenLevel, seenStatus <- seenOverrun

-----------------------------------------------------------------------------
VARIABLES snaps, automatic, snapHost, snapDue, snapLock, snapPc, snapOn, attempt, evicted

Snaps == INSTANCE Snapshots
    WITH Handler <- Process, Snapshot <- Item, Limit <- 1, Attempts <- 2,
         Faults <- {"host", "expire"},
         rows <- snaps, onHost <- snapHost, due <- snapDue, lock <- snapLock,
         pc <- snapPc, on <- snapOn

FullSnaps == INSTANCE Snapshots
    WITH Handler <- Process, Snapshot <- Item \cup {"s3"}, Limit <- 2, Attempts <- 2,
         Faults <- {"host", "crash"},
         rows <- snaps, onHost <- snapHost, due <- snapDue, lock <- snapLock,
         pc <- snapPc, on <- snapOn

LostSnaps == INSTANCE Snapshots
    WITH Handler <- Process, Snapshot <- Item, Limit <- 1, Attempts <- 2,
         Faults <- {"host", "unheard", "db", "crash"},
         rows <- snaps, onHost <- snapHost, due <- snapDue, lock <- snapLock,
         pc <- snapPc, on <- snapOn

-----------------------------------------------------------------------------
VARIABLES backup, copies, maker, remover, early, upload, uploadOf, retries, late,
          uploadPc, overtime, again, file, stored

Copies == INSTANCE Backups
    WITH Backup <- Item, Task <- {"t1"}, Limit <- 1, MaxRetries <- 1,
         Faults <- {"host", "unheard", "net"},
         row <- backup, task <- upload, of <- uploadOf, pc <- uploadPc

Uploads == INSTANCE Backups
    WITH Backup <- {"b1"}, Task <- Item, Limit <- 1, MaxRetries <- 1,
         Faults <- {"net", "litter", "nodes", "crash"},
         row <- backup, task <- upload, of <- uploadOf, pc <- uploadPc

-----------------------------------------------------------------------------
VARIABLES portRow, managed, devices, portLock, work, torn

Ports == INSTANCE PortMappings
    WITH Instance <- Item, Port <- {"q1", "q2"}, Handler <- Process,
         Families <- <<"v4", "v6">>, Limit <- 2, Faults <- {"refuse"},
         rows <- portRow, lock <- portLock

FaultyPorts == INSTANCE PortMappings
    WITH Instance <- Item, Port <- {"q1", "q2"}, Handler <- Process,
         Families <- <<"v4", "v6">>, Limit <- 1, Faults <- {"host", "crash"},
         rows <- portRow, lock <- portLock

OpenPorts == INSTANCE PortMappings
    WITH Instance <- {"i1"}, Port <- Item, Handler <- Process,
         Families <- <<"v4">>, Limit <- 1, Faults <- {"auto", "transfer", "unheard"},
         rows <- portRow, lock <- portLock

-----------------------------------------------------------------------------

ASSUME ServicesConstants ==
    /\ Income!HostIncomeConstants
    /\ Faulty!ProvisioningConstants /\ Smooth!ProvisioningConstants
    /\ Moves!TransferConstants /\ FaultyMoves!TransferConstants
    /\ Cards!GiftCardConstants
    /\ Emails!EmailQueueConstants
    /\ Growth!InstanceResourcesConstants
    /\ Mails!MailDomainsConstants
    /\ CrashedMails!MailDomainsConstants /\ FaultyMails!MailDomainsConstants
    /\ Throttling!TrafficThrottleConstants
    /\ FaultyThrottling!TrafficThrottleConstants
    /\ Snaps!SnapshotsConstants
    /\ FullSnaps!SnapshotsConstants /\ LostSnaps!SnapshotsConstants
    /\ Copies!BackupsConstants /\ Uploads!BackupsConstants
    /\ Ports!PortMappingsConstants /\ FaultyPorts!PortMappingsConstants
    /\ OpenPorts!PortMappingsConstants

income == <<rowState, holder, about, purchase, amount, due, available, panel, paid,
            asked, askedOf, withdrawn, left, job, ids, read, earned, credited, offset, net>>
creation == <<status, mode, old, machine, mapped, used, ports, assigned, balance,
              paidBack, recorded, pc, on, catch, seen, owed, counted, hasty, undone>>
transfer == <<request, sender, receiver, overdue, feeRefunded, owner, state, name,
              actual, names, step, onRequest, before, after, seenOwner, seenState,
              met>>
cards == <<card, issuer, dated, passed, cardRefunded, wallet>>
emails == <<now, email, scheduledFor, retryCount, startedAt, sending, tries, phase,
            sent, claimed, requeued, last>>
growth == <<size, patched, hostUsed, pool, logs, usable, redeemed, lease, stage,
            kind, item, found, batch>>
mails == <<sub, past, domain, upstream, subLock, mailPc, mailLoop, mailOn, mailLeft>>
throttling == <<level, overrun, line, limits, bandwidth, bandwidthLock, throttlePc,
                next, seenLevel, seenOverrun, speed, alone,
                direct>>
snapshots == <<snaps, automatic, snapHost, snapDue, snapLock, snapPc, snapOn, attempt,
               evicted>>
backups == <<backup, copies, maker, remover, early, upload, uploadOf, retries, late,
             uploadPc, overtime, again, file, stored>>
mappings == <<portRow, managed, devices, portLock, work, torn>>

(* A service that is not checked has no state.                             *)
NoIncome ==
    /\ rowState = 0 /\ holder = 0 /\ about = 0 /\ purchase = 0 /\ amount = 0
    /\ due = 0 /\ available = 0 /\ panel = 0 /\ paid = 0 /\ asked = 0
    /\ askedOf = 0 /\ withdrawn = 0 /\ left = 0 /\ job = 0 /\ ids = 0 /\ read = 0
    /\ earned = 0 /\ credited = 0 /\ offset = 0 /\ net = 0
NoCreation ==
    /\ status = 0 /\ mode = 0 /\ old = 0 /\ machine = 0 /\ mapped = 0
    /\ used = 0 /\ ports = 0 /\ assigned = 0 /\ balance = 0 /\ paidBack = 0
    /\ recorded = 0 /\ pc = 0 /\ on = 0 /\ catch = 0 /\ seen = 0 /\ owed = 0
    /\ counted = 0 /\ hasty = 0 /\ undone = 0
NoTransfer ==
    /\ request = 0 /\ sender = 0 /\ receiver = 0 /\ overdue = 0
    /\ feeRefunded = 0 /\ owner = 0 /\ state = 0 /\ name = 0 /\ actual = 0
    /\ names = 0 /\ step = 0 /\ onRequest = 0 /\ before = 0 /\ after = 0
    /\ seenOwner = 0 /\ seenState = 0 /\ met = 0
NoCards ==
    /\ card = 0 /\ issuer = 0 /\ dated = 0 /\ passed = 0 /\ cardRefunded = 0
    /\ wallet = 0
NoEmails ==
    /\ now = 0 /\ email = 0 /\ scheduledFor = 0 /\ retryCount = 0
    /\ startedAt = 0 /\ sending = 0 /\ tries = 0 /\ phase = 0 /\ sent = 0
    /\ claimed = 0 /\ requeued = 0 /\ last = 0
NoGrowth ==
    /\ size = 0 /\ patched = 0 /\ hostUsed = 0 /\ pool = 0 /\ logs = 0
    /\ usable = 0 /\ redeemed = 0 /\ lease = 0 /\ stage = 0 /\ kind = 0
    /\ item = 0 /\ found = 0 /\ batch = 0

NoMails ==
    /\ sub = 0 /\ past = 0 /\ domain = 0 /\ upstream = 0 /\ subLock = 0
    /\ mailPc = 0 /\ mailLoop = 0 /\ mailOn = 0 /\ mailLeft = 0
NoThrottling ==
    /\ level = 0 /\ overrun = 0 /\ line = 0 /\ limits = 0 /\ bandwidth = 0
    /\ bandwidthLock = 0 /\ throttlePc = [h \in Process |-> "idle"] /\ next = 0
    /\ seenLevel = 0 /\ seenOverrun = 0 /\ speed = 0 /\ alone = 0 /\ direct = 0
NoSnapshots ==
    /\ snaps = 0 /\ automatic = 0 /\ snapHost = 0 /\ snapDue = 0 /\ snapLock = 0
    /\ snapPc = 0 /\ snapOn = 0 /\ attempt = 0 /\ evicted = 0
NoBackups ==
    /\ backup = 0 /\ copies = 0 /\ maker = 0 /\ remover = 0 /\ early = 0 /\ upload = 0
    /\ uploadOf = 0 /\ retries = 0 /\ late = 0 /\ uploadPc = 0 /\ overtime = 0
    /\ again = 0 /\ file = 0 /\ stored = 0
NoPorts ==
    /\ portRow = 0 /\ managed = 0 /\ devices = 0 /\ portLock = 0 /\ work = 0 /\ torn = 0

Init ==
    \/ mix = "income" /\ Income!Init
         /\ NoCreation /\ NoTransfer /\ NoCards /\ NoEmails
         /\ NoGrowth /\ NoMails /\ NoThrottling /\ NoSnapshots /\ NoBackups /\ NoPorts
    \/ mix = "faulty" /\ Faulty!Init
         /\ NoIncome /\ NoTransfer /\ NoCards /\ NoEmails
         /\ NoGrowth /\ NoMails /\ NoThrottling /\ NoSnapshots /\ NoBackups /\ NoPorts
    \/ mix = "smooth" /\ Smooth!Init
         /\ NoIncome /\ NoTransfer /\ NoCards /\ NoEmails
         /\ NoGrowth /\ NoMails /\ NoThrottling /\ NoSnapshots /\ NoBackups /\ NoPorts
    \/ mix = "moves" /\ Moves!Init
         /\ NoIncome /\ NoCreation /\ NoCards /\ NoEmails
         /\ NoGrowth /\ NoMails /\ NoThrottling /\ NoSnapshots /\ NoBackups /\ NoPorts
    \/ mix = "faultyMoves" /\ FaultyMoves!Init
         /\ NoIncome /\ NoCreation /\ NoCards /\ NoEmails
         /\ NoGrowth /\ NoMails /\ NoThrottling /\ NoSnapshots /\ NoBackups /\ NoPorts
    \/ mix = "cards" /\ Cards!Init
         /\ NoIncome /\ NoCreation /\ NoTransfer /\ NoEmails
         /\ NoGrowth /\ NoMails /\ NoThrottling /\ NoSnapshots /\ NoBackups /\ NoPorts
    \/ mix = "emails" /\ Emails!Init
         /\ NoIncome /\ NoCreation /\ NoTransfer /\ NoCards
         /\ NoGrowth /\ NoMails /\ NoThrottling /\ NoSnapshots /\ NoBackups /\ NoPorts
    \/ mix = "growth" /\ Growth!Init
         /\ NoIncome /\ NoCreation /\ NoTransfer /\ NoCards
         /\ NoEmails /\ NoMails /\ NoThrottling /\ NoSnapshots /\ NoBackups /\ NoPorts
    \/ mix = "mails" /\ Mails!Init
         /\ NoIncome /\ NoCreation /\ NoTransfer /\ NoCards
         /\ NoEmails /\ NoGrowth /\ NoThrottling /\ NoSnapshots /\ NoBackups /\ NoPorts
    \/ mix = "crashedMails" /\ CrashedMails!Init
         /\ NoIncome /\ NoCreation /\ NoTransfer /\ NoCards
         /\ NoEmails /\ NoGrowth /\ NoThrottling /\ NoSnapshots /\ NoBackups /\ NoPorts
    \/ mix = "faultyMails" /\ FaultyMails!Init
         /\ NoIncome /\ NoCreation /\ NoTransfer /\ NoCards
         /\ NoEmails /\ NoGrowth /\ NoThrottling /\ NoSnapshots /\ NoBackups /\ NoPorts
    \/ mix = "throttling" /\ Throttling!Init
         /\ NoIncome /\ NoCreation /\ NoTransfer /\ NoCards
         /\ NoEmails /\ NoGrowth /\ NoMails /\ NoSnapshots /\ NoBackups /\ NoPorts
    \/ mix = "faultyThrottling" /\ FaultyThrottling!Init
         /\ NoIncome /\ NoCreation /\ NoTransfer /\ NoCards
         /\ NoEmails /\ NoGrowth /\ NoMails /\ NoSnapshots /\ NoBackups /\ NoPorts
    \/ mix = "snapshots" /\ Snaps!Init
         /\ NoIncome /\ NoCreation /\ NoTransfer /\ NoCards
         /\ NoEmails /\ NoGrowth /\ NoMails /\ NoThrottling /\ NoBackups /\ NoPorts
    \/ mix = "fullSnapshots" /\ FullSnaps!Init
         /\ NoIncome /\ NoCreation /\ NoTransfer /\ NoCards
         /\ NoEmails /\ NoGrowth /\ NoMails /\ NoThrottling /\ NoBackups /\ NoPorts
    \/ mix = "lostSnapshots" /\ LostSnaps!Init
         /\ NoIncome /\ NoCreation /\ NoTransfer /\ NoCards
         /\ NoEmails /\ NoGrowth /\ NoMails /\ NoThrottling /\ NoBackups /\ NoPorts
    \/ mix = "backups" /\ Copies!Init
         /\ NoIncome /\ NoCreation /\ NoTransfer /\ NoCards
         /\ NoEmails /\ NoGrowth /\ NoMails /\ NoThrottling /\ NoSnapshots /\ NoPorts
    \/ mix = "uploads" /\ Uploads!Init
         /\ NoIncome /\ NoCreation /\ NoTransfer /\ NoCards
         /\ NoEmails /\ NoGrowth /\ NoMails /\ NoThrottling /\ NoSnapshots /\ NoPorts
    \/ mix = "ports" /\ Ports!Init
         /\ NoIncome /\ NoCreation /\ NoTransfer /\ NoCards /\ NoEmails
         /\ NoGrowth /\ NoMails /\ NoThrottling /\ NoSnapshots /\ NoBackups
    \/ mix = "faultyPorts" /\ FaultyPorts!Init
         /\ NoIncome /\ NoCreation /\ NoTransfer /\ NoCards /\ NoEmails
         /\ NoGrowth /\ NoMails /\ NoThrottling /\ NoSnapshots /\ NoBackups
    \/ mix = "openPorts" /\ OpenPorts!Init
         /\ NoIncome /\ NoCreation /\ NoTransfer /\ NoCards /\ NoEmails
         /\ NoGrowth /\ NoMails /\ NoThrottling /\ NoSnapshots /\ NoBackups

Next ==
    \/ mix = "income" /\ Income!Next
         /\ UNCHANGED <<mix, creation, transfer, cards, emails, growth, mails, throttling,
                        snapshots, backups, mappings>>
    \/ mix = "faulty" /\ Faulty!Next
         /\ UNCHANGED <<mix, income, transfer, cards, emails, growth, mails, throttling,
                        snapshots, backups, mappings>>
    \/ mix = "smooth" /\ Smooth!Next
         /\ UNCHANGED <<mix, income, transfer, cards, emails, growth, mails, throttling,
                        snapshots, backups, mappings>>
    \/ mix = "moves" /\ Moves!Next
         /\ UNCHANGED <<mix, income, creation, cards, emails, growth, mails, throttling,
                        snapshots, backups, mappings>>
    \/ mix = "faultyMoves" /\ FaultyMoves!Next
         /\ UNCHANGED <<mix, income, creation, cards, emails, growth, mails, throttling,
                        snapshots, backups, mappings>>
    \/ mix = "cards" /\ Cards!Next
         /\ UNCHANGED <<mix, income, creation, transfer, emails, growth, mails, throttling,
                        snapshots, backups, mappings>>
    \/ mix = "emails" /\ Emails!Next
         /\ UNCHANGED <<mix, income, creation, transfer, cards, growth, mails, throttling,
                        snapshots, backups, mappings>>
    \/ mix = "growth" /\ Growth!Next
         /\ UNCHANGED <<mix, income, creation, transfer, cards, emails, mails, throttling,
                        snapshots, backups, mappings>>
    \/ mix = "mails" /\ Mails!Next
         /\ UNCHANGED <<mix, income, creation, transfer, cards, emails, growth, throttling,
                        snapshots, backups, mappings>>
    \/ mix = "crashedMails" /\ CrashedMails!Next
         /\ UNCHANGED <<mix, income, creation, transfer, cards, emails, growth, throttling,
                        snapshots, backups, mappings>>
    \/ mix = "faultyMails" /\ FaultyMails!Next
         /\ UNCHANGED <<mix, income, creation, transfer, cards, emails, growth, throttling,
                        snapshots, backups, mappings>>
    \/ mix = "throttling" /\ Throttling!Next
         /\ UNCHANGED <<mix, income, creation, transfer, cards, emails, growth, mails,
                        snapshots, backups, mappings>>
    \/ mix = "faultyThrottling" /\ FaultyThrottling!Next
         /\ UNCHANGED <<mix, income, creation, transfer, cards, emails, growth, mails,
                        snapshots, backups, mappings>>
    \/ mix = "snapshots" /\ Snaps!Next
         /\ UNCHANGED <<mix, income, creation, transfer, cards, emails, growth, mails,
                        throttling, backups, mappings>>
    \/ mix = "fullSnapshots" /\ FullSnaps!Next
         /\ UNCHANGED <<mix, income, creation, transfer, cards, emails, growth, mails,
                        throttling, backups, mappings>>
    \/ mix = "lostSnapshots" /\ LostSnaps!Next
         /\ UNCHANGED <<mix, income, creation, transfer, cards, emails, growth, mails,
                        throttling, backups, mappings>>
    \/ mix = "backups" /\ Copies!Next
         /\ UNCHANGED <<mix, income, creation, transfer, cards, emails, growth, mails,
                        throttling, snapshots, mappings>>
    \/ mix = "uploads" /\ Uploads!Next
         /\ UNCHANGED <<mix, income, creation, transfer, cards, emails, growth, mails,
                        throttling, snapshots, mappings>>
    \/ mix = "ports" /\ Ports!Next
         /\ UNCHANGED <<mix, income, creation, transfer, cards, emails, growth, mails,
                        throttling, snapshots, backups>>
    \/ mix = "faultyPorts" /\ FaultyPorts!Next
         /\ UNCHANGED <<mix, income, creation, transfer, cards, emails, growth, mails,
                        throttling, snapshots, backups>>
    \/ mix = "openPorts" /\ OpenPorts!Next
         /\ UNCHANGED <<mix, income, creation, transfer, cards, emails, growth, mails,
                        throttling, snapshots, backups>>

vars == <<mix, income, creation, transfer, cards, emails, growth, mails, throttling,
          snapshots, backups, mappings>>

Spec == Init /\ [][Next]_vars

Symmetry == Permutations(Process) \cup Permutations(Item)

-----------------------------------------------------------------------------
(* The properties are those of the components.                             *)

(* Every service keeps the types of its state.                             *)
TypeOK ==
    /\ mix = "income" => Income!TypeOK
    /\ mix = "faulty" => Faulty!TypeOK
    /\ mix = "smooth" => Smooth!TypeOK
    /\ mix = "moves" => Moves!TypeOK
    /\ mix = "faultyMoves" => FaultyMoves!TypeOK
    /\ mix = "cards" => Cards!TypeOK
    /\ mix = "emails" => Emails!TypeOK
    /\ mix = "growth" => Growth!TypeOK
    /\ mix \in {"mails", "crashedMails", "faultyMails"} => Mails!TypeOK
    /\ mix \in {"throttling", "faultyThrottling"} => Throttling!TypeOK
    /\ mix = "snapshots" => Snaps!TypeOK
    /\ mix = "fullSnapshots" => FullSnaps!TypeOK
    /\ mix = "lostSnapshots" => LostSnaps!TypeOK
    /\ mix = "backups" => Copies!TypeOK
    /\ mix = "uploads" => Uploads!TypeOK
    /\ mix \in {"ports", "faultyPorts"} => Ports!TypeOK
    /\ mix = "openPorts" => OpenPorts!TypeOK

(* Income of the owner of a host is paid once, and he has what is his.     *)
IncomeIsOnce == mix = "income" => Income!IncomeIsOnce /\ Income!OwnersGetTheirs

(* A failed creation and the destruction of its instance pay back once,    *)
(* unless the destruction began before the settlement had paid; and so     *)
(* does a transfer its fee, unless a clean-up put back what was accepted.  *)
PaidBackOnce ==
    /\ mix = "faulty" => Faulty!PaidBackOnce
    /\ mix = "smooth" => Smooth!PaidBackOnce
    /\ mix = "moves" => Moves!FeeOnce
    /\ mix = "faultyMoves" => FaultyMoves!FeeOnce

(* What runs has a machine, unless a destruction that failed gave it back. *)
RunningHasMachine ==
    /\ mix = "faulty" => Faulty!RunningHasMachine
    /\ mix = "smooth" => Smooth!RunningHasMachine

(* A failed creation leaves nothing, if the host fails to create or start  *)
(* its machine, and nothing but the return of the capacity fails beside.   *)
FailureLeavesNothing == mix = "smooth" => Smooth!FailureLeavesNothing

(* A row moves to another user with its machine only.                      *)
MovesWithMachine == Moves!MovesWithMachine

(* Gift cards lose no money and are not redeemed after their refund.       *)
MoneyIsKept == mix = "cards" => Cards!MoneyIsKept

(* One e-mail in each interval.                                            *)
Throttled == Emails!Throttled

(* A machine differs from its row only while a log or a handler says so.   *)
PendingUntilPatched == mix = "growth" => Growth!PendingUntilPatched

(* Domains are suspended and resumed with their subscription: what is paid *)
(* for and not resumed is marked, and what is marked and not paid for is   *)
(* suspended.                                                              *)
DomainsFollow ==
    /\ mix = "mails" => Mails!PaidIsMarked
    /\ mix = "crashedMails" => CrashedMails!UnpaidIsSuspended

(* No domain is left at the provider without a row.                        *)
NothingHidden == mix = "faultyMails" => FaultyMails!NothingHidden

(* The host has the bandwidth the row calls for, or that of a plan just    *)
(* bought, if nothing goes wrong, and gets it back after anything that     *)
(* went wrong.                                                             *)
BandwidthFollows == mix = "throttling" => Throttling!BandwidthFollows
NextPassHeals == Throttling!NextPassHeals

(* Snapshots are on the host if they are recorded, and within their quota; *)
(* a run of the job costs at most one old snapshot.  Backups are within    *)
(* their quota and on the host; what is uploaded is at the storage, and    *)
(* nothing else is.                                                        *)
CopiesKept ==
    /\ mix = "snapshots" => Snaps!RowsMatchHost
    /\ mix = "fullSnapshots" => FullSnaps!OneForOne /\ FullSnaps!QuotaKept
    /\ mix = "lostSnapshots" => LostSnaps!QuotaKept
    /\ mix = "backups" =>
        /\ Copies!QuotaKept /\ Copies!ReadyIsOnHost
        /\ Copies!CompletedIsStored /\ Copies!NothingStray
    /\ mix = "uploads" => Uploads!CompletedIsStored

(* A port leads to the instance its row names, no machine has a port       *)
(* without a row, and the ports of an instance are within its quota.       *)
PortsKept ==
    /\ mix = "ports" => Ports!RowsAreServed /\ Ports!NothingHidden
    /\ mix = "faultyPorts" => FaultyPorts!NothingHidden /\ FaultyPorts!QuotaKept
    /\ mix = "openPorts" => OpenPorts!QuotaKept
=============================================================================
