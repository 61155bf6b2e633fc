# Verification of the XPayincus backend

TLA+ models of the backend of XPayincus (`src/server/src`), a panel that sells and runs Incus
containers and virtual machines; TLC runs that check the models on small instances; and TLAPS
proofs of the most important invariants for every value of the constants. Paths below are relative
to `src/server/src` unless they start with `src/`.

1. [The system](#1-the-system)
2. [Inventory](#2-inventory)
3. [How the modules relate to the code](#3-how-the-modules-relate-to-the-code)
4. [The modules](#4-the-modules)
5. [Runs and bounds](#5-runs-and-bounds)
6. [Fairness](#6-fairness)
7. [Proofs](#7-proofs)
8. [Where the code does not keep what the models assume](#8-where-the-code-does-not-keep-what-the-models-assume)
9. [Not modelled](#9-not-modelled)
10. [Plan](#10-plan)

## 1. The system

The backend is one Node process or several, behind one PostgreSQL database. Every process serves
all routes (`routes/`, 56 files), runs all schedulers (`services/`) and all workers (`workers/`);
`app.ts` 725-1010 starts them. Machines are on Incus hosts that the backend calls by HTTP and that
an agent on each host reports about. Payment gateways call back.

What is hard is the sharing, not the computing:

* an operation reads rows, awaits a host or a lock, and writes later, comparing all, some or none
  of what it read;
* transactions are short and `READ COMMITTED`; what excludes them is an advisory lock
  (`db/advisory-locks.ts`), a `version` column, a condition on `status`, or a leased row
  (`lib/distributed-lock.ts`), a different one in each subsystem;
* a call to Incus can fail, fail to be heard, or take effect after its client has given up;
* processes die between two steps, and what another process finds is only what is in the tables;
* callbacks and reports come late, twice and out of order.

## 2. Inventory

| Part | State it keeps | Operations | Talks to | What makes it right |
| --- | --- | --- | --- | --- |
| Host task queues: `workers/*TaskWorker.ts`, `backupUploadWorker.ts`, `db/*-tasks.ts` | `instance_tasks`, `restore_tasks`, `backup_upload_tasks`; the set of tasks each process executes | create, cancel, claim, execute, retry, sweep, clean up at startup, purge | hosts, restore workflow, deletions | one heavy thing per host; one active task per instance; terminal rows final; every task served |
| Restore workflow: `restoreTaskWorker.ts` 225-470, `routes/backups.ts` 980-1090 | row, temporary copy, original, backup | import, delete, rename, start; catch block; rollback | Incus | a complete copy is always left; the row tells the truth |
| Instance billing: `db/billing-operations.ts`, `services/billing-scheduler.ts`, `routes/instance-destroy.ts`, deletion routes, `routes/admin-billing.ts` | `expiresAt`, `version`, status and reason of suspension, billing records, balance | renew, auto-renew, suspend and delete on expiry, destroy, administrative deletion, refund, extend, gift | hosts, balance, income of host owners | pay for time and get it; one deletion; at most what was paid is paid back |
| Recharge orders: `routes/recharge.ts`, `db/recharge-records.ts` | order, `paymentDetails`, `payment_callbacks`, balance log | create, callback, verify, sync, new link, cancel, expire, complete, fail, refund | gateways, balance | credited once, only if paid, and if paid |
| Traffic metering: `services/traffic-utils.ts`, `instance-traffic-collector.ts`, `agent-instance-report.ts`, `db/traffic.ts` | counters, baseline, usage of instance and user, leases | collect, report, reset, daily reset job | hosts, agents, transfers, rebuilds | no byte twice, none from before a reset, sums agree |
| Income of host owners: `services/hosting-scheduler.ts`, `db/billing-operations.ts` 1158-1593, `routes/hosting.ts` | `hosting_balance_logs` (frozen rows), `hostingBalance`, withdrawals | earn, release after 30 days, deduct, adjust, withdraw, approve, reject | billing, creation, balance | each row is released or taken back, once; owners have what is theirs |
| Creation and destruction: `routes/instances.ts` 1640-2164 and 6440-6820, `app.ts` 860-960, `routes/instance-destroy.ts`, `db/instance-provisioning-compensation.ts` | row `creating`, counters of the host, address, machine, refund | reserve, create, start, confirm, time out, settle, destroy | hosts, billing, income | a failure pays back once and leaves nothing; what runs has a machine |
| Transfers: `db/transfers.ts`, `routes/transfers.ts` | request, fee, owner and name of the instance | request, accept, push, reject, cancel, clean up | hosts, deletions, metering | row and machine move together; the fee is kept or returned |
| Gift cards: `db/gift-cards.ts` | card, refund | issue, redeem, revoke, disable, enable, delete | balance | no money is made or lost |
| E-mails to users of a host: `db/host-notification-email-tasks.ts`, `workers/hostNotificationEmailWorker.ts` | tasks | enqueue, claim, send, retry, clean up | mail server | one e-mail in each interval, whatever process sends |
| Resource pool and codes: `routes/resource-pool.ts`, `db/resource-pool.ts`, `routes/checkin.ts`, `db/redeem-codes.ts` | pool, logs, size of row and machine | apply, reconcile, redeem | hosts | growth is paid; what differs is marked |
| Mail hosting: `routes/mail.ts`, `services/mail-expiry-scheduler.ts`, `mail-autorenew-scheduler.ts` | subscription, domains, and their state at the provider | buy, renew, expire, suspend, resume, add, delete, verify, cancel | mail provider, balance | domains follow the subscription; nothing is left at the provider unseen |
| Throttling: `services/traffic-scheduler.ts`, `traffic-bandwidth.ts`, `routes/traffic.ts` | `trafficStatus`, limits of the row, bandwidth on the host | job, reset, set limit, change plan, arbitrate | hosts, metering | the host has the speed the status calls for |
| Snapshots: `services/auto-policy-scheduler.ts`, `routes/snapshots.ts`, `db/snapshots.ts` | rows, snapshots on the host, the time of the next run | create, delete, job of the policy with rotation | hosts | quota kept; one old snapshot for a new one; rows match the host |
| Backups and uploads: `routes/backups.ts`, `db/backups.ts`, `workers/backupUploadWorker.ts`, `db/backup-upload-tasks.ts` | rows, copies on the host, tasks, files at the storage | create, delete, clean up; request, claim, stream, cancel, sweep, retry | hosts, storage, restores | quota kept; what is ready exists; what is completed is stored and nothing else |
| Ports and addresses: `routes/instances.ts` 4220-4770, `lib/instance-port-mapping.ts`, `db/port-mappings.ts`, `public-ipv4.ts`, `ip-addresses.ts` | `port_mappings`, proxy devices of machines, addresses | add, add a batch, automatic port, delete; find, reserve, release | hosts, creation, transfer | a row and its devices go together; quota kept; nothing given twice |
| Points, lottery, commissions, balance requests, tickets, accounts, VIP, client | see `PROJECT.json` | | | mostly one transaction per operation |

`PROJECT.json` lists every component with its status, and under `hazards` the steps that are hard
to test, each at its line, with the properties that watch it.

How the parts meet: the three queues share hosts through the tables alone; a deletion claims an
instance under the same lock the queues claim tasks under; a restore is one kind of task, so
`HostTaskQueue` has its execution as a bracket and `RestoreWorkflow` has what happens inside;
renewals, recharges and refunds meet in the balance, which is incremented and decremented under a
lock of its own; rebuilds, restores and transfers meet metering in the baseline and the owner.
Creations and transfers meet destructions in the status of a row, which each of them claims by the
status it has read, and on the host, where they know a machine by its name only. Purchases, refunds
and failed creations meet the release of income in its frozen rows. What metering charges is what
throttling compares, minutes later.

## 3. How the modules relate to the code

A transaction, or a single conditional update, is one action. Between two `await`s that leave the
database, anything else may happen, so an operation with several such steps is several actions of a
*handler*, *worker* or *task* with a program counter (`pc`, `step`, `runner`), and what it has read
is in variables of its own (`seen`, `seenLink`, `readUsed`). Early returns and errors are actions or
disjuncts. What a host or a gateway does is an action of its own, so that it can happen late.
Time is as coarse as the code compares it. `PROJECT.json` maps every definition to its lines.
Definitions named `X_Y` under a comment "Mutation" are plausible mistakes in `X`; nothing uses them
but the check that each property can fail.

Where the code does something a promise cannot survive - it writes a row it has not compared, pays by a
limit read before - the model does it too: no guard keeps such a step from happening. A *history
variable*, which no guard reads, records that it has, and the property names it as its exception
(`crossed`, `trespassed`, `stranded`, `behind`, `hasty`, `undone`, `met`, `direct`, `early`, `torn`). So a
property says exactly what the code keeps, and what it does not keep can be read off the exception;
section 8 lists them with their lines. Failures of other parties (a host, the network, a death) are chosen
by `Faults`, which is a constant, because not every promise holds under each.

## 4. The modules

### HostTaskQueue, HostSlots

`HostTaskQueue` has the rows of the three tables in one array (`job`, `status`, `retry`), the order of their
creation (`older`), the executions (`runner`, `working`), and the processes (`up`, `found`). An entry whose
row has been purged is used again, so tasks come and go for ever although the array is small.

| Action | Code |
| --- | --- |
| `Ask`, `Create` | the route's checks, then the create function under the instance lock, which looks only for active rows of its own table |
| `ClaimLight`, `ClaimNextInstance`, `ClaimNextTransfer` | the claim functions of the three workers under the lock of the host |
| `Begin`, `Refuse`, `Complete`, `Fail`, `Retry` | the brackets of an execution; each ends with a conditional update |
| `FallBehind`, `SweepFind`, `SweepFail` | a row gets older than its timeout; the sweep reads, leaves out what its own process executes, and fails the rest in a second statement |
| `Crash`, `Restart` | a process dies; startup fails all overdue rows |
| `ClaimDelete`, `ClaimExpiryDelete`, `RestoreClaim` | deletions of instances as the queues see them |

`HostSlots` is the abstract promise: the slot of a host is held by any number of light jobs or by
one exclusive job. `SlotsSpec` states that the PROCESSING rows implement it.

### RestoreWorkflow

One instance and its restores. `copies`, `partial`, `deleting` say which names Incus holds complete,
is importing to, is deleting; `current` says whose data the original name stands for. The execution
(`Stop` ... `Complete`), its catch block (`Throws`, `Look`, `Drop`, `Mark`), the rollback route
(`RollbackLook` ... `RollbackMark`) and Incus (`HostImports`, `HostDeletes`, `HostRefusesDelete`)
interleave; every call may fail and the process may die anywhere. `PromptDeletes` says that Incus
ends a deletion before its client gives up; `SharedSweep` that another process may fail the row of
a running restore.

### InstanceBilling

One paid instance. `Handler` is the set of operations in flight; each reads the row (`seen`), waits,
and writes. Version, status conditions and the claims by status are those of the code: a renewal
compares `version`, a deletion claims by the status it read, an extension by an administrator
compares nothing. Amounts are whole periods at one price. `Kinds` chooses the operations that occur. Any of
them may be in flight with any other. History: `crossed` (a quote was paid that overlooked another
payment, `outrun` says which handler holds one), `trespassed` (a deleted row got a status back from somebody
who does not hold it, or was claimed once more), `stranded` (an extension left the row suspended as
expired), `behind` (the handlers whose copy of the row an extension has overtaken).

### RechargeOrder, PaidOrder

One order, the links made for it (`gateway`), its current attempt (`current`), and handlers that
read the order, talk to the gateway and write with a condition on the status. `Pay`, `Lapse` and
`Notices` are the gateway: it may say again, late, whatever was true of a link once. `PaidOrder` is
the abstract promise: an order is open until it is credited or closed, for good; it is credited
once, and only for money that was paid, or on the word of an administrator (`OnTrust`).

### TrafficMeter

Machines with counters (`raw`; `tot` is the history of bytes carried), baselines, usages, the leases
of instance and user, and three kinds of work. A collection and a reset take the lease of the
instance, read the counter on the host, then take the lease of the user and write; a report reads
its counters long before it takes any lease. `Accepted` is the comparison of times that refuses late
samples, `Increment` the comparison with the baseline, `Rest` what a reset leaves to the user.
`Ops` chooses what else happens: restarts of the interface, power, replacement of the machine,
transfer, deletion, crashes, hosts that answer after the lease (`slow`), agents that send no time
(`undated`).

Assumed: all parties agree on one clock and no two samples share a time; the transaction of a
collection is atomic under the lease of the user; the lease of a collection, which the code renews,
does not expire; a replacement stops the machine, deletes the baseline, then starts the new one.
`tot`, `mark` and `baseTot` are history variables.

### HostIncome, MCHostIncome

The rows of the log (`rowState`, `amount`, `due`), the balances of the owners, withdrawals, and the
job of each process that finds what is due (`FindDue`), reads its amounts (`ReadDue`) and only then
takes the lock of each owner and releases (`Release`) or gives up (`GiveUp`). `Earn`, `Deduct`,
`UndoPurchase`, `AddFrozen`, `TakeFrozen`, `AdjustAvailable`, `Withdraw`, `Approve` and `Reject` are
transactions under that lock. `Deduct` takes from the frozen rows of the instance, then from what is
available, then from the balance for purchases. `earned`, `credited`, `offset` and `net` are history:
`IncomeIsOnce` says of each row that what was released and what was deducted do not exceed what it
brought; `OwnersGetTheirs` that balances, frozen rows and open withdrawals make up what an owner has a
right to. `ShrinkRead` lets a deduction shrink a row the release has read, which the third finding is
about.

### Provisioning

The creation of instances on one host (`Reserve` ... `Confirm`), the job that gives creations up after
ten minutes, and destructions, as workers with a step (`pc`), an instance (`on`) and a catch block.
Both a failed creation and the job settle a row with the same steps (`Claim`, `Rollback`, `Release`,
`Refund`), each a statement or transaction of its own that may fail and be logged; the update of the row
from `creating` to `error` decides who does. A destruction may begin at any time. It claims the row, stops
the machine by force if the row ran (`DestroyStop`, whose failure is only logged), deletes it
(`DestroyMachine`, or `DestroyFails`, which writes back the status it had read, whatever has become of the
machine), pays back and writes counters it counted before. `Faults` names what goes wrong: `crash`,
`release`, `rollback`, `refund`, `query`, `stall`; `create`, the host fails to create or start a machine; and
`host`, it fails or obeys unheard at every call. History: `hasty` (a destruction began while a
settlement had still to pay), `undone` (a destruction gave the row back).

### Transfer

One instance and the requests for it. An acceptance takes the request (`Take`), looks at the machine
(`Look`), gives it a new name (`Rename`) and writes owner and name (`Execute`); `RenameFails`,
`ExecuteFails`, `Undo` and `Reopen` are its ways back. Rejections and cancellations close and refund in
two steps. The insertion of a request (`Create`) does not look again at what its checks (`BeginCreate`) have
seen. `CleanupTimeout` and `CleanupStale` put requests back to pending that are worked on too long or were
when another process started, also if somebody is still at it (`met`, history). The owner starts and stops
the machine, and destroys it at any time; a deletion may be obeyed and not heard. `Faults`: `crash`, `host`,
`query`.

### GiftCard, EmailQueue, InstanceResources

`GiftCard` has each operation on a card as one transaction. `EmailQueue` has the worker of each process
(`Claim`, `Send`, `MarkSent` or `RetryOrFail`, `Rest`), the clean-up and crashes, with the clock.
`InstanceResources` has the two ways an instance grows: an application debits the pool, enlarges the row
and leaves a pending log before the machine is patched, and a job reconciles pending logs under a lease
that may run out; a code patches the machine first.

### MailDomains

One subscription (`sub`, `past`), its domains as rows (`row`) and at the provider (`upstream`). The
hourly job suspends what expired (`FindLapsed`, `Recheck`, `SuspendDomain`, `Mark`), compensates if a
renewal came in between (`Renewed`, `Compensate`, `Reopen` or `Hold`), then resumes what is marked
(`FindSuspended`, `ResumeSuspended`, `Keep`). A renewal resumes every domain after its transaction
(`FindRevived`, `ResumeRevived`). `Add` holds the lock of the subscription over the call; `Delete`,
`Verify` and `Cancel` hold none. Every call may be refused or obeyed and not heard, every process may
die, each as one of `Faults`. Assumed: a job or a renewal does not last from one expiry to the next (a
month); `late` drops that for resumptions. A domain that was deleted is not added again.

### TrafficThrottle

The row (`level` of usage, `status`, plan `line`, `limits`), the host (`host`), and jobs and requests
that compare (`Read`), write a status (`Throttle`, `Warn`, `Deliver`, `Restore`) and arbitrate
(`Lock`, `ReadRow`, `Patch`, `Write`). What they compare they have read minutes ago (`seen`).
`Reset`, `SetLimit` and `ChangePlan` are the requests; the last sets the speed of the new plan on the
host without the lock (`SetDirectly`). History: `alone` (nothing else has happened since a handler began,
which `NextPassHeals` needs) and `direct` (the host has what a change of the plan set last). The speed after an overrun is assumed below that of any plan.

### Snapshots

The rows (`rows`, oldest first), the snapshots on the host (`onHost`) and handlers. A job of the policy
(`FindDue`, `Lock`, `Check`, `Count`, `Evict`, `Forget`, `TakeSnapshot`, `Record`, `Date`) makes room by
deleting the oldest automatic snapshot, on the host and then in the table, before it takes the new one,
and starts again after any error (`Again`, `attempt`). A request adds one (`Quota`, `Make`, `Save`,
`Undo`) under the same lock; a deletion (`Delete`, `RemoveSnapshot`, `Erase`) has no lock. `evicted` is
history. `Faults`: `host`, `unheard`, `db`, `crash`, `expire`.

### Backups

The rows of one instance (`row`), the copies on its host (`copies`), the requests that make and delete
them (`maker`, `remover`), and uploads with their tasks (`task`, `late`), executions (`pc`, `overtime`,
`again`) and files at the storage (`stored`, by task and attempt). The answer of the host to a creation
writes the row without comparing it (`Made`), also if the backup was deleted before (`early`, history); a
deletion goes on after any error of the host. An
upload exports, streams, looks at the time, stores its path and completes by a conditional update
(`Export` ... `Finish`), or removes its file and fails or retries (`Clean`, `Settle`), while the owner
cancels and sweeps fail what is late. `Faults`: `host`, `unheard`, `crash`, `net`, `litter`, `nodes`.

### PortMappings

Ports as rows (`rows`, `managed` for those that do not count), the proxy devices of each machine
(`devices`), the lock of each instance, and handlers (`work`). A single addition is a batch of one:
`Add`, `Lock` or `Busy`, `Quota`, then for each port `Check`, `Reserve`, and `Fetch` and `Put` for each
device, which are the two halves of reading all devices and writing them back. Its ways back are three:
the catch block (`Undo`), the return of a batch that meets a taken port (kind `back`), and the early
return. `Delete` removes devices, then the row (`Forget`); `gone` remembers that a row known by its id
was deleted by somebody else, and `torn` (history) the ports whose new rows lost devices to a deletion of the
row before. `Strip` is what a transfer does. A port stands for a number with a protocol. `Faults`:
`refuse`, `host`, `unheard`, `crash`, `expire`, `auto`, `transfer`.

### MCServices

The eleven services above share no state, so their runs are one: each behaviour is of one service with
one of its sets of faults, chosen by `mix` in the initial state, and the variables of the others
have a single value. This adds no interleavings and hides none.

## 5. Runs and bounds

| Run | Question | Bounds | Distinct states |
| --- | --- | --- | --- |
| `host_queue` | Are the tables consistent whatever processes, users and sweeps do? Do they implement `HostSlots`? | 2 processes, 1 host, 2 instances, 2 rows at a time, 1 crash, 1 deletion, 1 retry | 3.0 M |
| `host_queue_live` | Does execution on the host match the tables, and who may wait for ever? | 1 process that may die once, 2 rows at a time and no end of tasks, 1 deletion | 0.8 M |
| `restore` | Is there always a copy, and does the row tell the truth? | 3 restores and their rollbacks, any number of crashes | 1.0 M |
| `restore_slow_host` | The same if Incus goes on after the client has given up: violated | 3 restores | - |
| `billing` | One deletion, bounded refunds, paid time, expired deletions only? | see below: 2 operations in flight, 3 periods paid, 3 ticks | 3.9 M |
| `recharge` | Does the order implement `PaidOrder`? | 2 links, 2 requests in flight, 1 refund request at a time | 0.2 M |
| `recharge_live` | Is what was paid credited in the end? | as above | 10 k |
| `recharge_expiry` | Is an order that was paid kept open for its grace: violated | as above, 4 operations | - |
| `traffic` | No byte twice, none from before a reset, no baseline backwards? | 1 instance, 2 users, one work of each kind, 2 bytes, 3 samples | 3.2 M |
| `traffic_users` | Is the usage of a user the sum of his instances'? | 2 instances, 1 user, 1 byte each, 3 samples | 2.7 M |
| `services` | What the eleven services promise, each under its faults | see below | 2.7 M |
| `host_income_partial` | Is what is released what a row still has: violated | as `income` below, with `ShrinkRead` | - |

`billing` has one of five sets of operations in each behaviour (`MCInstanceBilling`), because fourteen at once
are too many for TLC; within a set nothing keeps two of them apart. Which operations must meet for a
property is what the sets were chosen by; the theorems are for all fourteen at once.

| `mix` | Operations |
| --- | --- |
| `renewing` | renewals by hand and by the job, which is turned on and off, expiry and its deletion |
| `deleting` | renewal, destruction, deletion by an administrator and by the owner of the host, refund |
| `suspending` | suspension and release by hand, expiry and its deletion, destruction, deletion by the owner of the host |
| `extending` | renewals by hand and by the job, paid extension, extension of all, expiry and its deletion, destruction |
| `giving` | renewal, free extension, gift, expiry and its deletion, destruction |

What `services` has in each of its behaviours:

| `mix` | Instance | Faults | States |
| --- | --- | --- | --- |
| `income` | 1 owner, 1 instance, 2 rows, 1 withdrawal, 2 processes | busy locks, deaths of jobs | 0.30 M |
| `faulty` | 1 instance, 3 workers, 1 address, capacity for 2 | `crash`, `release`, `refund`, `host`, `stall`, `query` | 56 k |
| `smooth` | 2 instances, 2 workers, 1 address, capacity for 2 | `rollback`, `create` | 0.23 M |
| `moves` | 2 requests, 2 handlers, 3 names, 1 refund | | 0.35 M |
| `faultyMoves` | 1 request, 3 handlers, 3 names, 2 refunds | `crash`, `host`, `query` | 0.38 M |
| `cards` | 2 cards, 2 users | | 316 |
| `emails` | 2 tasks, 2 processes, 1 retry, 7 ticks | deaths, clean-ups | 98 k |
| `growth` | 2 applications, 2 codes, a pool of 2, 3 handlers | `crash`, `host` | 31 k |
| `mails` | 2 domains, 2 handlers | `lost`, `slow`, `busy`, `cancel` | 28 k |
| `crashedMails` | as `mails` | `crash`, `slow`, `busy`, `cancel`, `verify` | 21 k |
| `faultyMails` | as `mails` | `crash`, `refuse`, `lost`, `late`, `busy`, `verify` | 35 k |
| `throttling` | 1 instance, 2 handlers | | 52 k |
| `faultyThrottling` | as `throttling` | `wait`, `expire`, `host`, `crash` | 0.50 M |
| `snapshots` | 2 handlers, 2 snapshots, a quota of 1, 2 attempts | `host`, `expire` | 31 k |
| `fullSnapshots` | 2 handlers, 3 snapshots, a quota of 2, 2 attempts | `host`, `crash` | 83 k |
| `lostSnapshots` | as `snapshots` | `host`, `unheard`, `db`, `crash` | 5 k |
| `backups` | 2 backups, 1 upload, a quota of 1, 1 retry | `host`, `unheard`, `net` | 37 k |
| `uploads` | 1 backup, 2 uploads, 1 retry | `net`, `litter`, `nodes`, `crash` | 0.17 M |
| `ports` | 2 instances, 2 ports, 2 handlers, 2 devices for a port, a quota of 2 | `refuse` | 30 k |
| `faultyPorts` | as `ports`, a quota of 1 | `host`, `crash` | 0.11 M |
| `openPorts` | 1 instance, 2 ports, 2 handlers, 1 device for a port, a quota of 1 | `auto`, `transfer`, `unheard` | 0.16 M |

Each property of `services` is one of the named component's, under the faults for which it holds:
`IncomeIsOnce`, which has `OwnersGetTheirs` beside it (`income`); `PaidBackOnce`, of `Provisioning`
(`faulty`, `smooth`) and as `FeeOnce` of `Transfer` (`moves`, `faultyMoves`); `RunningHasMachine` (`faulty`,
`smooth`); `FailureLeavesNothing` (`smooth`); `MovesWithMachine` (both mixes of transfers); `MoneyIsKept`;
`Throttled`; `PendingUntilPatched`; `DomainsFollow` (`PaidIsMarked` in `mails`, `UnpaidIsSuspended` in
`crashedMails`), `NothingHidden` (`faultyMails`); `BandwidthFollows` (`throttling`, which has changes of the
plan), `NextPassHeals` (both); `CopiesKept`, of `Snapshots` (`RowsMatchHost`, `OneForOne`, `QuotaKept`) and of
`Backups` (`QuotaKept`, `ReadyIsOnHost`, `CompletedIsStored`, `NothingStray`); `PortsKept` (`RowsAreServed` in
`ports`, `NothingHidden` there and in `faultyPorts`, `QuotaKept` in `faultyPorts` and `openPorts`). The
exceptions of their history variables are part of them. What breaks them under other faults is in section
8; where one property of `MCServices` joins several, some have a mutant of their own.

Why they are enough. The conflicts are between two operations that both saw the row before either
wrote, or between one operation and a host that acts late; two in flight, of any kinds, and a third
that starts when one ends, make all of them. In `faulty` and `faultyMoves` the third worker is a party of its
own: a destruction beside a creation and the job that gives it up, a rejection beside two acceptances of a
request that a clean-up put back. For the queues the third table matters, not the third task: kinds are
chosen freely for each of the rows, and rows are used again. So a queued upload that waits while restore
after restore is claimed before it is in `host_queue_live`; a heavy task beside light tasks that
overlap without end takes a third row, and `PendingServed` excepts it by the same clause. Two bytes and three samples are a baseline, an
increment, and a sample that is too late for either. Periods are 2 ticks so that one can be before,
in and after the window of the auto-renew job. Every property of a passing run is violated by a mutant
of the code within these bounds, so none holds because nothing happens. What a bound might hide the
theorems of section 7 exclude for the properties they state. Symmetry is used for processes,
instances, handlers and the links made after the first, which the modules never tell apart, and
never in a run with liveness. Deadlock is not checked where bounded models stop: when all tasks,
links or periods are used up.

## 6. Fairness

`HostTaskQueue`: the poll timer (`workers/instanceTaskWorker.ts` 2731-2748) and the sweep
timer of a running process fire again and again, so claims and sweeps are weakly fair; an execution
ends because each call to a host has a timeout; processes are restarted; time passes. Weak fairness
of `ClaimNextInstance` is per process and host, as each poll visits each host in turn. Crashes,
requests and cancellations are not fair. Weak fairness of a claim does not serve a task the claims of other
queues keep passing, and no stronger fairness would be justified: a claim that is possible only in the
moments between other work may miss all of them. So `PendingServed` says who may wait for ever, and who may not:
a task that stays pending is passed again and again by work of its host that the code lets pass it, another
queue's or, for a heavy task, a light one; it is not forgotten by its worker, by a crash, or for a later
task of its own queue. Its premise is that no pending task of a deleted instance stays (section 8).

`RechargeOrder`: the gateway repeats a callback until it is acknowledged, so a paid notice is handled
again and again (strong fairness, for each attempt at handling may meet a dying process); requests
end; the server does not die in every one of them.

Nothing else is assumed fair; `restore`, `billing`, `traffic` and `services` are safety only. For the
services that retry, what must eventually happen is stated as safety instead: the mark that makes the
next job try again is there (`PaidIsMarked`, `PendingUntilPatched`), and a pass that is not disturbed
heals (`NextPassHeals`).

## 7. Proofs

All theorems are checked by TLAPS from nothing; no step is omitted. They hold for every number of
processes, tasks, links, handlers, instances, users and bytes; the assumptions on constants are the
named `ASSUME`s of the modules, which the runs evaluate, and for a service the definition
`<Service>Constants`, a hypothesis of its theorems that `MCServices` assumes of every instance.

| Module | Theorems | Hypothesis |
| --- | --- | --- |
| `HostTaskQueueProofs` | `TypeCorrect`, `HostExclusiveAlways`, `OneActiveAlways`, `OwnerDeletesIdleOnlyAlways`, `TerminalIsFinalAlways`, `ImplementsHostSlots` | none |
| | `SweepsSpareExecutions`, `OneHeavyWorkAlways` | one process |
| `RestoreWorkflowProofs` | `TypeCorrect` | none |
| | `LastCopyAlways`, `PlainFailureAlways`, `CompletedAlways` | `PromptDeletes /\ ~SharedSweep` |
| `InstanceBillingProofs` | `TypeCorrect`, `RefundsBounded`, `ClaimsExclude`, `ChargesAddTime`, `JobDeletesExpired`, `JobPaysNextPeriod` | none |
| | `NoRowWithoutMachine` | `PromptDeletes` |
| `RechargeOrderProofs` | `TypeCorrect`, `ImplementsPaidOrder` | none |
| | `MarkedAlways` | no notices of payments under way |
| `TrafficMeterProofs` | `TypeCorrect` | none |
| | `OldTrafficOut`, `BaselinesForward` | no `slow`, `undated`, `power`, `replace` |
| | `NoUpdateLost` | no `transfer` |
| | `UserUsageAlways` | no `transfer`, `delete`; finitely many instances |
| `InstanceProofs`: creation | `TypeCorrect`, `RunningHasMachineAlways`, `PaidBackOnceAlways` | none |
| | `FailureLeavesNothingAlways` | at most `rollback`, `create` |
| transfer | `TransferTypeCorrect`, `MovesWithMachineAlways`, `FeeOnceAlways` | none |
| growth | `GrowthTypeCorrect` | none |
| | `GrowthIsPaidAlways` | no `slow`, `beside` |
| | `PendingUntilPatchedAlways` | no `slow`, `beside`, `half` |
| e-mails | `EmailTypeCorrect`, `ThrottledAlways`, `AttemptsAreCountedAlways` | none |
| gift cards | `CardTypeCorrect`, `RefundedIsDeadAlways`, `MoneyIsKeptAlways` | none |
| income | `IncomeTypeCorrect` | none |
| | `IncomeIsOnceAlways`, `OwnersGetTheirsAlways` | no `ShrinkRead` |
| `OutsideProofs`: ports | `PortTypeCorrect` | none |
| | `PortQuotaKept` | no `expire` |
| | `PortsNotHidden` | no `auto`, `transfer`, `unheard`, `expire` |
| | `RowsAreServedAlways` | at most `refuse` |
| snapshots | `SnapTypeCorrect` | none |
| | `SnapQuotaKept` | no `expire` |
| | `OneForOneAlways` | at most `host`, `crash` |
| | `RowsMatchHostAlways` | at most `host`, `expire` |
| backups | `BackupTypeCorrect`, `BackupQuotaKept`, `CompletedIsStoredAlways` | none |
| | `ReadyIsOnHostAlways` | no `crash` |
| | `NothingStrayAlways` | no `crash`, `litter`, `nodes` |
| bandwidth | `ThrottleTypeCorrect`, `NextPassHealsAlways` | none |
| | `BandwidthFollowsAlways` | no faults |
| mail | `MailTypeCorrect` | none |
| | `NothingHiddenAlways` | no `cancel`, `slow`, `unheard` |
| | `PaidIsMarkedAlways` | no `refuse`, `unheard`, `crash`, `late`, `verify` |
| | `UnpaidIsSuspendedAlways` | no `refuse`, `unheard`, `lost`, `late` |
| `ServicesProofs` | the above for `MCServices`: `RunningHasMachineAlways`, `PaidBackOnceAlways`, `FailureLeavesNothingAlways`, `MovesWithMachineAlways`, `PendingUntilPatchedAlways`, `ThrottledAlways`, `DomainsFollowAlways`, `NothingHiddenAlways`, `BandwidthFollowsAlways`, `NextPassHealsAlways`, `CopiesKeptAlways`, `PortsKeptAlways`, `IncomeIsOnceAlways`, `MoneyIsKeptAlways`, `TypeCorrect` | its constants |

Each hypothesis about faults is as weak as the code allows: section 8 tells what happens under each fault
that a theorem excludes, and most of these theorems allow more faults at a time than the runs, which keep
the faults of a mix few to stay small. `none` means that every operation and every fault of the module may
occur; the exceptions that a property of history variables has are in the property, and section 8 says for
each how it comes about.

**HostTaskQueue.** The invariants are inductive one by one beside `TypeOK`; the claims are made under
the lock of the host, so the guard of a claim is the invariant for the row it adds. With one process an execution
always has its row in progress, because that process's sweep passes over what it executes itself and a
startup finds nothing executed; so what runs at a host is what the rows say.
`ImplementsHostSlots` maps each step to one job taking or leaving a slot, or several leaving (a sweep).

**RestoreWorkflow.** `LastCopy` alone is not inductive. `Survivor` says who has the copy once the
original is gone: one task whose rollback has not begun and that is past the point where it would
delete the copy. It needs `DeletionHasCopy` (while Incus deletes the original, its task waits or is
dead, and its copy is complete), `OriginalSeen` (who drops a copy has seen an original nobody
deletes), and that one task is active at a time.

**InstanceBilling.** Until somebody writes over a deleted row (`trespassed`), a row that may still be given back
is claimed by one handler, and one nobody can give back is `Dead` and stays so (`GoneIsDead`). For the
refunds, `QuotesOwed`: what is paid and a quote together stay within the payments, unless the quote's handler
is in `outrun`; `LastPayment`: payments and their records differ only once a deletion by the owner of the host,
which writes no record, has left the row dead, and then no deletion pays any more - only a refund by an
administrator may, and that one has overlooked it. `FreshExpiry` says that an unchanged version means an
unchanged expiry, unless an extension has moved it (`behind`). That the job deletes only what is expired does
not follow from its claim, which compares version and suspension but not the expiry: `OverdueRow` says that what is
suspended as expired was over when it was suspended, and `OverdueKnown` that whoever may give the row back, renew it or
write all of it back knows of the suspension; an extension that leaves it standing is `stranded`. That a round pays for
the next period only follows from `RoundInWindow` (what it has read is in the window) and from the version.

**RechargeOrder.** `PaidFirst` says that a handler about to credit has seen a link paid;
`KnownLinks` and `FreshLinks` that no handler works on a link not made yet, and that a link in the making
has no marks. For `MarkedIsSettled`: who is about to mark has settled the order, and what a handler saw
settled is settled.

**TrafficMeter.** `OldTrafficStaysOut` is `used + mark <= tot`. Inductive is that the bytes after the
baseline and those charged are disjoint: `used + mark <= baseTot`, baseline and samples in flight
are points of one history in which later times have larger totals, and who has the lease of an instance
is the only one whose sample may still be accepted, or it is older than the baseline and refused.
`NoUpdateLost` follows from who holds the lease of the user between the read and the write. On it rests
`UserUsageIsSum`: a collection and a reset change what an instance has used and what its user has used by
the same amount, the reset because what it has read of both is still so when it writes.

**Provisioning.** `RunningHasMachine` rests on the worker that creates being alone with its row until it
confirms (`EarlyIsAlone`) and on one worker at a time claiming it (`OneDestroys`); a destruction that fails
is the exception by `undone`. For `PaidBackOnce`: who settles is alone with the row but for a destruction that
was `hasty`, who pays has claimed it alone (`SettlesAlone`, `PaysAlone`), and what a destruction quoted
before its claim is still right when it pays (`QuotesInTime`). `FailureLeavesNothing`
says of a failed row that nobody is at it any more and nothing is left. Inductive is the other half: what
is left has somebody who will deal with it. `Refunds`, `Addresses` and `Remains` name him: a worker on the
row whose remaining steps pay, release, stop or delete (`WillRefund`, `WillRelease`, `WillStop`,
`WillDelete`). They rest on six invariants about beginnings (`CreationsAreFresh` to `HolderKnown`): above
all `NothingYet`, that a creation that fails before it asks for a machine has none to delete, also if
the job for stuck creations has claimed the row first.

**Transfer.** `MovesWithMachine` holds because names are fresh: a handler between `Rename` and `Execute`
knows a name nobody else has (`names` counts those given), so if it is not the machine's, the rename
was undone or the machine is gone, and the transaction finds another request or row. `FeeOnce` needs
that one handler at a time works on a request (`MovedIsProcessing`) and that a refund under way belongs to
a closed one (`FeeIsOwed`, `RefundedIsClosed`), both until a clean-up has put back what was being worked on
(`met`).

**InstanceResources.** `OneWorks`: whoever works on a size has the lease, which outlasts it. `ReadIsTrue`:
so what it has read is still so, and between an application's transaction and its patch the row is ahead
of the machine by what it applies, with its log pending. `PendingUntilPatched` and `GrowthIsPaid` (the
size is what the pool gave and the codes brought) follow step by step.

**EmailQueue.** `LastIsSeen`: the last claim is either recorded in a row, so that the next claim's look at the
rows finds it, or longer ago than an interval; clean-ups and retries keep rows recent enough for that.
`AttemptsAdd` says what became of each claim of a task; `SendersHaveClaimed` counts the e-mails sent and
about to be sent with the claims.

**GiftCard.** `CardsTyped` adds to the types that a card a user has paid for is disabled or deleted if and only
if it was paid back; so what is redeemed was not paid back, and what is taken away was. `MoneyIsKept` goes
by what a step does to the wallets, the live cards and the gifts: one of each of two changes, or none.

**HostIncome.** `ReadsKnown`, beside the types: what a job has read of a row is what the row still has, as
long as it is frozen, and that is what `ShrinkRead` takes away. `IncomeIsOnce` then goes row by row, each
step by what it does to rows (`AddStep`, `TakeStep`, `ReleaseStep`, `UndoStep`, or nothing).
`OwnersGetTheirs` takes the sum over the frozen rows of an owner and over his open withdrawals through the
same cases; a job that releases many rows at once is the case that needs the sum over a set to be the
sum of its two parts.

**Sums.** `MapThenSumSet` of the community modules is recursive over data, and the induction theorems of the
library cannot be used. But that the subsets of a finite set are well-founded by inclusion can: every set of
finite sets has a smallest one (`SmallestSet`), so a lemma about sums is proved by taking the smallest of
the sets for which it is false. `BodyExists` shows that the recursive function exists, `SumPick` that it
adds the chosen element, `SumRemove` that it might be any element; `SumSame`, `SumChange`, `SumAdd`,
`SumWithin`, `SumConstant` and `SumWithout` are what the models need. `TrafficMeterProofs` has the few it
needs once more: the specifications that the two modules of proofs extend share names.

**PortMappings.** The handlers' records are typed by `Shape`, by kind and step. `Roomy` strengthens the quota:
who adds ports holds the lock of the instance, and the ports it has still to reserve fit (`Fits`).
`NothingHidden` becomes `Known`: what a handler that holds the lock has read of the devices is what they
are, each device of a port it has made is on its list of things to remove, and so is each device of a row
about to be dropped. For `RowsAreServed`: `Owned`, that each row in the making or going belongs to one
handler and nobody drops it meanwhile, and `Served`, that a row has all its devices or a handler with the
lock that is at them, or has lost them to the deletion of the row before (`torn`). `Effects` says once what any step may change, so that these three need not look
into every action again.

**Snapshots.** The same in small: `SnapRoomy` is the quota with the room that a handler with the lock has
made sure of; `SnapSpent`, that a job that has given up an old snapshot has room until its new one is
there, so its next attempt finds nothing to evict; `SnapMatched`, that no snapshot has two rows, and one
just made is new and on the host, one given up is gone.

**Backups.** Unless a deletion has begun (`early`), an answer that is to come finds its row still `creating`
(`MadeIsCreating`), so it may overwrite it: the quota counts the row already (`Sound` are the rows it answers for),
and what becomes ready is there (`MadeIsThere`).
`StoredIsThere`: the file of an execution past its upload is stored, and only the execution of that
attempt removes it. `NothingStray` needs in addition that an execution has its row in progress
(`ExecutesProcessing`), which sweeps of other processes and deaths break.

**TrafficThrottle.** `OneArbitrates`: who arbitrates holds the lock, and what it sets on the host is what it
will write, unless a change of the plan sets the host meanwhile (`direct`), and then the host has the speed of
the new plan (`DirectIsLine`). `SpeedFollows`: host and row have the right speed, but for that, or somebody who has not read the row yet
will arbitrate, or somebody who has read it read what is still so. `NextPassHeals` holds under every
fault: `AloneIsExact` follows a pass that is alone from what it read to what it writes.

**MailDomains.** `Promised` strengthens `NothingHidden` with the handler that is about to insert a row.
For `PaidIsMarked`, `InHand`: a domain that is down and not marked, or about to lose its mark, is in the
hands of a job that will mark or resume it; it needs `InPeriod` (who works for an expired subscription
still does or it was renewed; who resumes does so for one that is paid for) and `Unmarked` (a job that could not mark
a domain of an expired subscription has seen it deleted). For `UnpaidIsSuspended`, `MarkedIsDown`:
while the subscription is active, what is marked is gone or a renewal has still to look at it
(`Reviving`), so nothing that is up carries a mark into the next expiry.

**MCServices.** A service of the composition is an instance of its module with the faults of one mix, and the
theorems above are about the module for all constants. `ServicesProofs` brings them together: it takes the
two modules of proofs with the constants and faults of the mixes (`Rough`, `Calm`; `Refusing`,
`Crashing`, `Unheard`), shows for each mix that the instance of `MCServices` and that of the proofs have
the same initial states, steps and properties, that a behaviour stays in its mix, and so that it is one
of the service. A theorem about a property of the runs is then one case per mix.

The type invariants of all modules are proved; `services` checks that of the services, the others need no
run any more. Every invariant and every action property that a passing run checks is stated by a theorem.

Only model-checked: liveness (`HostFreed`, `PendingServed`, `PaidIsCredited`), since fairness and `ENABLED`
are out of the prover's reach. No module uses a RECURSIVE operator.

## 8. Where the code does not keep what the models assume

Three of these are shown by runs of their own:

* `restore_slow_host`: `deleteInstance` gives up after 120 s while Incus goes on; the catch block
  finds the original still present, deletes the copy, and both are gone
  (`workers/restoreTaskWorker.ts` 418-430). Hence `PromptDeletes`.
* `recharge_expiry`: a new link asked for after the expiry cancels the order at once
  (`routes/recharge.ts` 1297), although the cleanup job keeps it for a grace because callbacks may be
  late (`services/billing-scheduler.ts` 709).
* `host_income_partial`: the release of frozen income adds the amounts it read before it took the lock of
  the owner (`services/hosting-scheduler.ts` 103); its update compares only that the rows are still frozen
  and due, so a row that a deduction has shrunk in between is released with its old amount, although the
  comment above it (87-88) says the condition is there to avoid that. Hence `ShrinkRead`.

The next are exceptions the properties state: the models do what the code does, without a guard, and a
history variable records it. Each can be seen by striking the exception from its property.

| Exception | What happens | Code |
| --- | --- | --- |
| `crossed` in `RefundsWithinPayments` | two refunds by administrators pass the same limit, read before the transaction that pays, although the comment above `getMaxRefundable` defines it as what was paid less what was paid back; or a deletion by the owner of the host pays back without a billing record, and a refund does not see it | `routes/admin-billing.ts` 1962, `routes/instances.ts` 4003-4065, `db/billing-operations.ts` 146 |
| | a refund between the quote of a destruction and its payment is not in the quote | `routes/instance-destroy.ts` 1217 |
| `trespassed` in `OneClaim`, `GoneIsDeleted`, `RefundsWithinPayments`, `ExpiryDeletesOnlyExpired` | extensions, gifts, suspensions and releases write by id what they decided from an earlier read, and so give a deleted row a status again; the deletion by the owner of a host claims a row in the status it has read without refusing `deleted` | `routes/admin-billing.ts` 1767-1885, `routes/hosts.ts` 6890-6935, `db/instances.ts` 652-683, `routes/instances.ts` 348, 3901 |
| `stranded` in `ExpiryDeletesOnlyExpired` | an extension that has read the row before it was suspended, or of all rows, moves the expiry and leaves the row suspended as expired; the job deletes it in its time | `routes/hosts.ts` 5213, `routes/admin-billing.ts` 1825 |
| `behind` in `ChargedTimeIsAdded`, `AutoRenewalPaysNextPeriodOnly` | an extension leaves the version alone, so a renewal that has read the row before writes its own expiry over it | `routes/admin-billing.ts` 1825, `routes/hosts.ts` 5213, 6919 |
| `hasty` in `PaidBackOnce` | a failed instance is destroyed between the claim of its settlement and the payment: both pay back, for the destruction looks at payments of before and the settlement only for a refund of its own kind, although the comment on the claim calls it the gate that makes compensation idempotent | `routes/instance-destroy.ts` 1217, `db/instance-provisioning-compensation.ts` 9-182, `routes/instances.ts` 6458 |
| `undone` in `RunningHasMachine` | a destruction stops the machine by force, then the deletion is refused, fails or is not heard: the row is `running` again, with its machine stopped or gone | `routes/instance-destroy.ts` 304-312, 1225-1231 |
| `met` in `FeeOnce` | a clean-up puts a request back that is being accepted; it is cancelled with its fee, then accepted all the same | `db/transfers.ts` 53-77 |
| `direct` in `BandwidthFollows` | a new plan sets its speed on the host after the arbitration, of a throttled instance too, although the arbitration calls itself the single point that decides it | `routes/instance-billing.ts` 897, `services/traffic-bandwidth.ts` 100 |
| `early` in `QuotaKept`, `ReadyIsOnHost` | a backup that was deleted while it was created is ready again when the host answers: beyond the quota, or without a copy | `routes/backups.ts` 221, `db/backups.ts` 170 |
| `torn` in `RowsAreServed` | a request to delete a row has read it before the lock; meanwhile it is deleted and its port mapped anew: the devices of the new row are removed, and the row stays | `routes/instances.ts` 4367 |
| `Passed` in `PendingServed` | a heavy task, a restore or an upload is claimed only in a moment without other work; light tasks and the other queues, which nothing limits, may leave none | `workers/restoreTaskWorker.ts` 165-190, `workers/instanceTaskWorker.ts` 464-511 |
| `NoStranded` in `PendingServed` | a task of a deleted instance heads its queue on that host and nothing behind it is served | `workers/restoreTaskWorker.ts` 175 |

Beside these, the insertion of a transfer does not look again at the owner and the state its checks have seen
(`db/transfers.ts` 100-200); no property of transfers depends on it.

The others are why theorems have hypotheses and runs leave faults out. Each was found by relaxing
the hypothesis in a configuration and can be seen that way again:

| Relaxation | What happens | Code |
| --- | --- | --- |
| two processes, `OneHeavyWorkPerHost` | the sweep of one process fails a task the other executes, and the next claim works beside it | `workers/restoreTaskWorker.ts` 83 |
| `SharedSweep` | a rollback starts the original and drops the copy while the execution deletes the original | `routes/backups.ts` 1042 |
| a renewal between quote and claim | it is paid and not in the refund | `routes/instance-destroy.ts` 1217 |
| `PromptDeletes` for `GoneIsDeleted` | the host deletes after it was taken to have failed, and the row is given back | `routes/instances.ts` 3907-4000 |
| the refund of a destruction fails | nothing tries it again | `routes/instance-destroy.ts` 385 |
| notices of payments under way (`pending`) | `paymentDetails` is written back as read; a new link is undone | `db/recharge-records.ts` 276 |
| failures of old links | the end of a replaced link closes the order of the new one | `routes/recharge.ts` 2829 |
| `sync` | asks for the first link, whatever the current one is | `routes/admin-billing.ts` 3318 |
| refunds of a credit | each is limited, their sum is not | `routes/orders.ts` 729 |
| `slow` | a reset overwrites a newer baseline with a late sample | `db/traffic.ts` 733 |
| `undated` | a report dated on arrival puts the baseline back | `services/agent-instance-report.ts` 159 |
| `power` | the machine runs while its row says stopped; a reset keeps the old baseline | `db/traffic.ts` 106 |
| `transfer` | usage moves with the instance but stays with the old user; a reset writes a user whose lease it does not hold | `db/traffic.ts` 772 |
| `delete`, sum per user | the usage of a deleted instance stays with the user | `routes/instances.ts` 4091 |
| one reset fails | the loop over all instances ends | `db/traffic.ts` 837 |
| any one of `crash`, `stall`, `host`, `release`, `query`, `refund` for `FailureLeavesNothing` | a failed creation keeps its address, its machine or its money, and nothing tries again | `routes/instances.ts` 6448 |
| a destruction | it never releases the public IPv4; counters of the host are those it counted before another reservation | `routes/instance-destroy.ts` 1278 |
| a destruction while a transfer goes on | the row is deleted and the machine, renamed, lives on | `routes/transfers.ts` 531 |
| a death between `Rename` and `Execute` | the row names a machine that is not there | `routes/transfers.ts` 533 |
| the lease of a reconciliation runs out, or a code beside an application | the machine gets a size that was read before another growth | `routes/resource-pool.ts` 115, `routes/checkin.ts` 283 |
| `crash` for `PaidIsMarked` | the job suspends a domain whose subscription was just renewed and dies before it compensates; the domain stays down, unmarked | `services/mail-expiry-scheduler.ts` 91 |
| `refuse` for `PaidIsMarked` | the job's own resumption fails and marks the domain, then the earlier answer of the renewal takes the mark away | `routes/mail.ts` 82 |
| `unheard` for `PaidIsMarked` | a suspension that was obeyed and not heard is taken for one that failed, and not compensated | `services/mail-expiry-scheduler.ts` 92 |
| `lost` and `verify` | the verification of a domain that waits for its resumption overwrites the mark | `routes/mail.ts` 1870 |
| `refuse`, `lost`, `late` for `UnpaidIsSuspended` | a mark left from one period hides the domain from the suspension in the next | `services/mail-expiry-scheduler.ts` 61 |
| `slow`, `unheard`, `cancel` for `NothingHidden` | the transaction that adds a domain ends after the provider has created it; a cancellation does not see it | `routes/mail.ts` 1789 |
| `wait`, `expire`, `host`, `crash` for `BandwidthFollows` | status and bandwidth differ until the next undisturbed pass | `services/traffic-bandwidth.ts` 150 |
| `crash`, `unheard` for `RowsMatchHost` | a row stays whose snapshot is gone: the rotation meets it first each time, and its owner cannot delete it | `services/auto-policy-scheduler.ts` 138, `routes/snapshots.ts` 289 |
| `db` for `OneForOne` | the snapshot is taken and the time of the next run is not written: the run starts again, gives up another old one and takes another | `services/auto-policy-scheduler.ts` 162 |
| `expire` for `QuotaKept` of `Snapshots` | two count before either adds | `routes/snapshots.ts` 177 |
| `nodes`, `litter`, `crash` for `NothingStray` | a task is failed after its upload has looked at the time for the last time, or the clean-up fails or nobody does it: the file stays | `workers/backupUploadWorker.ts` 298, 338 |
| `unheard` for `NothingHidden` of `PortMappings` | a device that was made and not heard of is not among those the catch block removes; its row is deleted, the port goes to somebody else | `lib/instance-port-mapping.ts` 192 |
| `host`, `crash` for `RowsAreServed` | a deletion that fails between two devices, or a catch block, which ends at its first error, leaves the row, although the comment above it (99) says no mapping is left hanging | `lib/instance-port-mapping.ts` 209 |
| `auto` for `NothingHidden` of `PortMappings` | the port of a new instance is made without the lock its comment (101) asks the caller to hold: the two write back each other's devices | `lib/instance-port-mapping.ts` 47 |
| `transfer` for `NothingHidden` of `PortMappings` | a transfer removes the first device of a port only; the second, `-v6`, stays on the machine of the new owner | `routes/transfers.ts` 642 |
| `expire` for `QuotaKept` of `PortMappings` | a batch lasts longer than its lock of two minutes; two count before either writes | `routes/instances.ts` 99 |

## 9. Not modelled

Formatting, signatures, permissions, rate limits and logs. In the modelled parts: what an instance task
does on its host between begin and end (one step); the restore of a snapshot, changes of its policy, what each
kind of storage does with a file; the choice of a free port, and IPv4 and IPv6 addresses beyond the one of
`Provisioning`; the manual payment
channel and payments below the price; daily totals and the extra quota of traffic, the status and the
warnings of users; the idempotency key of a creation, IPv6 quotas; the money of a change of
plan; what a mail subscription costs and pays back (its refund counts the payments of the other
subscriptions of the user too, `routes/mail.ts` 150-177), mailboxes and their usage; how resources come
into the pool.

Parts without a module, with the reason for each, are in `PROJECT.json`: most of them are single
transactions under one lock (points, check-in, lottery, balance requests, commissions, VIP levels), reads
and single writes (tickets, inbox, friends, logs), checks of one request (accounts, sessions, permissions),
or input and output (client, terminal, images, the Incus client, whose failures are choices of the host in
every module). About nine tenths of the lines of the repository are the browser client, its texts, route
validation and formatting, so the share of lines the modules stand for stays small.

## 10. Plan

Done, in this order: `HostSlots`, `HostTaskQueue`, `RestoreWorkflow`, `InstanceBilling`, `PaidOrder`,
`RechargeOrder`, `TrafficMeter`, then `HostIncome`, `Provisioning`, `Transfer`, `GiftCard`, `EmailQueue`,
`InstanceResources`, `MailDomains`, `TrafficThrottle`, `Snapshots`, `Backups`, `PortMappings` with
`MCServices`, and the proofs of section 7.

Next, most important first:

1. Liveness of the services that retry (`EmailQueue`, the reconciliation of `InstanceResources`, the
   resumption of `MailDomains`) under the fairness of their timers.
2. Addresses (IPv4, IPv6 subnets) under their indexes, beneath `Provisioning`.
3. `RefundQuote`: the arithmetic of `lib/billing-calc.ts` as operators against a reference definition.
