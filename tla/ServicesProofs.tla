--------------------------- MODULE ServicesProofs ---------------------------
(***************************************************************************)
(* Proofs about MCServices for any number of processes, handlers and items:*)
(* what the runs check of its services on small sets.                      *)
(*                                                                         *)
(* A behaviour of MCServices is one of a single service (OneMix), so that  *)
(* the theorems about the services carry over to it.                       *)
(***************************************************************************)
EXTENDS MCServices, TLAPS

(* No step changes the service of a behaviour.                             *)
LEMMA OneMix == [Next]_vars => mix' = mix
  BY DEF Next, vars

LEMMA OtherMix == ASSUME NEW m PROVE ~(mix = m) /\ [Next]_vars => ~(mix = m)'
  BY OneMix

-----------------------------------------------------------------------------
(* The theorems of InstanceProofs, with the faults of each mix             *)

Rough == INSTANCE InstanceProofs
    WITH Row <- {"i1"}, Worker <- Handler, Address <- {"a1"},
         Capacity <- 2, PortTotal <- 2, Deposit <- 2, holder <- assigned,
         Faults <- {"crash", "release", "refund", "host", "stall", "query"},
         Request <- {"t1"}, User <- {"u1", "u2"}, MaxNames <- 3, MaxRefunds <- 2,
         TransferFaults <- {"crash", "host", "query"},
         Log <- Item, Code <- {"c1", "c2"}, Pool <- 2, GrowthCapacity <- 5,
         GrowthFaults <- {"crash", "host"},
         Task <- Item, Interval <- 1, RetryDelay <- 2, Timeout <- 2,
         MaxRetries <- 1, MaxTime <- 7,
         Owner <- {"u1"}, Instance <- {"i1"}, HostedBy <- [i \in {"i1"} |-> "u1"],
         MaxRows <- 2, MaxWithdrawals <- 1, MaxAmount <- 2, MaxNet <- 1, Fee <- 1,
         ShrinkRead <- FALSE, earner <- holder,
         Card <- Item, Admin <- "admin", Worth <- 2, GiftDeposit <- 3

Calm == INSTANCE InstanceProofs
    WITH Row <- Item, Worker <- Process, Address <- {"a1"},
         Capacity <- 2, PortTotal <- 2, Deposit <- 2, holder <- assigned,
         Faults <- {"rollback", "create"},
         Request <- Item, User <- {"u1", "u2"}, MaxNames <- 3, MaxRefunds <- 1,
         Handler <- Process, TransferFaults <- {},
         Log <- Item, Code <- {"c1", "c2"}, Pool <- 2, GrowthCapacity <- 5,
         GrowthFaults <- {"crash", "host"},
         Task <- Item, Interval <- 1, RetryDelay <- 2, Timeout <- 2,
         MaxRetries <- 1, MaxTime <- 7,
         Owner <- {"u1"}, Instance <- {"i1"}, HostedBy <- [i \in {"i1"} |-> "u1"],
         MaxRows <- 2, MaxWithdrawals <- 1, MaxAmount <- 2, MaxNet <- 1, Fee <- 1,
         ShrinkRead <- FALSE, earner <- holder,
         Card <- Item, Admin <- "admin", Worth <- 2, GiftDeposit <- 3

-----------------------------------------------------------------------------
(* The theorems of OutsideProofs, with the faults of each mix              *)

Refusing == INSTANCE OutsideProofs
    WITH Handler <- Process, rows <- portRow, lock <- portLock,
         Instance <- Item, Port <- {"q1", "q2"}, Families <- <<"v4", "v6">>, Limit <- 2,
         Faults <- {"refuse"},
         Snapshot <- Item, SnapLimit <- 1, Attempts <- 2, SnapFaults <- {"host", "expire"},
         Backup <- Item, Task <- {"t1"}, BackupLimit <- 1, MaxRetries <- 1,
         BackupFaults <- {"host", "unheard", "net"},
         BandwidthFaults <- {},
         Domain <- Item, MailFaults <- {"lost", "slow", "busy", "cancel"}

Crashing == INSTANCE OutsideProofs
    WITH Handler <- Process, rows <- portRow, lock <- portLock,
         Instance <- Item, Port <- {"q1", "q2"}, Families <- <<"v4", "v6">>, Limit <- 1,
         Faults <- {"host", "crash"},
         Snapshot <- Item \cup {"s3"}, SnapLimit <- 2, Attempts <- 2,
         SnapFaults <- {"host", "crash"},
         Backup <- {"b1"}, Task <- Item, BackupLimit <- 1, MaxRetries <- 1,
         BackupFaults <- {"net", "litter", "nodes", "crash"},
         BandwidthFaults <- {"wait", "expire", "host", "crash"},
         Domain <- Item, MailFaults <- {"crash", "slow", "busy", "cancel", "verify"}

Unheard == INSTANCE OutsideProofs
    WITH Handler <- Process, rows <- portRow, lock <- portLock,
         Instance <- {"i1"}, Port <- Item, Families <- <<"v4">>, Limit <- 1,
         Faults <- {"auto", "transfer", "unheard"},
         Snapshot <- Item, SnapLimit <- 1, Attempts <- 2,
         SnapFaults <- {"host", "unheard", "db", "crash"},
         Backup <- Item, Task <- {"t1"}, BackupLimit <- 1, MaxRetries <- 1,
         BackupFaults <- {},
         BandwidthFaults <- {},
         Domain <- Item, MailFaults <- {"crash", "refuse", "lost", "late", "busy", "verify"}

-----------------------------------------------------------------------------
(* They are about the same components with the same constants, and a       *)
(* behaviour of a mix is one of its component.                             *)

LEMMA FaultyIsRough ==
    /\ Faulty!Init => Rough!Init
    /\ Faulty!Next \/ UNCHANGED creation => [Rough!Next]_(Rough!vars)
    /\ Faulty!ProvisioningConstants => Rough!ProvisioningConstants
    /\ Rough!TypeOK => Faulty!TypeOK
    /\ Rough!RunningHasMachine => Faulty!RunningHasMachine
    /\ Rough!PaidBackOnce => Faulty!PaidBackOnce
  BY Zenon DEF creation,
      Faulty!AllFaults, Rough!AllFaults, Faulty!ProvisioningConstants,
      Rough!ProvisioningConstants, Faulty!host, Rough!host, Faulty!row, Rough!row,
      Faulty!money, Rough!money, Faulty!worker, Rough!worker, Faulty!past, Rough!past,
      Faulty!vars, Rough!vars, Faulty!Init, Rough!Init, Faulty!Larger, Rough!Larger,
      Faulty!Less, Rough!Less, Faulty!One, Rough!One, Faulty!InUse, Rough!InUse,
      Faulty!Mappings, Rough!Mappings, Faulty!At, Rough!At, Faulty!Goto, Rough!Goto,
      Faulty!End, Rough!End, Faulty!Start, Rough!Start, Faulty!Throws, Rough!Throws,
      Faulty!SetStatus, Rough!SetStatus, Faulty!SetMachine, Rough!SetMachine, Faulty!Reserve,
      Rough!Reserve, Faulty!GrowOld, Rough!GrowOld, Faulty!TakeAddress, Rough!TakeAddress,
      Faulty!PreparationFails, Rough!PreparationFails, Faulty!Prepared, Rough!Prepared,
      Faulty!CreateMachine, Rough!CreateMachine, Faulty!StartMachine, Rough!StartMachine,
      Faulty!HostFails, Rough!HostFails, Faulty!Confirm, Rough!Confirm, Faulty!StopLate,
      Rough!StopLate, Faulty!MapPort, Rough!MapPort, Faulty!FinishFails, Rough!FinishFails,
      Faulty!BeginTimeout, Rough!BeginTimeout, Faulty!Claim, Rough!Claim, Faulty!Rollback,
      Rough!Rollback, Faulty!Released, Rough!Released, Faulty!Release, Rough!Release,
      Faulty!Refund, Rough!Refund, Faulty!DeleteMachine, Rough!DeleteMachine, Faulty!Settling,
      Rough!Settling, Faulty!Unpaid, Rough!Unpaid, Faulty!BeginDestroy, Rough!BeginDestroy,
      Faulty!DestroyClaim, Rough!DestroyClaim, Faulty!DestroyStop, Rough!DestroyStop,
      Faulty!DestroyMachine, Rough!DestroyMachine, Faulty!DestroyFails, Rough!DestroyFails,
      Faulty!Settle, Rough!Settle, Faulty!SettleFails, Rough!SettleFails,
      Faulty!FreeResources, Rough!FreeResources, Faulty!CountResources, Rough!CountResources,
      Faulty!WriteResources, Rough!WriteResources, Faulty!Crash, Rough!Crash, Faulty!Creation,
      Rough!Creation, Faulty!Settlement, Rough!Settlement, Faulty!Destruction,
      Rough!Destruction, Faulty!Next, Rough!Next, Faulty!Statuses, Rough!Statuses,
      Faulty!Creating, Rough!Creating, Faulty!Destroying, Rough!Destroying, Faulty!TypeOK,
      Rough!TypeOK, Faulty!PaidBackOnce, Rough!PaidBackOnce, Faulty!RunningHasMachine,
      Rough!RunningHasMachine, Faulty!Cardinality, Rough!Cardinality, Faulty!IsFiniteSet,
      Rough!IsFiniteSet

LEMMA FaultyMix == Spec /\ mix = "faulty" => [](mix = "faulty") /\ Rough!Spec
<1>1. Init /\ mix = "faulty" => Rough!Init
  BY FaultyIsRough DEF Init
<1>2. mix = "faulty" /\ [Next]_vars
        => (mix = "faulty")' /\ [Rough!Next]_(Rough!vars)
  BY FaultyIsRough DEF Next, vars
<1> QED BY <1>1, <1>2, PTL DEF Spec, Rough!Spec

LEMMA SmoothIsCalm ==
    /\ Smooth!Init => Calm!Init
    /\ Smooth!Next \/ UNCHANGED creation => [Calm!Next]_(Calm!vars)
    /\ Smooth!ProvisioningConstants => Calm!ProvisioningConstants
    /\ Calm!TypeOK => Smooth!TypeOK
    /\ Calm!RunningHasMachine => Smooth!RunningHasMachine
    /\ Calm!PaidBackOnce => Smooth!PaidBackOnce
    /\ Calm!FailureLeavesNothing => Smooth!FailureLeavesNothing
  BY Zenon DEF creation,
      Smooth!AllFaults, Calm!AllFaults, Smooth!ProvisioningConstants,
      Calm!ProvisioningConstants, Smooth!host, Calm!host, Smooth!row, Calm!row, Smooth!money,
      Calm!money, Smooth!worker, Calm!worker, Smooth!past, Calm!past, Smooth!vars, Calm!vars,
      Smooth!Init, Calm!Init, Smooth!Larger, Calm!Larger, Smooth!Less, Calm!Less, Smooth!One,
      Calm!One, Smooth!InUse, Calm!InUse, Smooth!Mappings, Calm!Mappings, Smooth!At, Calm!At,
      Smooth!Goto, Calm!Goto, Smooth!End, Calm!End, Smooth!Start, Calm!Start, Smooth!Throws,
      Calm!Throws, Smooth!SetStatus, Calm!SetStatus, Smooth!SetMachine, Calm!SetMachine,
      Smooth!Reserve, Calm!Reserve, Smooth!GrowOld, Calm!GrowOld, Smooth!TakeAddress,
      Calm!TakeAddress, Smooth!PreparationFails, Calm!PreparationFails, Smooth!Prepared,
      Calm!Prepared, Smooth!CreateMachine, Calm!CreateMachine, Smooth!StartMachine,
      Calm!StartMachine, Smooth!HostFails, Calm!HostFails, Smooth!Confirm, Calm!Confirm,
      Smooth!StopLate, Calm!StopLate, Smooth!MapPort, Calm!MapPort, Smooth!FinishFails,
      Calm!FinishFails, Smooth!BeginTimeout, Calm!BeginTimeout, Smooth!Claim, Calm!Claim,
      Smooth!Rollback, Calm!Rollback, Smooth!Released, Calm!Released, Smooth!Release,
      Calm!Release, Smooth!Refund, Calm!Refund, Smooth!DeleteMachine, Calm!DeleteMachine,
      Smooth!Settling, Calm!Settling, Smooth!Unpaid, Calm!Unpaid, Smooth!BeginDestroy,
      Calm!BeginDestroy, Smooth!DestroyClaim, Calm!DestroyClaim, Smooth!DestroyStop,
      Calm!DestroyStop, Smooth!DestroyMachine, Calm!DestroyMachine, Smooth!DestroyFails,
      Calm!DestroyFails, Smooth!Settle, Calm!Settle, Smooth!SettleFails, Calm!SettleFails,
      Smooth!FreeResources, Calm!FreeResources, Smooth!CountResources, Calm!CountResources,
      Smooth!WriteResources, Calm!WriteResources, Smooth!Crash, Calm!Crash, Smooth!Creation,
      Calm!Creation, Smooth!Settlement, Calm!Settlement, Smooth!Destruction, Calm!Destruction,
      Smooth!Next, Calm!Next, Smooth!Statuses, Calm!Statuses, Smooth!Creating, Calm!Creating,
      Smooth!Destroying, Calm!Destroying, Smooth!TypeOK, Calm!TypeOK, Smooth!PaidBackOnce,
      Calm!PaidBackOnce, Smooth!RunningHasMachine, Calm!RunningHasMachine,
      Smooth!FailureLeavesNothing, Calm!FailureLeavesNothing, Smooth!Cardinality,
      Calm!Cardinality, Smooth!IsFiniteSet, Calm!IsFiniteSet

LEMMA SmoothMix == Spec /\ mix = "smooth" => [](mix = "smooth") /\ Calm!Spec
<1>1. Init /\ mix = "smooth" => Calm!Init
  BY SmoothIsCalm DEF Init
<1>2. mix = "smooth" /\ [Next]_vars
        => (mix = "smooth")' /\ [Calm!Next]_(Calm!vars)
  BY SmoothIsCalm DEF Next, vars
<1> QED BY <1>1, <1>2, PTL DEF Spec, Calm!Spec

LEMMA MovesAreCalm ==
    /\ Moves!Init => Calm!T!Init
    /\ Moves!Next \/ UNCHANGED transfer => [Calm!T!Next]_(Calm!T!vars)
    /\ Moves!TransferConstants => Calm!T!TransferConstants
    /\ Calm!T!TypeOK => Moves!TypeOK
    /\ Calm!T!FeeOnce => Moves!FeeOnce
  BY Zenon DEF transfer,
      Moves!AllFaults, Calm!T!AllFaults, Moves!TransferConstants, Calm!T!TransferConstants,
      Moves!requests, Calm!T!requests, Moves!row, Calm!T!row, Moves!machine, Calm!T!machine,
      Moves!local, Calm!T!local, Moves!vars, Calm!T!vars, Moves!Init, Calm!T!Init, Moves!Open,
      Calm!T!Open, Moves!NoneOpen, Calm!T!NoneOpen, Moves!At, Calm!T!At, Moves!Moving,
      Calm!T!Moving, Moves!Worked, Calm!T!Worked, Moves!Set, Calm!T!Set, Moves!Goto,
      Calm!T!Goto, Moves!End, Calm!T!End, Moves!Start, Calm!T!Start, Moves!BeginCreate,
      Calm!T!BeginCreate, Moves!Create, Calm!T!Create, Moves!CreateFails, Calm!T!CreateFails,
      Moves!Closable, Calm!T!Closable, Moves!Close, Calm!T!Close, Moves!Refund, Calm!T!Refund,
      Moves!Take, Calm!T!Take, Moves!LookDeleted, Calm!T!LookDeleted, Moves!LookInVain,
      Calm!T!LookInVain, Moves!Look, Calm!T!Look, Moves!Renamable, Calm!T!Renamable,
      Moves!Rename, Calm!T!Rename, Moves!RenameFails, Calm!T!RenameFails, Moves!Execute,
      Calm!T!Execute, Moves!ExecuteFails, Calm!T!ExecuteFails, Moves!Undo, Calm!T!Undo,
      Moves!Reopen, Calm!T!Reopen, Moves!GrowOverdue, Calm!T!GrowOverdue,
      Moves!CleanupTimeout, Calm!T!CleanupTimeout, Moves!CleanupStale, Calm!T!CleanupStale,
      Moves!StartOrStop, Calm!T!StartOrStop, Moves!DestroyClaim, Calm!T!DestroyClaim,
      Moves!DestroyMachine, Calm!T!DestroyMachine, Moves!DestroyFails, Calm!T!DestroyFails,
      Moves!Crash, Calm!T!Crash, Moves!Move, Calm!T!Move, Moves!Next, Calm!T!Next,
      Moves!Statuses, Calm!T!Statuses, Moves!Steps, Calm!T!Steps, Moves!TypeOK, Calm!T!TypeOK,
      Moves!FeeOnce, Calm!T!FeeOnce

LEMMA MovesMix == Spec /\ mix = "moves" => [](mix = "moves") /\ Calm!T!Spec
<1>1. Init /\ mix = "moves" => Calm!T!Init
  BY MovesAreCalm DEF Init
<1>2. mix = "moves" /\ [Next]_vars
        => (mix = "moves")' /\ [Calm!T!Next]_(Calm!T!vars)
  BY MovesAreCalm DEF Next, vars
<1> QED BY <1>1, <1>2, PTL DEF Spec, Calm!T!Spec

LEMMA FaultyMovesAreRough ==
    /\ FaultyMoves!Init => Rough!T!Init
    /\ FaultyMoves!Next \/ UNCHANGED transfer => [Rough!T!Next]_(Rough!T!vars)
    /\ FaultyMoves!TransferConstants => Rough!T!TransferConstants
    /\ Rough!T!TypeOK => FaultyMoves!TypeOK
    /\ Rough!T!FeeOnce => FaultyMoves!FeeOnce
  BY Zenon DEF transfer,
      FaultyMoves!AllFaults, Rough!T!AllFaults, FaultyMoves!TransferConstants,
      Rough!T!TransferConstants, FaultyMoves!requests, Rough!T!requests, FaultyMoves!row,
      Rough!T!row, FaultyMoves!machine, Rough!T!machine, FaultyMoves!local, Rough!T!local,
      FaultyMoves!vars, Rough!T!vars, FaultyMoves!Init, Rough!T!Init, FaultyMoves!Open,
      Rough!T!Open, FaultyMoves!NoneOpen, Rough!T!NoneOpen, FaultyMoves!At, Rough!T!At,
      FaultyMoves!Moving, Rough!T!Moving, FaultyMoves!Worked, Rough!T!Worked, FaultyMoves!Set,
      Rough!T!Set, FaultyMoves!Goto, Rough!T!Goto, FaultyMoves!End, Rough!T!End,
      FaultyMoves!Start, Rough!T!Start, FaultyMoves!BeginCreate, Rough!T!BeginCreate,
      FaultyMoves!Create, Rough!T!Create, FaultyMoves!CreateFails, Rough!T!CreateFails,
      FaultyMoves!Closable, Rough!T!Closable, FaultyMoves!Close, Rough!T!Close,
      FaultyMoves!Refund, Rough!T!Refund, FaultyMoves!Take, Rough!T!Take,
      FaultyMoves!LookDeleted, Rough!T!LookDeleted, FaultyMoves!LookInVain,
      Rough!T!LookInVain, FaultyMoves!Look, Rough!T!Look, FaultyMoves!Renamable,
      Rough!T!Renamable, FaultyMoves!Rename, Rough!T!Rename, FaultyMoves!RenameFails,
      Rough!T!RenameFails, FaultyMoves!Execute, Rough!T!Execute, FaultyMoves!ExecuteFails,
      Rough!T!ExecuteFails, FaultyMoves!Undo, Rough!T!Undo, FaultyMoves!Reopen,
      Rough!T!Reopen, FaultyMoves!GrowOverdue, Rough!T!GrowOverdue,
      FaultyMoves!CleanupTimeout, Rough!T!CleanupTimeout, FaultyMoves!CleanupStale,
      Rough!T!CleanupStale, FaultyMoves!StartOrStop, Rough!T!StartOrStop,
      FaultyMoves!DestroyClaim, Rough!T!DestroyClaim, FaultyMoves!DestroyMachine,
      Rough!T!DestroyMachine, FaultyMoves!DestroyFails, Rough!T!DestroyFails,
      FaultyMoves!Crash, Rough!T!Crash, FaultyMoves!Move, Rough!T!Move, FaultyMoves!Next,
      Rough!T!Next, FaultyMoves!Statuses, Rough!T!Statuses, FaultyMoves!Steps, Rough!T!Steps,
      FaultyMoves!TypeOK, Rough!T!TypeOK, FaultyMoves!FeeOnce, Rough!T!FeeOnce

LEMMA FaultyMovesMix == Spec /\ mix = "faultyMoves" => [](mix = "faultyMoves") /\ Rough!T!Spec
<1>1. Init /\ mix = "faultyMoves" => Rough!T!Init
  BY FaultyMovesAreRough DEF Init
<1>2. mix = "faultyMoves" /\ [Next]_vars
        => (mix = "faultyMoves")' /\ [Rough!T!Next]_(Rough!T!vars)
  BY FaultyMovesAreRough DEF Next, vars
<1> QED BY <1>1, <1>2, PTL DEF Spec, Rough!T!Spec

LEMMA GrowthIsRough ==
    /\ Growth!Init => Rough!Grow!Init
    /\ Growth!Next \/ UNCHANGED growth => [Rough!Grow!Next]_(Rough!Grow!vars)
    /\ Growth!InstanceResourcesConstants => Rough!Grow!InstanceResourcesConstants
    /\ Rough!Grow!TypeOK => Growth!TypeOK
    /\ Rough!Grow!PendingUntilPatched => Growth!PendingUntilPatched
  BY Zenon DEF growth,
      Growth!AllFaults, Rough!Grow!AllFaults, Growth!InstanceResourcesConstants,
      Rough!Grow!InstanceResourcesConstants, Growth!row, Rough!Grow!row, Growth!codes,
      Rough!Grow!codes, Growth!local, Rough!Grow!local, Growth!vars, Rough!Grow!vars,
      Growth!Base, Rough!Grow!Base, Growth!Init, Rough!Grow!Init, Growth!At, Rough!Grow!At,
      Growth!Busy, Rough!Grow!Busy, Growth!Goto, Rough!Grow!Goto, Growth!Forget,
      Rough!Grow!Forget, Growth!End, Rough!Grow!End, Growth!Begin, Rough!Grow!Begin,
      Growth!LeaseExpires, Rough!Grow!LeaseExpires, Growth!BeginApply, Rough!Grow!BeginApply,
      Growth!ReadRow, Rough!Grow!ReadRow, Growth!Debit, Rough!Grow!Debit, Growth!DebitFails,
      Rough!Grow!DebitFails, Growth!Patch, Rough!Grow!Patch, Growth!PatchFails,
      Rough!Grow!PatchFails, Growth!Applied, Rough!Grow!Applied, Growth!Confirm,
      Rough!Grow!Confirm, Growth!FindPending, Rough!Grow!FindPending, Growth!TakeLease,
      Rough!Grow!TakeLease, Growth!ReadBoth, Rough!Grow!ReadBoth, Growth!Compare,
      Rough!Grow!Compare, Growth!Reconcile, Rough!Grow!Reconcile, Growth!ReconcileFails,
      Rough!Grow!ReconcileFails, Growth!Mark, Rough!Grow!Mark, Growth!CodeChanges,
      Rough!Grow!CodeChanges, Growth!BeginRedeem, Rough!Grow!BeginRedeem, Growth!PatchFirst,
      Rough!Grow!PatchFirst, Growth!PatchFirstFails, Rough!Grow!PatchFirstFails, Growth!Use,
      Rough!Grow!Use, Growth!UseFails, Rough!Grow!UseFails, Growth!Undo, Rough!Grow!Undo,
      Growth!Crash, Rough!Grow!Crash, Growth!Next, Rough!Grow!Next, Growth!TypeOK,
      Rough!Grow!TypeOK, Growth!PendingUntilPatched, Rough!Grow!PendingUntilPatched

LEMMA GrowthMix == Spec /\ mix = "growth" => [](mix = "growth") /\ Rough!Grow!Spec
<1>1. Init /\ mix = "growth" => Rough!Grow!Init
  BY GrowthIsRough DEF Init
<1>2. mix = "growth" /\ [Next]_vars
        => (mix = "growth")' /\ [Rough!Grow!Next]_(Rough!Grow!vars)
  BY GrowthIsRough DEF Next, vars
<1> QED BY <1>1, <1>2, PTL DEF Spec, Rough!Grow!Spec

LEMMA EmailsAreRough ==
    /\ Emails!Init => Rough!Post!Init
    /\ Emails!Next \/ UNCHANGED emails => [Rough!Post!Next]_(Rough!Post!vars)
    /\ Emails!EmailQueueConstants => Rough!Post!EmailQueueConstants
    /\ Rough!Post!TypeOK => Emails!TypeOK
  BY Zenon DEF emails,
      Emails!EmailQueueConstants, Rough!Post!EmailQueueConstants, Emails!task,
      Rough!Post!task, Emails!worker, Rough!Post!worker, Emails!history, Rough!Post!history,
      Emails!vars, Rough!Post!vars, Emails!Epoch, Rough!Post!Epoch, Emails!Init,
      Rough!Post!Init, Emails!Tick, Rough!Post!Tick, Emails!Queued, Rough!Post!Queued,
      Emails!AtLeast, Rough!Post!AtLeast, Emails!Enqueue, Rough!Post!Enqueue,
      Emails!Throttling, Rough!Post!Throttling, Emails!Claim, Rough!Post!Claim, Emails!Send,
      Rough!Post!Send, Emails!Rest, Rough!Post!Rest, Emails!MarkSent, Rough!Post!MarkSent,
      Emails!Mine, Rough!Post!Mine, Emails!RetryOrFail, Rough!Post!RetryOrFail,
      Emails!Overdue, Rough!Post!Overdue, Emails!Cleanup, Rough!Post!Cleanup, Emails!Crash,
      Rough!Post!Crash, Emails!Next, Rough!Post!Next, Emails!TypeOK, Rough!Post!TypeOK

LEMMA EmailsMix == Spec /\ mix = "emails" => [](mix = "emails") /\ Rough!Post!Spec
<1>1. Init /\ mix = "emails" => Rough!Post!Init
  BY EmailsAreRough DEF Init
<1>2. mix = "emails" /\ [Next]_vars
        => (mix = "emails")' /\ [Rough!Post!Next]_(Rough!Post!vars)
  BY EmailsAreRough DEF Next, vars
<1> QED BY <1>1, <1>2, PTL DEF Spec, Rough!Post!Spec

LEMMA MailsAreRefusing ==
    /\ Mails!Init => Refusing!Mail!Init
    /\ Mails!Next \/ UNCHANGED mails => [Refusing!Mail!Next]_(Refusing!Mail!vars)
    /\ Mails!MailDomainsConstants => Refusing!Mail!MailDomainsConstants
    /\ Refusing!Mail!TypeOK => Mails!TypeOK
    /\ Refusing!Mail!PaidIsMarked => Mails!PaidIsMarked
  BY Zenon DEF mails,
      Mails!MailDomainsConstants, Refusing!Mail!MailDomainsConstants, Mails!vars,
      Refusing!Mail!vars, Mails!Patient, Refusing!Mail!Patient, Mails!Resuming,
      Refusing!Mail!Resuming, Mails!Working, Refusing!Mail!Working, Mails!TypeOK,
      Refusing!Mail!TypeOK, Mails!Init, Refusing!Mail!Init, Mails!Usable,
      Refusing!Mail!Usable, Mails!Lapsed, Refusing!Mail!Lapsed, Mails!HasRow,
      Refusing!Mail!HasRow, Mails!Goto, Refusing!Mail!Goto, Mails!Begin, Refusing!Mail!Begin,
      Mails!End, Refusing!Mail!End, Mails!Pick, Refusing!Mail!Pick, Mails!SetRow,
      Refusing!Mail!SetRow, Mails!Reached, Refusing!Mail!Reached, Mails!Missed,
      Refusing!Mail!Missed, Mails!Expire, Refusing!Mail!Expire, Mails!MarkExpired,
      Refusing!Mail!MarkExpired, Mails!Renew, Refusing!Mail!Renew, Mails!AutoRenew,
      Refusing!Mail!AutoRenew, Mails!FindLapsed, Refusing!Mail!FindLapsed, Mails!Recheck,
      Refusing!Mail!Recheck, Mails!SuspendDone, Refusing!Mail!SuspendDone,
      Mails!SuspendDomain, Refusing!Mail!SuspendDomain, Mails!Mark, Refusing!Mail!Mark,
      Mails!Renewed, Refusing!Mail!Renewed, Mails!ResumeDomain, Refusing!Mail!ResumeDomain,
      Mails!Compensate, Refusing!Mail!Compensate, Mails!Reopen, Refusing!Mail!Reopen,
      Mails!Hold, Refusing!Mail!Hold, Mails!FindSuspended, Refusing!Mail!FindSuspended,
      Mails!ResumeSuspended, Refusing!Mail!ResumeSuspended, Mails!Keep, Refusing!Mail!Keep,
      Mails!FindRevived, Refusing!Mail!FindRevived, Mails!ResumeRevived,
      Refusing!Mail!ResumeRevived, Mails!Done, Refusing!Mail!Done, Mails!Add,
      Refusing!Mail!Add, Mails!Insert, Refusing!Mail!Insert, Mails!Delete,
      Refusing!Mail!Delete, Mails!Erase, Refusing!Mail!Erase, Mails!Verify,
      Refusing!Mail!Verify, Mails!Verified, Refusing!Mail!Verified, Mails!Cancel,
      Refusing!Mail!Cancel, Mails!CancelDomain, Refusing!Mail!CancelDomain,
      Mails!CancelSubscription, Refusing!Mail!CancelSubscription, Mails!Crash,
      Refusing!Mail!Crash, Mails!HandlerStep, Refusing!Mail!HandlerStep, Mails!DomainStep,
      Refusing!Mail!DomainStep, Mails!Next, Refusing!Mail!Next, Mails!AtWork,
      Refusing!Mail!AtWork, Mails!PaidIsMarked, Refusing!Mail!PaidIsMarked

LEMMA MailsMix == Spec /\ mix = "mails" => [](mix = "mails") /\ Refusing!Mail!Spec
<1>1. Init /\ mix = "mails" => Refusing!Mail!Init
  BY MailsAreRefusing DEF Init
<1>2. mix = "mails" /\ [Next]_vars
        => (mix = "mails")' /\ [Refusing!Mail!Next]_(Refusing!Mail!vars)
  BY MailsAreRefusing DEF Next, vars
<1> QED BY <1>1, <1>2, PTL DEF Spec, Refusing!Mail!Spec

LEMMA MailsAreCrashing ==
    /\ CrashedMails!Init => Crashing!Mail!Init
    /\ CrashedMails!Next \/ UNCHANGED mails => [Crashing!Mail!Next]_(Crashing!Mail!vars)
    /\ CrashedMails!MailDomainsConstants => Crashing!Mail!MailDomainsConstants
    /\ Crashing!Mail!TypeOK => CrashedMails!TypeOK
    /\ Crashing!Mail!UnpaidIsSuspended => CrashedMails!UnpaidIsSuspended
  BY Zenon DEF mails,
      CrashedMails!MailDomainsConstants, Crashing!Mail!MailDomainsConstants,
      CrashedMails!vars, Crashing!Mail!vars, CrashedMails!Patient, Crashing!Mail!Patient,
      CrashedMails!Resuming, Crashing!Mail!Resuming, CrashedMails!Working,
      Crashing!Mail!Working, CrashedMails!TypeOK, Crashing!Mail!TypeOK, CrashedMails!Init,
      Crashing!Mail!Init, CrashedMails!Usable, Crashing!Mail!Usable, CrashedMails!Lapsed,
      Crashing!Mail!Lapsed, CrashedMails!HasRow, Crashing!Mail!HasRow, CrashedMails!Goto,
      Crashing!Mail!Goto, CrashedMails!Begin, Crashing!Mail!Begin, CrashedMails!End,
      Crashing!Mail!End, CrashedMails!Pick, Crashing!Mail!Pick, CrashedMails!SetRow,
      Crashing!Mail!SetRow, CrashedMails!Reached, Crashing!Mail!Reached, CrashedMails!Missed,
      Crashing!Mail!Missed, CrashedMails!Expire, Crashing!Mail!Expire,
      CrashedMails!MarkExpired, Crashing!Mail!MarkExpired, CrashedMails!Renew,
      Crashing!Mail!Renew, CrashedMails!AutoRenew, Crashing!Mail!AutoRenew,
      CrashedMails!FindLapsed, Crashing!Mail!FindLapsed, CrashedMails!Recheck,
      Crashing!Mail!Recheck, CrashedMails!SuspendDone, Crashing!Mail!SuspendDone,
      CrashedMails!SuspendDomain, Crashing!Mail!SuspendDomain, CrashedMails!Mark,
      Crashing!Mail!Mark, CrashedMails!Renewed, Crashing!Mail!Renewed,
      CrashedMails!ResumeDomain, Crashing!Mail!ResumeDomain, CrashedMails!Compensate,
      Crashing!Mail!Compensate, CrashedMails!Reopen, Crashing!Mail!Reopen, CrashedMails!Hold,
      Crashing!Mail!Hold, CrashedMails!FindSuspended, Crashing!Mail!FindSuspended,
      CrashedMails!ResumeSuspended, Crashing!Mail!ResumeSuspended, CrashedMails!Keep,
      Crashing!Mail!Keep, CrashedMails!FindRevived, Crashing!Mail!FindRevived,
      CrashedMails!ResumeRevived, Crashing!Mail!ResumeRevived, CrashedMails!Done,
      Crashing!Mail!Done, CrashedMails!Add, Crashing!Mail!Add, CrashedMails!Insert,
      Crashing!Mail!Insert, CrashedMails!Delete, Crashing!Mail!Delete, CrashedMails!Erase,
      Crashing!Mail!Erase, CrashedMails!Verify, Crashing!Mail!Verify, CrashedMails!Verified,
      Crashing!Mail!Verified, CrashedMails!Cancel, Crashing!Mail!Cancel,
      CrashedMails!CancelDomain, Crashing!Mail!CancelDomain, CrashedMails!CancelSubscription,
      Crashing!Mail!CancelSubscription, CrashedMails!Crash, Crashing!Mail!Crash,
      CrashedMails!HandlerStep, Crashing!Mail!HandlerStep, CrashedMails!DomainStep,
      Crashing!Mail!DomainStep, CrashedMails!Next, Crashing!Mail!Next, CrashedMails!AtWork,
      Crashing!Mail!AtWork, CrashedMails!UnpaidIsSuspended, Crashing!Mail!UnpaidIsSuspended

LEMMA CrashedMailsMix ==
    Spec /\ mix = "crashedMails" => [](mix = "crashedMails") /\ Crashing!Mail!Spec
<1>1. Init /\ mix = "crashedMails" => Crashing!Mail!Init
  BY MailsAreCrashing DEF Init
<1>2. mix = "crashedMails" /\ [Next]_vars
        => (mix = "crashedMails")' /\ [Crashing!Mail!Next]_(Crashing!Mail!vars)
  BY MailsAreCrashing DEF Next, vars
<1> QED BY <1>1, <1>2, PTL DEF Spec, Crashing!Mail!Spec

LEMMA MailsAreUnheard ==
    /\ FaultyMails!Init => Unheard!Mail!Init
    /\ FaultyMails!Next \/ UNCHANGED mails => [Unheard!Mail!Next]_(Unheard!Mail!vars)
    /\ FaultyMails!MailDomainsConstants => Unheard!Mail!MailDomainsConstants
    /\ Unheard!Mail!TypeOK => FaultyMails!TypeOK
    /\ Unheard!Mail!NothingHidden => FaultyMails!NothingHidden
  BY Zenon DEF mails,
      FaultyMails!MailDomainsConstants, Unheard!Mail!MailDomainsConstants, FaultyMails!vars,
      Unheard!Mail!vars, FaultyMails!Patient, Unheard!Mail!Patient, FaultyMails!Resuming,
      Unheard!Mail!Resuming, FaultyMails!Working, Unheard!Mail!Working, FaultyMails!TypeOK,
      Unheard!Mail!TypeOK, FaultyMails!Init, Unheard!Mail!Init, FaultyMails!Usable,
      Unheard!Mail!Usable, FaultyMails!Lapsed, Unheard!Mail!Lapsed, FaultyMails!HasRow,
      Unheard!Mail!HasRow, FaultyMails!Goto, Unheard!Mail!Goto, FaultyMails!Begin,
      Unheard!Mail!Begin, FaultyMails!End, Unheard!Mail!End, FaultyMails!Pick,
      Unheard!Mail!Pick, FaultyMails!SetRow, Unheard!Mail!SetRow, FaultyMails!Reached,
      Unheard!Mail!Reached, FaultyMails!Missed, Unheard!Mail!Missed, FaultyMails!Expire,
      Unheard!Mail!Expire, FaultyMails!MarkExpired, Unheard!Mail!MarkExpired,
      FaultyMails!Renew, Unheard!Mail!Renew, FaultyMails!AutoRenew, Unheard!Mail!AutoRenew,
      FaultyMails!FindLapsed, Unheard!Mail!FindLapsed, FaultyMails!Recheck,
      Unheard!Mail!Recheck, FaultyMails!SuspendDone, Unheard!Mail!SuspendDone,
      FaultyMails!SuspendDomain, Unheard!Mail!SuspendDomain, FaultyMails!Mark,
      Unheard!Mail!Mark, FaultyMails!Renewed, Unheard!Mail!Renewed, FaultyMails!ResumeDomain,
      Unheard!Mail!ResumeDomain, FaultyMails!Compensate, Unheard!Mail!Compensate,
      FaultyMails!Reopen, Unheard!Mail!Reopen, FaultyMails!Hold, Unheard!Mail!Hold,
      FaultyMails!FindSuspended, Unheard!Mail!FindSuspended, FaultyMails!ResumeSuspended,
      Unheard!Mail!ResumeSuspended, FaultyMails!Keep, Unheard!Mail!Keep,
      FaultyMails!FindRevived, Unheard!Mail!FindRevived, FaultyMails!ResumeRevived,
      Unheard!Mail!ResumeRevived, FaultyMails!Done, Unheard!Mail!Done, FaultyMails!Add,
      Unheard!Mail!Add, FaultyMails!Insert, Unheard!Mail!Insert, FaultyMails!Delete,
      Unheard!Mail!Delete, FaultyMails!Erase, Unheard!Mail!Erase, FaultyMails!Verify,
      Unheard!Mail!Verify, FaultyMails!Verified, Unheard!Mail!Verified, FaultyMails!Cancel,
      Unheard!Mail!Cancel, FaultyMails!CancelDomain, Unheard!Mail!CancelDomain,
      FaultyMails!CancelSubscription, Unheard!Mail!CancelSubscription, FaultyMails!Crash,
      Unheard!Mail!Crash, FaultyMails!HandlerStep, Unheard!Mail!HandlerStep,
      FaultyMails!DomainStep, Unheard!Mail!DomainStep, FaultyMails!Next, Unheard!Mail!Next,
      FaultyMails!AtWork, Unheard!Mail!AtWork, FaultyMails!NothingHidden,
      Unheard!Mail!NothingHidden

LEMMA FaultyMailsMix ==
    Spec /\ mix = "faultyMails" => [](mix = "faultyMails") /\ Unheard!Mail!Spec
<1>1. Init /\ mix = "faultyMails" => Unheard!Mail!Init
  BY MailsAreUnheard DEF Init
<1>2. mix = "faultyMails" /\ [Next]_vars
        => (mix = "faultyMails")' /\ [Unheard!Mail!Next]_(Unheard!Mail!vars)
  BY MailsAreUnheard DEF Next, vars
<1> QED BY <1>1, <1>2, PTL DEF Spec, Unheard!Mail!Spec

LEMMA ThrottlingIsRefusing ==
    /\ Throttling!Init => Refusing!Band!Init
    /\ Throttling!Next \/ UNCHANGED throttling => [Refusing!Band!Next]_(Refusing!Band!vars)
    /\ Throttling!TrafficThrottleConstants => Refusing!Band!TrafficThrottleConstants
    /\ Refusing!Band!TypeOK => Throttling!TypeOK
    /\ Refusing!Band!BandwidthFollows => Throttling!BandwidthFollows
  BY Zenon DEF throttling,
      Throttling!TrafficThrottleConstants, Refusing!Band!TrafficThrottleConstants,
      Throttling!Level, Refusing!Band!Level, Throttling!Status, Refusing!Band!Status,
      Throttling!Line, Refusing!Band!Line, Throttling!Speed, Refusing!Band!Speed,
      Throttling!vars, Refusing!Band!vars, Throttling!row, Refusing!Band!row,
      Throttling!local, Refusing!Band!local, Throttling!TypeOK, Refusing!Band!TypeOK,
      Throttling!Init, Refusing!Band!Init, Throttling!Effective, Refusing!Band!Effective,
      Throttling!Calculated, Refusing!Band!Calculated, Throttling!Goto, Refusing!Band!Goto,
      Throttling!Act, Refusing!Band!Act, Throttling!Disturb, Refusing!Band!Disturb,
      Throttling!Unlock, Refusing!Band!Unlock, Throttling!Forget, Refusing!Band!Forget,
      Throttling!Grow, Refusing!Band!Grow, Throttling!Read, Refusing!Band!Read,
      Throttling!Throttle, Refusing!Band!Throttle, Throttling!Warn, Refusing!Band!Warn,
      Throttling!Deliver, Refusing!Band!Deliver, Throttling!Restore, Refusing!Band!Restore,
      Throttling!Lock, Refusing!Band!Lock, Throttling!ReadRow, Refusing!Band!ReadRow,
      Throttling!Patch, Refusing!Band!Patch, Throttling!Write, Refusing!Band!Write,
      Throttling!ArbitrationFails, Refusing!Band!ArbitrationFails, Throttling!LockExpires,
      Refusing!Band!LockExpires, Throttling!Reset, Refusing!Band!Reset, Throttling!SetLimit,
      Refusing!Band!SetLimit, Throttling!SetStatus, Refusing!Band!SetStatus,
      Throttling!ChangePlan, Refusing!Band!ChangePlan, Throttling!SetPlan,
      Refusing!Band!SetPlan, Throttling!SetDirectly, Refusing!Band!SetDirectly,
      Throttling!Crash, Refusing!Band!Crash, Throttling!HandlerStep,
      Refusing!Band!HandlerStep, Throttling!Next, Refusing!Band!Next,
      Throttling!BandwidthFollows, Refusing!Band!BandwidthFollows

LEMMA ThrottlingMix == Spec /\ mix = "throttling" => [](mix = "throttling") /\ Refusing!Band!Spec
<1>1. Init /\ mix = "throttling" => Refusing!Band!Init
  BY ThrottlingIsRefusing DEF Init
<1>2. mix = "throttling" /\ [Next]_vars
        => (mix = "throttling")' /\ [Refusing!Band!Next]_(Refusing!Band!vars)
  BY ThrottlingIsRefusing DEF Next, vars
<1> QED BY <1>1, <1>2, PTL DEF Spec, Refusing!Band!Spec

LEMMA ThrottlingIsCrashing ==
    /\ FaultyThrottling!Init => Crashing!Band!Init
    /\ FaultyThrottling!Next \/ UNCHANGED throttling => [Crashing!Band!Next]_(Crashing!Band!vars)
    /\ FaultyThrottling!TrafficThrottleConstants => Crashing!Band!TrafficThrottleConstants
    /\ Crashing!Band!TypeOK => FaultyThrottling!TypeOK
  BY Zenon DEF throttling,
      FaultyThrottling!TrafficThrottleConstants, Crashing!Band!TrafficThrottleConstants,
      FaultyThrottling!Level, Crashing!Band!Level, FaultyThrottling!Status,
      Crashing!Band!Status, FaultyThrottling!Line, Crashing!Band!Line, FaultyThrottling!Speed,
      Crashing!Band!Speed, FaultyThrottling!vars, Crashing!Band!vars, FaultyThrottling!row,
      Crashing!Band!row, FaultyThrottling!local, Crashing!Band!local, FaultyThrottling!TypeOK,
      Crashing!Band!TypeOK, FaultyThrottling!Init, Crashing!Band!Init,
      FaultyThrottling!Effective, Crashing!Band!Effective, FaultyThrottling!Calculated,
      Crashing!Band!Calculated, FaultyThrottling!Goto, Crashing!Band!Goto,
      FaultyThrottling!Act, Crashing!Band!Act, FaultyThrottling!Disturb,
      Crashing!Band!Disturb, FaultyThrottling!Unlock, Crashing!Band!Unlock,
      FaultyThrottling!Forget, Crashing!Band!Forget, FaultyThrottling!Grow,
      Crashing!Band!Grow, FaultyThrottling!Read, Crashing!Band!Read,
      FaultyThrottling!Throttle, Crashing!Band!Throttle, FaultyThrottling!Warn,
      Crashing!Band!Warn, FaultyThrottling!Deliver, Crashing!Band!Deliver,
      FaultyThrottling!Restore, Crashing!Band!Restore, FaultyThrottling!Lock,
      Crashing!Band!Lock, FaultyThrottling!ReadRow, Crashing!Band!ReadRow,
      FaultyThrottling!Patch, Crashing!Band!Patch, FaultyThrottling!Write,
      Crashing!Band!Write, FaultyThrottling!ArbitrationFails, Crashing!Band!ArbitrationFails,
      FaultyThrottling!LockExpires, Crashing!Band!LockExpires, FaultyThrottling!Reset,
      Crashing!Band!Reset, FaultyThrottling!SetLimit, Crashing!Band!SetLimit,
      FaultyThrottling!SetStatus, Crashing!Band!SetStatus, FaultyThrottling!ChangePlan,
      Crashing!Band!ChangePlan, FaultyThrottling!SetPlan, Crashing!Band!SetPlan,
      FaultyThrottling!SetDirectly, Crashing!Band!SetDirectly, FaultyThrottling!Crash,
      Crashing!Band!Crash, FaultyThrottling!HandlerStep, Crashing!Band!HandlerStep,
      FaultyThrottling!Next, Crashing!Band!Next

LEMMA FaultyThrottlingMix ==
    Spec /\ mix = "faultyThrottling" => [](mix = "faultyThrottling") /\ Crashing!Band!Spec
<1>1. Init /\ mix = "faultyThrottling" => Crashing!Band!Init
  BY ThrottlingIsCrashing DEF Init
<1>2. mix = "faultyThrottling" /\ [Next]_vars
        => (mix = "faultyThrottling")' /\ [Crashing!Band!Next]_(Crashing!Band!vars)
  BY ThrottlingIsCrashing DEF Next, vars
<1> QED BY <1>1, <1>2, PTL DEF Spec, Crashing!Band!Spec

LEMMA SnapsAreRefusing ==
    /\ Snaps!Init => Refusing!Snap!Init
    /\ Snaps!Next \/ UNCHANGED snapshots => [Refusing!Snap!Next]_(Refusing!Snap!vars)
    /\ Snaps!SnapshotsConstants => Refusing!Snap!SnapshotsConstants
    /\ Refusing!Snap!TypeOK => Snaps!TypeOK
    /\ Refusing!Snap!RowsMatchHost => Snaps!RowsMatchHost
  BY Zenon DEF snapshots,
      Snaps!SnapshotsConstants, Refusing!Snap!SnapshotsConstants, Snaps!vars,
      Refusing!Snap!vars, Snaps!copies, Refusing!Snap!copies, Snaps!TypeOK,
      Refusing!Snap!TypeOK, Snaps!Init, Refusing!Snap!Init, Snaps!Goto, Refusing!Snap!Goto,
      Snaps!Take, Refusing!Snap!Take, Snaps!Recorded, Refusing!Snap!Recorded, Snaps!Full,
      Refusing!Snap!Full, Snaps!NewName, Refusing!Snap!NewName, Snaps!AddRow,
      Refusing!Snap!AddRow, Snaps!Drop, Refusing!Snap!Drop, Snaps!Again, Refusing!Snap!Again,
      Snaps!Fails, Refusing!Snap!Fails, Snaps!End, Refusing!Snap!End, Snaps!BecomesDue,
      Refusing!Snap!BecomesDue, Snaps!FindDue, Refusing!Snap!FindDue, Snaps!Request,
      Refusing!Snap!Request, Snaps!Lock, Refusing!Snap!Lock, Snaps!Busy, Refusing!Snap!Busy,
      Snaps!Unlock, Refusing!Snap!Unlock, Snaps!Expire, Refusing!Snap!Expire, Snaps!Check,
      Refusing!Snap!Check, Snaps!Oldest, Refusing!Snap!Oldest, Snaps!Count,
      Refusing!Snap!Count, Snaps!Evict, Refusing!Snap!Evict, Snaps!Forget,
      Refusing!Snap!Forget, Snaps!TakeSnapshot, Refusing!Snap!TakeSnapshot, Snaps!Record,
      Refusing!Snap!Record, Snaps!Date, Refusing!Snap!Date, Snaps!Quota, Refusing!Snap!Quota,
      Snaps!Make, Refusing!Snap!Make, Snaps!Save, Refusing!Snap!Save, Snaps!Undo,
      Refusing!Snap!Undo, Snaps!Delete, Refusing!Snap!Delete, Snaps!RemoveSnapshot,
      Refusing!Snap!RemoveSnapshot, Snaps!Erase, Refusing!Snap!Erase, Snaps!Crash,
      Refusing!Snap!Crash, Snaps!Next, Refusing!Snap!Next, Snaps!RowsMatchHost,
      Refusing!Snap!RowsMatchHost, Snaps!ToSet, Refusing!Snap!ToSet, Snaps!RemoveAt,
      Refusing!Snap!RemoveAt

LEMMA SnapsMix == Spec /\ mix = "snapshots" => [](mix = "snapshots") /\ Refusing!Snap!Spec
<1>1. Init /\ mix = "snapshots" => Refusing!Snap!Init
  BY SnapsAreRefusing DEF Init
<1>2. mix = "snapshots" /\ [Next]_vars
        => (mix = "snapshots")' /\ [Refusing!Snap!Next]_(Refusing!Snap!vars)
  BY SnapsAreRefusing DEF Next, vars
<1> QED BY <1>1, <1>2, PTL DEF Spec, Refusing!Snap!Spec

LEMMA SnapsAreCrashing ==
    /\ FullSnaps!Init => Crashing!Snap!Init
    /\ FullSnaps!Next \/ UNCHANGED snapshots => [Crashing!Snap!Next]_(Crashing!Snap!vars)
    /\ FullSnaps!SnapshotsConstants => Crashing!Snap!SnapshotsConstants
    /\ Crashing!Snap!TypeOK => FullSnaps!TypeOK
    /\ Crashing!Snap!OneForOne => FullSnaps!OneForOne
    /\ Crashing!Snap!QuotaKept => FullSnaps!QuotaKept
  BY Zenon DEF snapshots,
      FullSnaps!SnapshotsConstants, Crashing!Snap!SnapshotsConstants, FullSnaps!vars,
      Crashing!Snap!vars, FullSnaps!copies, Crashing!Snap!copies, FullSnaps!TypeOK,
      Crashing!Snap!TypeOK, FullSnaps!Init, Crashing!Snap!Init, FullSnaps!Goto,
      Crashing!Snap!Goto, FullSnaps!Take, Crashing!Snap!Take, FullSnaps!Recorded,
      Crashing!Snap!Recorded, FullSnaps!Full, Crashing!Snap!Full, FullSnaps!NewName,
      Crashing!Snap!NewName, FullSnaps!AddRow, Crashing!Snap!AddRow, FullSnaps!Drop,
      Crashing!Snap!Drop, FullSnaps!Again, Crashing!Snap!Again, FullSnaps!Fails,
      Crashing!Snap!Fails, FullSnaps!End, Crashing!Snap!End, FullSnaps!BecomesDue,
      Crashing!Snap!BecomesDue, FullSnaps!FindDue, Crashing!Snap!FindDue, FullSnaps!Request,
      Crashing!Snap!Request, FullSnaps!Lock, Crashing!Snap!Lock, FullSnaps!Busy,
      Crashing!Snap!Busy, FullSnaps!Unlock, Crashing!Snap!Unlock, FullSnaps!Expire,
      Crashing!Snap!Expire, FullSnaps!Check, Crashing!Snap!Check, FullSnaps!Oldest,
      Crashing!Snap!Oldest, FullSnaps!Count, Crashing!Snap!Count, FullSnaps!Evict,
      Crashing!Snap!Evict, FullSnaps!Forget, Crashing!Snap!Forget, FullSnaps!TakeSnapshot,
      Crashing!Snap!TakeSnapshot, FullSnaps!Record, Crashing!Snap!Record, FullSnaps!Date,
      Crashing!Snap!Date, FullSnaps!Quota, Crashing!Snap!Quota, FullSnaps!Make,
      Crashing!Snap!Make, FullSnaps!Save, Crashing!Snap!Save, FullSnaps!Undo,
      Crashing!Snap!Undo, FullSnaps!Delete, Crashing!Snap!Delete, FullSnaps!RemoveSnapshot,
      Crashing!Snap!RemoveSnapshot, FullSnaps!Erase, Crashing!Snap!Erase, FullSnaps!Crash,
      Crashing!Snap!Crash, FullSnaps!Next, Crashing!Snap!Next, FullSnaps!QuotaKept,
      Crashing!Snap!QuotaKept, FullSnaps!OneForOne, Crashing!Snap!OneForOne, FullSnaps!ToSet,
      Crashing!Snap!ToSet, FullSnaps!RemoveAt, Crashing!Snap!RemoveAt

LEMMA FullSnapsMix ==
    Spec /\ mix = "fullSnapshots" => [](mix = "fullSnapshots") /\ Crashing!Snap!Spec
<1>1. Init /\ mix = "fullSnapshots" => Crashing!Snap!Init
  BY SnapsAreCrashing DEF Init
<1>2. mix = "fullSnapshots" /\ [Next]_vars
        => (mix = "fullSnapshots")' /\ [Crashing!Snap!Next]_(Crashing!Snap!vars)
  BY SnapsAreCrashing DEF Next, vars
<1> QED BY <1>1, <1>2, PTL DEF Spec, Crashing!Snap!Spec

LEMMA SnapsAreUnheard ==
    /\ LostSnaps!Init => Unheard!Snap!Init
    /\ LostSnaps!Next \/ UNCHANGED snapshots => [Unheard!Snap!Next]_(Unheard!Snap!vars)
    /\ LostSnaps!SnapshotsConstants => Unheard!Snap!SnapshotsConstants
    /\ Unheard!Snap!TypeOK => LostSnaps!TypeOK
    /\ Unheard!Snap!QuotaKept => LostSnaps!QuotaKept
  BY Zenon DEF snapshots,
      LostSnaps!SnapshotsConstants, Unheard!Snap!SnapshotsConstants, LostSnaps!vars,
      Unheard!Snap!vars, LostSnaps!copies, Unheard!Snap!copies, LostSnaps!TypeOK,
      Unheard!Snap!TypeOK, LostSnaps!Init, Unheard!Snap!Init, LostSnaps!Goto,
      Unheard!Snap!Goto, LostSnaps!Take, Unheard!Snap!Take, LostSnaps!Recorded,
      Unheard!Snap!Recorded, LostSnaps!Full, Unheard!Snap!Full, LostSnaps!NewName,
      Unheard!Snap!NewName, LostSnaps!AddRow, Unheard!Snap!AddRow, LostSnaps!Drop,
      Unheard!Snap!Drop, LostSnaps!Again, Unheard!Snap!Again, LostSnaps!Fails,
      Unheard!Snap!Fails, LostSnaps!End, Unheard!Snap!End, LostSnaps!BecomesDue,
      Unheard!Snap!BecomesDue, LostSnaps!FindDue, Unheard!Snap!FindDue, LostSnaps!Request,
      Unheard!Snap!Request, LostSnaps!Lock, Unheard!Snap!Lock, LostSnaps!Busy,
      Unheard!Snap!Busy, LostSnaps!Unlock, Unheard!Snap!Unlock, LostSnaps!Expire,
      Unheard!Snap!Expire, LostSnaps!Check, Unheard!Snap!Check, LostSnaps!Oldest,
      Unheard!Snap!Oldest, LostSnaps!Count, Unheard!Snap!Count, LostSnaps!Evict,
      Unheard!Snap!Evict, LostSnaps!Forget, Unheard!Snap!Forget, LostSnaps!TakeSnapshot,
      Unheard!Snap!TakeSnapshot, LostSnaps!Record, Unheard!Snap!Record, LostSnaps!Date,
      Unheard!Snap!Date, LostSnaps!Quota, Unheard!Snap!Quota, LostSnaps!Make,
      Unheard!Snap!Make, LostSnaps!Save, Unheard!Snap!Save, LostSnaps!Undo, Unheard!Snap!Undo,
      LostSnaps!Delete, Unheard!Snap!Delete, LostSnaps!RemoveSnapshot,
      Unheard!Snap!RemoveSnapshot, LostSnaps!Erase, Unheard!Snap!Erase, LostSnaps!Crash,
      Unheard!Snap!Crash, LostSnaps!Next, Unheard!Snap!Next, LostSnaps!QuotaKept,
      Unheard!Snap!QuotaKept, LostSnaps!ToSet, Unheard!Snap!ToSet, LostSnaps!RemoveAt,
      Unheard!Snap!RemoveAt

LEMMA LostSnapsMix ==
    Spec /\ mix = "lostSnapshots" => [](mix = "lostSnapshots") /\ Unheard!Snap!Spec
<1>1. Init /\ mix = "lostSnapshots" => Unheard!Snap!Init
  BY SnapsAreUnheard DEF Init
<1>2. mix = "lostSnapshots" /\ [Next]_vars
        => (mix = "lostSnapshots")' /\ [Unheard!Snap!Next]_(Unheard!Snap!vars)
  BY SnapsAreUnheard DEF Next, vars
<1> QED BY <1>1, <1>2, PTL DEF Spec, Unheard!Snap!Spec

LEMMA CopiesAreRefusing ==
    /\ Copies!Init => Refusing!Copy!Init
    /\ Copies!Next \/ UNCHANGED backups => [Refusing!Copy!Next]_(Refusing!Copy!vars)
    /\ Copies!BackupsConstants => Refusing!Copy!BackupsConstants
    /\ Refusing!Copy!TypeOK => Copies!TypeOK
    /\ Refusing!Copy!QuotaKept => Copies!QuotaKept
    /\ Refusing!Copy!ReadyIsOnHost => Copies!ReadyIsOnHost
    /\ Refusing!Copy!CompletedIsStored => Copies!CompletedIsStored
    /\ Refusing!Copy!NothingStray => Copies!NothingStray
  BY Zenon DEF backups,
      Copies!BackupsConstants, Refusing!Copy!BackupsConstants, Copies!vars,
      Refusing!Copy!vars, Copies!backups, Refusing!Copy!backups, Copies!execution,
      Refusing!Copy!execution, Copies!uploads, Refusing!Copy!uploads, Copies!Active,
      Refusing!Copy!Active, Copies!TypeOK, Refusing!Copy!TypeOK, Copies!Init,
      Refusing!Copy!Init, Copies!Counted, Refusing!Copy!Counted, Copies!SetRow,
      Refusing!Copy!SetRow, Copies!MakerAt, Refusing!Copy!MakerAt, Copies!RemoverAt,
      Refusing!Copy!RemoverAt, Copies!Reserve, Refusing!Copy!Reserve, Copies!HostMakes,
      Refusing!Copy!HostMakes, Copies!Made, Refusing!Copy!Made, Copies!CleanStale,
      Refusing!Copy!CleanStale, Copies!Delete, Refusing!Copy!Delete, Copies!HostDeletes,
      Refusing!Copy!HostDeletes, Copies!Erase, Refusing!Copy!Erase, Copies!SetTask,
      Refusing!Copy!SetTask, Copies!Goto, Refusing!Copy!Goto, Copies!Request,
      Refusing!Copy!Request, Copies!Cancel, Refusing!Copy!Cancel, Copies!Claim,
      Refusing!Copy!Claim, Copies!GrowLate, Refusing!Copy!GrowLate, Copies!Sweep,
      Refusing!Copy!Sweep, Copies!Overrun, Refusing!Copy!Overrun, Copies!Catch,
      Refusing!Copy!Catch, Copies!Export, Refusing!Copy!Export, Copies!Upload,
      Refusing!Copy!Upload, Copies!CheckTime, Refusing!Copy!CheckTime, Copies!Finish,
      Refusing!Copy!Finish, Copies!Clean, Refusing!Copy!Clean, Copies!Settle,
      Refusing!Copy!Settle, Copies!Crash, Refusing!Copy!Crash, Copies!Next,
      Refusing!Copy!Next, Copies!QuotaKept, Refusing!Copy!QuotaKept, Copies!ReadyIsOnHost,
      Refusing!Copy!ReadyIsOnHost, Copies!CompletedIsStored, Refusing!Copy!CompletedIsStored,
      Copies!NothingStray, Refusing!Copy!NothingStray, Copies!Cardinality,
      Refusing!Copy!Cardinality

LEMMA CopiesMix == Spec /\ mix = "backups" => [](mix = "backups") /\ Refusing!Copy!Spec
<1>1. Init /\ mix = "backups" => Refusing!Copy!Init
  BY CopiesAreRefusing DEF Init
<1>2. mix = "backups" /\ [Next]_vars
        => (mix = "backups")' /\ [Refusing!Copy!Next]_(Refusing!Copy!vars)
  BY CopiesAreRefusing DEF Next, vars
<1> QED BY <1>1, <1>2, PTL DEF Spec, Refusing!Copy!Spec

LEMMA UploadsAreCrashing ==
    /\ Uploads!Init => Crashing!Copy!Init
    /\ Uploads!Next \/ UNCHANGED backups => [Crashing!Copy!Next]_(Crashing!Copy!vars)
    /\ Uploads!BackupsConstants => Crashing!Copy!BackupsConstants
    /\ Crashing!Copy!TypeOK => Uploads!TypeOK
    /\ Crashing!Copy!CompletedIsStored => Uploads!CompletedIsStored
  BY Zenon DEF backups,
      Uploads!BackupsConstants, Crashing!Copy!BackupsConstants, Uploads!vars,
      Crashing!Copy!vars, Uploads!backups, Crashing!Copy!backups, Uploads!execution,
      Crashing!Copy!execution, Uploads!uploads, Crashing!Copy!uploads, Uploads!Active,
      Crashing!Copy!Active, Uploads!TypeOK, Crashing!Copy!TypeOK, Uploads!Init,
      Crashing!Copy!Init, Uploads!Counted, Crashing!Copy!Counted, Uploads!SetRow,
      Crashing!Copy!SetRow, Uploads!MakerAt, Crashing!Copy!MakerAt, Uploads!RemoverAt,
      Crashing!Copy!RemoverAt, Uploads!Reserve, Crashing!Copy!Reserve, Uploads!HostMakes,
      Crashing!Copy!HostMakes, Uploads!Made, Crashing!Copy!Made, Uploads!CleanStale,
      Crashing!Copy!CleanStale, Uploads!Delete, Crashing!Copy!Delete, Uploads!HostDeletes,
      Crashing!Copy!HostDeletes, Uploads!Erase, Crashing!Copy!Erase, Uploads!SetTask,
      Crashing!Copy!SetTask, Uploads!Goto, Crashing!Copy!Goto, Uploads!Request,
      Crashing!Copy!Request, Uploads!Cancel, Crashing!Copy!Cancel, Uploads!Claim,
      Crashing!Copy!Claim, Uploads!GrowLate, Crashing!Copy!GrowLate, Uploads!Sweep,
      Crashing!Copy!Sweep, Uploads!Overrun, Crashing!Copy!Overrun, Uploads!Catch,
      Crashing!Copy!Catch, Uploads!Export, Crashing!Copy!Export, Uploads!Upload,
      Crashing!Copy!Upload, Uploads!CheckTime, Crashing!Copy!CheckTime, Uploads!Finish,
      Crashing!Copy!Finish, Uploads!Clean, Crashing!Copy!Clean, Uploads!Settle,
      Crashing!Copy!Settle, Uploads!Crash, Crashing!Copy!Crash, Uploads!Next,
      Crashing!Copy!Next, Uploads!CompletedIsStored, Crashing!Copy!CompletedIsStored,
      Uploads!Cardinality, Crashing!Copy!Cardinality

LEMMA UploadsMix == Spec /\ mix = "uploads" => [](mix = "uploads") /\ Crashing!Copy!Spec
<1>1. Init /\ mix = "uploads" => Crashing!Copy!Init
  BY UploadsAreCrashing DEF Init
<1>2. mix = "uploads" /\ [Next]_vars
        => (mix = "uploads")' /\ [Crashing!Copy!Next]_(Crashing!Copy!vars)
  BY UploadsAreCrashing DEF Next, vars
<1> QED BY <1>1, <1>2, PTL DEF Spec, Crashing!Copy!Spec

LEMMA PortsAreRefusing ==
    /\ Ports!Init => Refusing!Init
    /\ Ports!Next \/ UNCHANGED mappings => [Refusing!Next]_(Refusing!vars)
    /\ Ports!PortMappingsConstants => Refusing!PortMappingsConstants
    /\ Refusing!TypeOK => Ports!TypeOK
    /\ Refusing!RowsAreServed => Ports!RowsAreServed
    /\ Refusing!NothingHidden => Ports!NothingHidden
  BY Zenon DEF mappings,
      Ports!PortMappingsConstants, Refusing!PortMappingsConstants, Ports!vars, Refusing!vars,
      Ports!Device, Refusing!Device, Ports!Work, Refusing!Work, Ports!Idle, Refusing!Idle,
      Ports!TypeOK, Refusing!TypeOK, Ports!Init, Refusing!Init, Ports!RowsOf, Refusing!RowsOf,
      Ports!Counted, Refusing!Counted, Ports!DevicesOf, Refusing!DevicesOf, Ports!Becomes,
      Refusing!Becomes, Ports!Goto, Refusing!Goto, Ports!Knows, Refusing!Knows, Ports!Add,
      Refusing!Add, Ports!AutoPort, Refusing!AutoPort, Ports!Delete, Refusing!Delete,
      Ports!Strip, Refusing!Strip, Ports!Free, Refusing!Free, Ports!Lock, Refusing!Lock,
      Ports!Busy, Refusing!Busy, Ports!Unlock, Refusing!Unlock, Ports!Holds, Refusing!Holds,
      Ports!Expire, Refusing!Expire, Ports!Quota, Refusing!Quota, Ports!Check, Refusing!Check,
      Ports!Undo, Refusing!Undo, Ports!Reserve, Refusing!Reserve, Ports!IsThere,
      Refusing!IsThere, Ports!Drop, Refusing!Drop, Ports!Forget, Refusing!Forget,
      Ports!NextPort, Refusing!NextPort, Ports!Adding, Refusing!Adding, Ports!Done,
      Refusing!Done, Ports!Failed, Refusing!Failed, Ports!Fetch, Refusing!Fetch, Ports!Bound,
      Refusing!Bound, Ports!Put, Refusing!Put, Ports!Crash, Refusing!Crash, Ports!Next,
      Refusing!Next, Ports!NothingHidden, Refusing!NothingHidden, Ports!RowsAreServed,
      Refusing!RowsAreServed, Ports!Cardinality, Refusing!Cardinality, Ports!IsFiniteSet,
      Refusing!IsFiniteSet

LEMMA PortsMix == Spec /\ mix = "ports" => [](mix = "ports") /\ Refusing!Spec
<1>1. Init /\ mix = "ports" => Refusing!Init
  BY PortsAreRefusing DEF Init
<1>2. mix = "ports" /\ [Next]_vars
        => (mix = "ports")' /\ [Refusing!Next]_(Refusing!vars)
  BY PortsAreRefusing DEF Next, vars
<1> QED BY <1>1, <1>2, PTL DEF Spec, Refusing!Spec

LEMMA PortsAreCrashing ==
    /\ FaultyPorts!Init => Crashing!Init
    /\ FaultyPorts!Next \/ UNCHANGED mappings => [Crashing!Next]_(Crashing!vars)
    /\ FaultyPorts!PortMappingsConstants => Crashing!PortMappingsConstants
    /\ Crashing!TypeOK => FaultyPorts!TypeOK
    /\ Crashing!NothingHidden => FaultyPorts!NothingHidden
    /\ Crashing!QuotaKept => FaultyPorts!QuotaKept
  BY Zenon DEF mappings,
      FaultyPorts!PortMappingsConstants, Crashing!PortMappingsConstants, FaultyPorts!vars,
      Crashing!vars, FaultyPorts!Device, Crashing!Device, FaultyPorts!Work, Crashing!Work,
      FaultyPorts!Idle, Crashing!Idle, FaultyPorts!TypeOK, Crashing!TypeOK, FaultyPorts!Init,
      Crashing!Init, FaultyPorts!RowsOf, Crashing!RowsOf, FaultyPorts!Counted,
      Crashing!Counted, FaultyPorts!DevicesOf, Crashing!DevicesOf, FaultyPorts!Becomes,
      Crashing!Becomes, FaultyPorts!Goto, Crashing!Goto, FaultyPorts!Knows, Crashing!Knows,
      FaultyPorts!Add, Crashing!Add, FaultyPorts!AutoPort, Crashing!AutoPort,
      FaultyPorts!Delete, Crashing!Delete, FaultyPorts!Strip, Crashing!Strip,
      FaultyPorts!Free, Crashing!Free, FaultyPorts!Lock, Crashing!Lock, FaultyPorts!Busy,
      Crashing!Busy, FaultyPorts!Unlock, Crashing!Unlock, FaultyPorts!Holds, Crashing!Holds,
      FaultyPorts!Expire, Crashing!Expire, FaultyPorts!Quota, Crashing!Quota,
      FaultyPorts!Check, Crashing!Check, FaultyPorts!Undo, Crashing!Undo, FaultyPorts!Reserve,
      Crashing!Reserve, FaultyPorts!IsThere, Crashing!IsThere, FaultyPorts!Drop,
      Crashing!Drop, FaultyPorts!Forget, Crashing!Forget, FaultyPorts!NextPort,
      Crashing!NextPort, FaultyPorts!Adding, Crashing!Adding, FaultyPorts!Done, Crashing!Done,
      FaultyPorts!Failed, Crashing!Failed, FaultyPorts!Fetch, Crashing!Fetch,
      FaultyPorts!Bound, Crashing!Bound, FaultyPorts!Put, Crashing!Put, FaultyPorts!Crash,
      Crashing!Crash, FaultyPorts!Next, Crashing!Next, FaultyPorts!NothingHidden,
      Crashing!NothingHidden, FaultyPorts!QuotaKept, Crashing!QuotaKept,
      FaultyPorts!Cardinality, Crashing!Cardinality, FaultyPorts!IsFiniteSet,
      Crashing!IsFiniteSet

LEMMA FaultyPortsMix == Spec /\ mix = "faultyPorts" => [](mix = "faultyPorts") /\ Crashing!Spec
<1>1. Init /\ mix = "faultyPorts" => Crashing!Init
  BY PortsAreCrashing DEF Init
<1>2. mix = "faultyPorts" /\ [Next]_vars
        => (mix = "faultyPorts")' /\ [Crashing!Next]_(Crashing!vars)
  BY PortsAreCrashing DEF Next, vars
<1> QED BY <1>1, <1>2, PTL DEF Spec, Crashing!Spec

LEMMA PortsAreUnheard ==
    /\ OpenPorts!Init => Unheard!Init
    /\ OpenPorts!Next \/ UNCHANGED mappings => [Unheard!Next]_(Unheard!vars)
    /\ OpenPorts!PortMappingsConstants => Unheard!PortMappingsConstants
    /\ Unheard!TypeOK => OpenPorts!TypeOK
    /\ Unheard!QuotaKept => OpenPorts!QuotaKept
  BY Zenon DEF mappings,
      OpenPorts!PortMappingsConstants, Unheard!PortMappingsConstants, OpenPorts!vars,
      Unheard!vars, OpenPorts!Device, Unheard!Device, OpenPorts!Work, Unheard!Work,
      OpenPorts!Idle, Unheard!Idle, OpenPorts!TypeOK, Unheard!TypeOK, OpenPorts!Init,
      Unheard!Init, OpenPorts!RowsOf, Unheard!RowsOf, OpenPorts!Counted, Unheard!Counted,
      OpenPorts!DevicesOf, Unheard!DevicesOf, OpenPorts!Becomes, Unheard!Becomes,
      OpenPorts!Goto, Unheard!Goto, OpenPorts!Knows, Unheard!Knows, OpenPorts!Add,
      Unheard!Add, OpenPorts!AutoPort, Unheard!AutoPort, OpenPorts!Delete, Unheard!Delete,
      OpenPorts!Strip, Unheard!Strip, OpenPorts!Free, Unheard!Free, OpenPorts!Lock,
      Unheard!Lock, OpenPorts!Busy, Unheard!Busy, OpenPorts!Unlock, Unheard!Unlock,
      OpenPorts!Holds, Unheard!Holds, OpenPorts!Expire, Unheard!Expire, OpenPorts!Quota,
      Unheard!Quota, OpenPorts!Check, Unheard!Check, OpenPorts!Undo, Unheard!Undo,
      OpenPorts!Reserve, Unheard!Reserve, OpenPorts!IsThere, Unheard!IsThere, OpenPorts!Drop,
      Unheard!Drop, OpenPorts!Forget, Unheard!Forget, OpenPorts!NextPort, Unheard!NextPort,
      OpenPorts!Adding, Unheard!Adding, OpenPorts!Done, Unheard!Done, OpenPorts!Failed,
      Unheard!Failed, OpenPorts!Fetch, Unheard!Fetch, OpenPorts!Bound, Unheard!Bound,
      OpenPorts!Put, Unheard!Put, OpenPorts!Crash, Unheard!Crash, OpenPorts!Next,
      Unheard!Next, OpenPorts!QuotaKept, Unheard!QuotaKept, OpenPorts!Cardinality,
      Unheard!Cardinality, OpenPorts!IsFiniteSet, Unheard!IsFiniteSet

LEMMA OpenPortsMix == Spec /\ mix = "openPorts" => [](mix = "openPorts") /\ Unheard!Spec
<1>1. Init /\ mix = "openPorts" => Unheard!Init
  BY PortsAreUnheard DEF Init
<1>2. mix = "openPorts" /\ [Next]_vars
        => (mix = "openPorts")' /\ [Unheard!Next]_(Unheard!vars)
  BY PortsAreUnheard DEF Next, vars
<1> QED BY <1>1, <1>2, PTL DEF Spec, Unheard!Spec

LEMMA CardsAreRough ==
    /\ Cards!Init => Rough!Gift!Init
    /\ Cards!Next \/ UNCHANGED cards => [Rough!Gift!Next]_(Rough!Gift!vars)
    /\ Cards!GiftCardConstants => Rough!Gift!GiftCardConstants
    /\ Rough!Gift!TypeOK => Cards!TypeOK
    /\ Rough!Gift!MoneyIsKept => Cards!MoneyIsKept
  BY Zenon DEF cards,
      Cards!GiftCardConstants, Rough!Gift!GiftCardConstants, Cards!vars, Rough!Gift!vars,
      Cards!Init, Rough!Gift!Init, Cards!Set, Rough!Gift!Set, Cards!Owned, Rough!Gift!Owned,
      Cards!Issue, Rough!Gift!Issue, Cards!Generate, Rough!Gift!Generate, Cards!DatePasses,
      Rough!Gift!DatePasses, Cards!Redeemable, Rough!Gift!Redeemable, Cards!Redeem,
      Rough!Gift!Redeem, Cards!Refund, Rough!Gift!Refund, Cards!Revoke, Rough!Gift!Revoke,
      Cards!Disable, Rough!Gift!Disable, Cards!Enableable, Rough!Gift!Enableable,
      Cards!Enable, Rough!Gift!Enable, Cards!Delete, Rough!Gift!Delete, Cards!Next,
      Rough!Gift!Next, Cards!Statuses, Rough!Gift!Statuses, Cards!TypeOK, Rough!Gift!TypeOK,
      Cards!Total, Rough!Gift!Total, Cards!Live, Rough!Gift!Live, Cards!Gifts,
      Rough!Gift!Gifts, Cards!MoneyIsKept, Rough!Gift!MoneyIsKept, Cards!Cardinality,
      Rough!Gift!Cardinality, Cards!IsFiniteSet, Rough!Gift!IsFiniteSet, Cards!MapThenSumSet,
      Rough!Gift!MapThenSumSet, Cards!MapThenFoldSet, Rough!Gift!MapThenFoldSet

LEMMA CardsMix == Spec /\ mix = "cards" => [](mix = "cards") /\ Rough!Gift!Spec
<1>1. Init /\ mix = "cards" => Rough!Gift!Init
  BY CardsAreRough DEF Init
<1>2. mix = "cards" /\ [Next]_vars
        => (mix = "cards")' /\ [Rough!Gift!Next]_(Rough!Gift!vars)
  BY CardsAreRough DEF Next, vars
<1> QED BY <1>1, <1>2, PTL DEF Spec, Rough!Gift!Spec

LEMMA IncomeIsRough ==
    /\ Income!Init => Rough!Gain!Init
    /\ Income!Next \/ UNCHANGED income => [Rough!Gain!Next]_(Rough!Gain!vars)
    /\ Income!HostIncomeConstants => Rough!Gain!HostIncomeConstants
    /\ Rough!Gain!TypeOK => Income!TypeOK
    /\ Rough!Gain!IncomeIsOnce => Income!IncomeIsOnce
    /\ Rough!Gain!OwnersGetTheirs => Income!OwnersGetTheirs
  BY Zenon DEF income,
      Income!Row, Rough!Gain!Row, Income!Withdrawal, Rough!Gain!Withdrawal, Income!Amount,
      Rough!Gain!Amount, Income!HostIncomeConstants, Rough!Gain!HostIncomeConstants,
      Income!rows, Rough!Gain!rows, Income!withdrawals, Rough!Gain!withdrawals, Income!jobs,
      Rough!Gain!jobs, Income!rowHistory, Rough!Gain!rowHistory, Income!vars, Rough!Gain!vars,
      Income!NoOwner, Rough!Gain!NoOwner, Income!Init, Rough!Gain!Init, Income!Frozen,
      Rough!Gain!Frozen, Income!SumOver, Rough!Gain!SumOver, Income!Smaller,
      Rough!Gain!Smaller, Income!AddRow, Rough!Gain!AddRow, Income!Earn, Rough!Gain!Earn,
      Income!AddFrozen, Rough!Gain!AddFrozen, Income!BecomesDue, Rough!Gain!BecomesDue,
      Income!FindDue, Rough!Gain!FindDue, Income!ReadDue, Rough!Gain!ReadDue, Income!ReadBy,
      Rough!Gain!ReadBy, Income!Rest, Rough!Gain!Rest, Income!ReleaseRows,
      Rough!Gain!ReleaseRows, Income!Release, Rough!Gain!Release, Income!GiveUp,
      Rough!Gain!GiveUp, Income!OldestFirst, Rough!Gain!OldestFirst, Income!Unread,
      Rough!Gain!Unread, Income!TakeFrom, Rough!Gain!TakeFrom, Income!FrozenOf,
      Rough!Gain!FrozenOf, Income!FromAvailable, Rough!Gain!FromAvailable, Income!FromPanel,
      Rough!Gain!FromPanel, Income!Deduct, Rough!Gain!Deduct, Income!FrozenRows,
      Rough!Gain!FrozenRows, Income!TakeFrozen, Rough!Gain!TakeFrozen, Income!AdjustAvailable,
      Rough!Gain!AdjustAvailable, Income!Unpaid, Rough!Gain!Unpaid, Income!UndoPurchase,
      Rough!Gain!UndoPurchase, Income!Withdraw, Rough!Gain!Withdraw, Income!Approve,
      Rough!Gain!Approve, Income!Rejectable, Rough!Gain!Rejectable, Income!Reject,
      Rough!Gain!Reject, Income!Job, Rough!Gain!Job, Income!Adjustments,
      Rough!Gain!Adjustments, Income!Next, Rough!Gain!Next, Income!RowStates,
      Rough!Gain!RowStates, Income!TypeOK, Rough!Gain!TypeOK, Income!IncomeIsOnce,
      Rough!Gain!IncomeIsOnce, Income!Withdrawn, Rough!Gain!Withdrawn, Income!OwnersGetTheirs,
      Rough!Gain!OwnersGetTheirs, Income!MapThenSumSet, Rough!Gain!MapThenSumSet,
      Income!Range, Rough!Gain!Range, Income!MapThenFoldSet, Rough!Gain!MapThenFoldSet

LEMMA IncomeMix == Spec /\ mix = "income" => [](mix = "income") /\ Rough!Gain!Spec
<1>1. Init /\ mix = "income" => Rough!Gain!Init
  BY IncomeIsRough DEF Init
<1>2. mix = "income" /\ [Next]_vars
        => (mix = "income")' /\ [Rough!Gain!Next]_(Rough!Gain!vars)
  BY IncomeIsRough DEF Next, vars
<1> QED BY <1>1, <1>2, PTL DEF Spec, Rough!Gain!Spec

-----------------------------------------------------------------------------
(* Income and gift cards                                                   *)

(* Income is released or deducted once, and what an owner has, has frozen  *)
(* and has withdrawn is what he has a right to, in whatever order jobs,    *)
(* deductions, withdrawals and failed creations come                       *)
(* (releaseFrozenBalance, deductHostingIncome).                            *)
THEOREM IncomeIsOnceAlways == Spec => []IncomeIsOnce
<1>1. (mix = "income" => Rough!Gain!IncomeIsOnce /\ Rough!Gain!OwnersGetTheirs) => IncomeIsOnce
  BY IncomeIsRough DEF IncomeIsOnce
<1>2. ~(mix = "income") /\ [Next]_vars => ~(mix = "income")'
  BY OtherMix
<1>3. Rough!Gain!Spec => []Rough!Gain!IncomeIsOnce
  BY ServicesConstants, IncomeIsRough, Rough!IncomeIsOnceAlways DEF ServicesConstants
<1>4. Rough!Gain!Spec => []Rough!Gain!OwnersGetTheirs
  BY ServicesConstants, IncomeIsRough, Rough!OwnersGetTheirsAlways DEF ServicesConstants
<1> QED BY <1>1, <1>2, <1>3, <1>4, IncomeMix, PTL DEF Spec

(* What users have and what is on their live cards is what they had and    *)
(* what they redeemed of administrators, so that a card is not both paid   *)
(* back and redeemed (generateGiftCardFromBalance, redeemGiftCard,         *)
(* refundUserFundedGiftCard).                                              *)
THEOREM MoneyIsKeptAlways == Spec => []MoneyIsKept
<1>1. (mix = "cards" => Rough!Gift!MoneyIsKept) => MoneyIsKept
  BY CardsAreRough DEF MoneyIsKept
<1>2. ~(mix = "cards") /\ [Next]_vars => ~(mix = "cards")'
  BY OtherMix
<1>3. Rough!Gift!Spec => []Rough!Gift!MoneyIsKept
  BY ServicesConstants, CardsAreRough, Rough!MoneyIsKeptAlways DEF ServicesConstants
<1> QED BY <1>1, <1>2, <1>3, CardsMix, PTL DEF Spec

-----------------------------------------------------------------------------
(* Creation, transfer and growth of instances, and e-mails                 *)

(* What runs has a machine, whatever fails in a creation, unless a         *)
(* destruction that failed has given the row back (confirmInstanceRunning, *)
(* the compensation, the job for stuck creations, instance-destroy.ts).    *)
THEOREM RunningHasMachineAlways == Spec => []RunningHasMachine
<1>1. /\ (mix = "faulty" => Rough!RunningHasMachine)
      /\ (mix = "smooth" => Calm!RunningHasMachine)
      => RunningHasMachine
  BY FaultyIsRough, SmoothIsCalm DEF RunningHasMachine
<1>2. /\ ~(mix = "faulty") /\ [Next]_vars => ~(mix = "faulty")'
      /\ ~(mix = "smooth") /\ [Next]_vars => ~(mix = "smooth")'
  BY OtherMix
<1>3. Rough!Spec => []Rough!RunningHasMachine
  BY ServicesConstants, FaultyIsRough, Rough!RunningHasMachineAlways DEF ServicesConstants
<1>4. Calm!Spec => []Calm!RunningHasMachine
  BY ServicesConstants, SmoothIsCalm, Calm!RunningHasMachineAlways DEF ServicesConstants
<1> QED BY <1>1, <1>2, <1>3, <1>4, FaultyMix, SmoothMix, PTL DEF Spec

(* A price is paid back once by the settlement of a failed creation and by *)
(* a destruction, whoever settles, unless the destruction began before the *)
(* settlement had paid; a fee once by whoever closes a request, unless a   *)
(* clean-up put back a request that was then accepted.                     *)
THEOREM PaidBackOnceAlways == Spec => []PaidBackOnce
<1>1. /\ (mix = "faulty" => Rough!PaidBackOnce)
      /\ (mix = "smooth" => Calm!PaidBackOnce)
      /\ (mix = "moves" => Calm!T!FeeOnce)
      /\ (mix = "faultyMoves" => Rough!T!FeeOnce)
      => PaidBackOnce
  BY FaultyIsRough, SmoothIsCalm, MovesAreCalm, FaultyMovesAreRough DEF PaidBackOnce
<1>2. /\ ~(mix = "faulty") /\ [Next]_vars => ~(mix = "faulty")'
      /\ ~(mix = "smooth") /\ [Next]_vars => ~(mix = "smooth")'
      /\ ~(mix = "moves") /\ [Next]_vars => ~(mix = "moves")'
      /\ ~(mix = "faultyMoves") /\ [Next]_vars => ~(mix = "faultyMoves")'
  BY OtherMix
<1>3. Rough!Spec => []Rough!PaidBackOnce
  BY ServicesConstants, FaultyIsRough, Rough!PaidBackOnceAlways DEF ServicesConstants
<1>4. Calm!Spec => []Calm!PaidBackOnce
  BY ServicesConstants, SmoothIsCalm, Calm!PaidBackOnceAlways DEF ServicesConstants
<1>5. Calm!T!Spec => []Calm!T!FeeOnce
  BY ServicesConstants, MovesAreCalm, Calm!FeeOnceAlways DEF ServicesConstants
<1>6. Rough!T!Spec => []Rough!T!FeeOnce
  BY ServicesConstants, FaultyMovesAreRough, Rough!FeeOnceAlways DEF ServicesConstants
<1> QED BY <1>1, <1>2, <1>3, <1>4, <1>5, <1>6, FaultyMix, SmoothMix, MovesMix, FaultyMovesMix,
           PTL DEF Spec

(* A creation that has failed leaves no machine, no address and nothing    *)
(* unpaid behind once everybody who was at it is done - if the host fails  *)
(* to create or start the machine or a rollback of the capacity fails, and *)
(* nothing else does: the settlement pays, its deletion is obeyed, nobody  *)
(* dies (handleInstanceCreateFailure, syncStuckCreatingInstances).         *)
THEOREM FailureLeavesNothingAlways == Spec => []FailureLeavesNothing
<1>1. (mix = "smooth" => Calm!FailureLeavesNothing) => FailureLeavesNothing
  BY SmoothIsCalm DEF FailureLeavesNothing
<1>2. ~(mix = "smooth") /\ [Next]_vars => ~(mix = "smooth")'
  BY OtherMix
<1>3. Calm!Spec => []Calm!FailureLeavesNothing
  BY ServicesConstants, SmoothIsCalm, Calm!FailureLeavesNothingAlways DEF ServicesConstants
<1> QED BY <1>1, <1>2, <1>3, SmoothMix, PTL DEF Spec

(* A row moves to another user with its machine only, whatever fails.      *)
THEOREM MovesWithMachineAlways == Spec => MovesWithMachine
<1> DEFINE A == owner' # owner => actual' = name'
<1>1. Spec /\ mix = "moves" => MovesWithMachine
  <2>1. [A]_(Calm!T!vars) => [A]_(Moves!vars)
    BY DEF Calm!T!vars, Calm!T!requests, Calm!T!row, Calm!T!machine, Calm!T!local,
           Moves!vars, Moves!requests, Moves!row, Moves!machine, Moves!local
  <2>2. Calm!T!Spec => Calm!T!MovesWithMachine
    BY ServicesConstants, MovesAreCalm, Calm!MovesWithMachineAlways DEF ServicesConstants
  <2> QED BY <2>1, <2>2, MovesMix, PTL
          DEF MovesWithMachine, Moves!MovesWithMachine, Calm!T!MovesWithMachine
<1>2. Spec /\ mix = "faultyMoves" => MovesWithMachine
  <2>1. [A]_(Rough!T!vars) => [A]_(Moves!vars)
    BY DEF Rough!T!vars, Rough!T!requests, Rough!T!row, Rough!T!machine, Rough!T!local,
           Moves!vars, Moves!requests, Moves!row, Moves!machine, Moves!local
  <2>2. Rough!T!Spec => Rough!T!MovesWithMachine
    BY ServicesConstants, FaultyMovesAreRough, Rough!MovesWithMachineAlways DEF ServicesConstants
  <2> QED BY <2>1, <2>2, FaultyMovesMix, PTL
          DEF MovesWithMachine, Moves!MovesWithMachine, Rough!T!MovesWithMachine
<1>3. Spec /\ mix \notin {"moves", "faultyMoves"} => MovesWithMachine
  <2>1. mix \notin {"moves", "faultyMoves"} /\ [Next]_vars
          => (mix \notin {"moves", "faultyMoves"})' /\ [A]_(Moves!vars)
    BY DEF Next, vars, transfer, Moves!vars, Moves!requests, Moves!row, Moves!machine,
           Moves!local
  <2> QED BY <2>1, PTL DEF Spec, MovesWithMachine, Moves!MovesWithMachine
<1>4. mix = "moves" \/ mix = "faultyMoves" \/ mix \notin {"moves", "faultyMoves"}
  OBVIOUS
<1> QED BY <1>1, <1>2, <1>3, <1>4, PTL

(* A machine differs from its row only while a log or a handler says so    *)
(* (applyResource, the job for pending logs, redeemCode).                  *)
THEOREM PendingUntilPatchedAlways == Spec => []PendingUntilPatched
<1>1. (mix = "growth" => Rough!Grow!PendingUntilPatched) => PendingUntilPatched
  BY GrowthIsRough DEF PendingUntilPatched
<1>2. ~(mix = "growth") /\ [Next]_vars => ~(mix = "growth")'
  BY OtherMix
<1>3. Rough!Grow!Spec => []Rough!Grow!PendingUntilPatched
  BY ServicesConstants, GrowthIsRough, Rough!PendingUntilPatchedAlways DEF ServicesConstants
<1> QED BY <1>1, <1>2, <1>3, GrowthMix, PTL DEF Spec

(* One e-mail is claimed in each interval, by any number of processes      *)
(* (processEmailQueue).                                                    *)
THEOREM ThrottledAlways == Spec => Throttled
<1> DEFINE A == last' # last => last' > last + 1
<1>1. Spec /\ mix = "emails" => Throttled
  <2>1. [A]_(Rough!Post!vars) => [A]_(Emails!vars)
    BY DEF Rough!Post!vars, Rough!Post!task, Rough!Post!worker, Rough!Post!history,
           Emails!vars, Emails!task, Emails!worker, Emails!history
  <2>2. Rough!Post!Spec => Rough!Post!Throttled
    BY ServicesConstants, EmailsAreRough, Rough!ThrottledAlways DEF ServicesConstants
  <2> QED BY <2>1, <2>2, EmailsMix, PTL DEF Throttled, Emails!Throttled, Rough!Post!Throttled
<1>2. Spec /\ mix # "emails" => Throttled
  <2>1. mix # "emails" /\ [Next]_vars => (mix # "emails")' /\ [A]_(Emails!vars)
    BY DEF Next, vars, emails, Emails!vars, Emails!task, Emails!worker, Emails!history
  <2> QED BY <2>1, PTL DEF Spec, Throttled, Emails!Throttled
<1>3. mix = "emails" \/ mix # "emails"
  OBVIOUS
<1> QED BY <1>1, <1>2, <1>3, PTL

-----------------------------------------------------------------------------
(* Domains and bandwidth                                                   *)

(* What is paid for and not resumed is marked for a later round, and what  *)
(* is marked and not paid for is suspended at the provider, although a lost*)
(* answer, a slow provider, a busy lock, a cancellation or a crash gets in *)
(* the way (checkMailSubscriptionExpiry, resumeMailSubscriptionDomains).   *)
THEOREM DomainsFollowAlways == Spec => []DomainsFollow
<1>1. /\ (mix = "mails" => Refusing!Mail!PaidIsMarked)
      /\ (mix = "crashedMails" => Crashing!Mail!UnpaidIsSuspended)
      => DomainsFollow
  BY MailsAreRefusing, MailsAreCrashing DEF DomainsFollow
<1>2. /\ ~(mix = "mails") /\ [Next]_vars => ~(mix = "mails")'
      /\ ~(mix = "crashedMails") /\ [Next]_vars => ~(mix = "crashedMails")'
  BY OtherMix
<1>3. Refusing!Mail!Spec => []Refusing!Mail!PaidIsMarked
  BY ServicesConstants, MailsAreRefusing, Refusing!PaidIsMarkedAlways DEF ServicesConstants
<1>4. Crashing!Mail!Spec => []Crashing!Mail!UnpaidIsSuspended
  BY ServicesConstants, MailsAreCrashing, Crashing!UnpaidIsSuspendedAlways DEF ServicesConstants
<1> QED BY <1>1, <1>2, <1>3, <1>4, MailsMix, CrashedMailsMix, PTL DEF Spec

(* No domain is left at the provider without a row, whatever the provider  *)
(* refuses or answers late and whoever crashes (POST and DELETE /domains). *)
THEOREM NothingHiddenAlways == Spec => []NothingHidden
<1>1. (mix = "faultyMails" => Unheard!Mail!NothingHidden) => NothingHidden
  BY MailsAreUnheard DEF NothingHidden
<1>2. ~(mix = "faultyMails") /\ [Next]_vars => ~(mix = "faultyMails")'
  BY OtherMix
<1>3. Unheard!Mail!Spec => []Unheard!Mail!NothingHidden
  BY ServicesConstants, MailsAreUnheard, Unheard!NothingHiddenAlways DEF ServicesConstants
<1> QED BY <1>1, <1>2, <1>3, FaultyMailsMix, PTL DEF Spec

(* If no fault occurs, the host and the row have the bandwidth the status  *)
(* calls for whenever no handler is about to arbitrate it - the host       *)
(* possibly that of a new plan, which its change sets beside the lock      *)
(* (arbitrateInstanceBandwidth, instance-billing.ts).                      *)
THEOREM BandwidthFollowsAlways == Spec => []BandwidthFollows
<1>1. (mix = "throttling" => Refusing!Band!BandwidthFollows) => BandwidthFollows
  BY ThrottlingIsRefusing DEF BandwidthFollows
<1>2. ~(mix = "throttling") /\ [Next]_vars => ~(mix = "throttling")'
  BY OtherMix
<1>3. Refusing!Band!Spec => []Refusing!Band!BandwidthFollows
  BY ServicesConstants, ThrottlingIsRefusing, Refusing!BandwidthFollowsAlways
     DEF ServicesConstants
<1> QED BY <1>1, <1>2, <1>3, ThrottlingMix, PTL DEF Spec

(* A pass over an instance that is alone and does not fail leaves status,  *)
(* row and host as the usage calls for, whatever failed, expired or died   *)
(* before (trafficSyncJob and arbitrateInstanceBandwidth).                 *)
THEOREM NextPassHealsAlways == Spec => NextPassHeals
<1> DEFINE A == \A h \in Process :
                  throttlePc[h] = "write" /\ throttlePc'[h] = "idle" /\ alone[h]
                    => /\ overrun' = "LIMITED" <=> level' = "over"
                       /\ bandwidth' = Throttling!Effective' /\ limits' = Throttling!Effective'
<1>1. Spec /\ mix = "throttling" => NextPassHeals
  <2> DEFINE B == \A h \in Process :
          throttlePc[h] = "write" /\ throttlePc'[h] = "idle" /\ alone[h]
            => /\ overrun' = "LIMITED" <=> level' = "over"
               /\ bandwidth' = Refusing!Band!Effective' /\ limits' = Refusing!Band!Effective'
  <2>1. [B]_(Refusing!Band!vars) => [A]_(Throttling!vars)
    BY Zenon DEF Throttling!vars, Throttling!row, Throttling!local, Throttling!Effective,
       Throttling!Calculated, Refusing!Band!vars, Refusing!Band!row, Refusing!Band!local,
       Refusing!Band!Effective, Refusing!Band!Calculated
  <2>2. Refusing!Band!Spec => Refusing!Band!NextPassHeals
    BY ServicesConstants, ThrottlingIsRefusing, Refusing!NextPassHealsAlways DEF ServicesConstants
  <2> QED BY <2>1, <2>2, ThrottlingMix, PTL
          DEF NextPassHeals, Throttling!NextPassHeals, Refusing!Band!NextPassHeals
<1>2. Spec /\ mix = "faultyThrottling" => NextPassHeals
  <2> DEFINE B == \A h \in Process :
          throttlePc[h] = "write" /\ throttlePc'[h] = "idle" /\ alone[h]
            => /\ overrun' = "LIMITED" <=> level' = "over"
               /\ bandwidth' = Crashing!Band!Effective' /\ limits' = Crashing!Band!Effective'
  <2>1. [B]_(Crashing!Band!vars) => [A]_(Throttling!vars)
    BY Zenon DEF Throttling!vars, Throttling!row, Throttling!local, Throttling!Effective,
       Throttling!Calculated, Crashing!Band!vars, Crashing!Band!row, Crashing!Band!local,
       Crashing!Band!Effective, Crashing!Band!Calculated
  <2>2. Crashing!Band!Spec => Crashing!Band!NextPassHeals
    BY ServicesConstants, ThrottlingIsCrashing, Crashing!NextPassHealsAlways DEF ServicesConstants
  <2> QED BY <2>1, <2>2, FaultyThrottlingMix, PTL
          DEF NextPassHeals, Throttling!NextPassHeals, Crashing!Band!NextPassHeals
<1> DEFINE Other == mix \notin {"throttling", "faultyThrottling"}
<1>3. Spec /\ Other => NextPassHeals
  <2>1. Other /\ [Next]_vars => Other' /\ [A]_(Throttling!vars)
    BY DEF Next, vars, throttling, Throttling!vars, Throttling!row, Throttling!local
  <2> QED BY <2>1, PTL DEF Spec, NextPassHeals, Throttling!NextPassHeals
<1>4. mix = "throttling" \/ mix = "faultyThrottling" \/ Other
  OBVIOUS
<1> QED BY <1>1, <1>2, <1>3, <1>4, PTL

-----------------------------------------------------------------------------
(* Snapshots, backups and ports                                            *)

(* Snapshots and backups are on the host if their rows say so and within   *)
(* their quota, a job costs one old snapshot at most, and the storage has  *)
(* what was uploaded and nothing else, each with its mix of faults         *)
(* (executeAutoSnapshot, createSnapshot, backupInstance, executeUpload).   *)
THEOREM CopiesKeptAlways == Spec => []CopiesKept
<1>1. /\ (mix = "snapshots" => Refusing!Snap!RowsMatchHost)
      /\ (mix = "fullSnapshots" => Crashing!Snap!OneForOne /\ Crashing!Snap!QuotaKept)
      /\ (mix = "lostSnapshots" => Unheard!Snap!QuotaKept)
      /\ (mix = "backups" =>
            /\ Refusing!Copy!QuotaKept
            /\ Refusing!Copy!ReadyIsOnHost
            /\ Refusing!Copy!CompletedIsStored
            /\ Refusing!Copy!NothingStray)
      /\ (mix = "uploads" => Crashing!Copy!CompletedIsStored)
      => CopiesKept
  BY SnapsAreRefusing, SnapsAreCrashing, SnapsAreUnheard, CopiesAreRefusing, UploadsAreCrashing
     DEF CopiesKept
<1>2. /\ ~(mix = "snapshots") /\ [Next]_vars => ~(mix = "snapshots")'
      /\ ~(mix = "fullSnapshots") /\ [Next]_vars => ~(mix = "fullSnapshots")'
      /\ ~(mix = "lostSnapshots") /\ [Next]_vars => ~(mix = "lostSnapshots")'
      /\ ~(mix = "backups") /\ [Next]_vars => ~(mix = "backups")'
      /\ ~(mix = "uploads") /\ [Next]_vars => ~(mix = "uploads")'
  BY OtherMix
<1>3. Refusing!Snap!Spec => []Refusing!Snap!RowsMatchHost
  BY ServicesConstants, SnapsAreRefusing, Refusing!RowsMatchHostAlways DEF ServicesConstants
<1>4. Crashing!Snap!Spec => []Crashing!Snap!OneForOne
  BY ServicesConstants, SnapsAreCrashing, Crashing!OneForOneAlways DEF ServicesConstants
<1>5. Crashing!Snap!Spec => []Crashing!Snap!QuotaKept
  BY ServicesConstants, SnapsAreCrashing, Crashing!SnapQuotaKept DEF ServicesConstants
<1>6. Unheard!Snap!Spec => []Unheard!Snap!QuotaKept
  BY ServicesConstants, SnapsAreUnheard, Unheard!SnapQuotaKept DEF ServicesConstants
<1>7. Refusing!Copy!Spec => []Refusing!Copy!QuotaKept
  BY ServicesConstants, CopiesAreRefusing, Refusing!BackupQuotaKept DEF ServicesConstants
<1>8. Refusing!Copy!Spec => []Refusing!Copy!ReadyIsOnHost
  BY ServicesConstants, CopiesAreRefusing, Refusing!ReadyIsOnHostAlways DEF ServicesConstants
<1>9. Refusing!Copy!Spec => []Refusing!Copy!CompletedIsStored
  BY ServicesConstants, CopiesAreRefusing, Refusing!CompletedIsStoredAlways DEF ServicesConstants
<1>10. Refusing!Copy!Spec => []Refusing!Copy!NothingStray
  BY ServicesConstants, CopiesAreRefusing, Refusing!NothingStrayAlways DEF ServicesConstants
<1>11. Crashing!Copy!Spec => []Crashing!Copy!CompletedIsStored
  BY ServicesConstants, UploadsAreCrashing, Crashing!CompletedIsStoredAlways DEF ServicesConstants
<1> QED BY <1>1, <1>2, <1>3, <1>4, <1>5, <1>6, <1>7, <1>8, <1>9, <1>10, <1>11, SnapsMix,
           FullSnapsMix, LostSnapsMix, CopiesMix, UploadsMix, PTL DEF Spec

(* A port leads to the instance its row names, no machine has a port       *)
(* without a row, and an instance no more ports than its quota, each with  *)
(* its mix of faults (POST and DELETE of port mappings).                   *)
THEOREM PortsKeptAlways == Spec => []PortsKept
<1>1. /\ (mix = "ports" => Refusing!RowsAreServed /\ Refusing!NothingHidden)
      /\ (mix = "faultyPorts" => Crashing!NothingHidden /\ Crashing!QuotaKept)
      /\ (mix = "openPorts" => Unheard!QuotaKept)
      => PortsKept
  BY PortsAreRefusing, PortsAreCrashing, PortsAreUnheard DEF PortsKept
<1>2. /\ ~(mix = "ports") /\ [Next]_vars => ~(mix = "ports")'
      /\ ~(mix = "faultyPorts") /\ [Next]_vars => ~(mix = "faultyPorts")'
      /\ ~(mix = "openPorts") /\ [Next]_vars => ~(mix = "openPorts")'
  BY OtherMix
<1>3. Refusing!Spec => []Refusing!RowsAreServed
  BY ServicesConstants, PortsAreRefusing, Refusing!RowsAreServedAlways DEF ServicesConstants
<1>4. Refusing!Spec => []Refusing!NothingHidden
  BY ServicesConstants, PortsAreRefusing, Refusing!PortsNotHidden DEF ServicesConstants
<1>5. Crashing!Spec => []Crashing!NothingHidden
  BY ServicesConstants, PortsAreCrashing, Crashing!PortsNotHidden DEF ServicesConstants
<1>6. Crashing!Spec => []Crashing!QuotaKept
  BY ServicesConstants, PortsAreCrashing, Crashing!PortQuotaKept DEF ServicesConstants
<1>7. Unheard!Spec => []Unheard!QuotaKept
  BY ServicesConstants, PortsAreUnheard, Unheard!PortQuotaKept DEF ServicesConstants
<1> QED BY <1>1, <1>2, <1>3, <1>4, <1>5, <1>6, <1>7, PortsMix, FaultyPortsMix, OpenPortsMix, PTL
           DEF Spec

-----------------------------------------------------------------------------
(* Types                                                                   *)

(* The types of a service do not depend on its faults.                     *)
LEMMA SameTypes ==
    /\ CrashedMails!TypeOK => Mails!TypeOK
    /\ FaultyMails!TypeOK => Mails!TypeOK
    /\ FaultyThrottling!TypeOK => Throttling!TypeOK
    /\ FaultyPorts!TypeOK => Ports!TypeOK
  BY Zenon DEF CrashedMails!Patient, Mails!Patient, CrashedMails!Resuming, Mails!Resuming,
     CrashedMails!Working, Mails!Working, CrashedMails!TypeOK, Mails!TypeOK,
     FaultyMails!Patient, FaultyMails!Resuming, FaultyMails!Working, FaultyMails!TypeOK,
     FaultyThrottling!Level, Throttling!Level, FaultyThrottling!Status, Throttling!Status,
     FaultyThrottling!Line, Throttling!Line, FaultyThrottling!Speed, Throttling!Speed,
     FaultyThrottling!TypeOK, Throttling!TypeOK, FaultyPorts!Device,
     Ports!Device, FaultyPorts!Work, Ports!Work, FaultyPorts!TypeOK, Ports!TypeOK

(* Every service keeps the types of its state, whatever its mix of faults. *)
THEOREM TypeCorrect == Spec => []TypeOK
<1> DEFINE Part1 == /\ (mix = "income" => Income!TypeOK)
                    /\ (mix = "faulty" => Faulty!TypeOK)
                    /\ (mix = "smooth" => Smooth!TypeOK)
                    /\ (mix = "moves" => Moves!TypeOK)
                    /\ (mix = "faultyMoves" => FaultyMoves!TypeOK)
           Part2 == /\ (mix = "cards" => Cards!TypeOK)
                    /\ (mix = "emails" => Emails!TypeOK)
                    /\ (mix = "growth" => Growth!TypeOK)
           Part3 == /\ (mix = "mails" => Mails!TypeOK)
                    /\ (mix = "crashedMails" => CrashedMails!TypeOK)
                    /\ (mix = "faultyMails" => FaultyMails!TypeOK)
           Part4 == /\ (mix = "throttling" => Throttling!TypeOK)
                    /\ (mix = "faultyThrottling" => FaultyThrottling!TypeOK)
           Part5 == /\ (mix = "snapshots" => Snaps!TypeOK)
                    /\ (mix = "fullSnapshots" => FullSnaps!TypeOK)
                    /\ (mix = "lostSnapshots" => LostSnaps!TypeOK)
                    /\ (mix = "backups" => Copies!TypeOK)
                    /\ (mix = "uploads" => Uploads!TypeOK)
           Part6 == /\ (mix = "ports" => Ports!TypeOK)
                    /\ (mix = "faultyPorts" => FaultyPorts!TypeOK)
                    /\ (mix = "openPorts" => OpenPorts!TypeOK)
<1>1. Spec => []Part1
  <2>1. /\ Rough!Gain!TypeOK => Income!TypeOK
        /\ Rough!TypeOK => Faulty!TypeOK
        /\ Calm!TypeOK => Smooth!TypeOK
        /\ Calm!T!TypeOK => Moves!TypeOK
        /\ Rough!T!TypeOK => FaultyMoves!TypeOK
    BY Zenon, IncomeIsRough, FaultyIsRough, SmoothIsCalm, MovesAreCalm, FaultyMovesAreRough
  <2>2. /\ ~(mix = "income") /\ [Next]_vars => ~(mix = "income")'
        /\ ~(mix = "faulty") /\ [Next]_vars => ~(mix = "faulty")'
        /\ ~(mix = "smooth") /\ [Next]_vars => ~(mix = "smooth")'
        /\ ~(mix = "moves") /\ [Next]_vars => ~(mix = "moves")'
        /\ ~(mix = "faultyMoves") /\ [Next]_vars => ~(mix = "faultyMoves")'
    BY OtherMix
  <2>3. Rough!Gain!Spec => []Rough!Gain!TypeOK
    BY ServicesConstants, IncomeIsRough, Rough!IncomeTypeCorrect DEF ServicesConstants
  <2>4. Rough!Spec => []Rough!TypeOK
    BY ServicesConstants, FaultyIsRough, Rough!TypeCorrect DEF ServicesConstants
  <2>5. Calm!Spec => []Calm!TypeOK
    BY ServicesConstants, SmoothIsCalm, Calm!TypeCorrect DEF ServicesConstants
  <2>6. Calm!T!Spec => []Calm!T!TypeOK
    BY ServicesConstants, MovesAreCalm, Calm!TransferTypeCorrect DEF ServicesConstants
  <2>7. Rough!T!Spec => []Rough!T!TypeOK
    BY ServicesConstants, FaultyMovesAreRough, Rough!TransferTypeCorrect DEF ServicesConstants
  <2> QED BY <2>1, <2>2, <2>3, <2>4, <2>5, <2>6, <2>7, IncomeMix, FaultyMix, SmoothMix,
             MovesMix, FaultyMovesMix, PTL DEF Spec
<1>2. Spec => []Part2
  <2>1. /\ Rough!Gift!TypeOK => Cards!TypeOK
        /\ Rough!Post!TypeOK => Emails!TypeOK
        /\ Rough!Grow!TypeOK => Growth!TypeOK
    BY Zenon, CardsAreRough, EmailsAreRough, GrowthIsRough
  <2>2. /\ ~(mix = "cards") /\ [Next]_vars => ~(mix = "cards")'
        /\ ~(mix = "emails") /\ [Next]_vars => ~(mix = "emails")'
        /\ ~(mix = "growth") /\ [Next]_vars => ~(mix = "growth")'
    BY OtherMix
  <2>3. Rough!Gift!Spec => []Rough!Gift!TypeOK
    BY ServicesConstants, CardsAreRough, Rough!CardTypeCorrect DEF ServicesConstants
  <2>4. Rough!Post!Spec => []Rough!Post!TypeOK
    BY ServicesConstants, EmailsAreRough, Rough!EmailTypeCorrect DEF ServicesConstants
  <2>5. Rough!Grow!Spec => []Rough!Grow!TypeOK
    BY ServicesConstants, GrowthIsRough, Rough!GrowthTypeCorrect DEF ServicesConstants
  <2> QED BY <2>1, <2>2, <2>3, <2>4, <2>5, CardsMix, EmailsMix, GrowthMix, PTL DEF Spec
<1>3. Spec => []Part3
  <2>1. /\ Refusing!Mail!TypeOK => Mails!TypeOK
        /\ Crashing!Mail!TypeOK => CrashedMails!TypeOK
        /\ Unheard!Mail!TypeOK => FaultyMails!TypeOK
    BY Zenon, MailsAreRefusing, MailsAreCrashing, MailsAreUnheard
  <2>2. /\ ~(mix = "mails") /\ [Next]_vars => ~(mix = "mails")'
        /\ ~(mix = "crashedMails") /\ [Next]_vars => ~(mix = "crashedMails")'
        /\ ~(mix = "faultyMails") /\ [Next]_vars => ~(mix = "faultyMails")'
    BY OtherMix
  <2>3. Refusing!Mail!Spec => []Refusing!Mail!TypeOK
    BY ServicesConstants, MailsAreRefusing, Refusing!MailTypeCorrect DEF ServicesConstants
  <2>4. Crashing!Mail!Spec => []Crashing!Mail!TypeOK
    BY ServicesConstants, MailsAreCrashing, Crashing!MailTypeCorrect DEF ServicesConstants
  <2>5. Unheard!Mail!Spec => []Unheard!Mail!TypeOK
    BY ServicesConstants, MailsAreUnheard, Unheard!MailTypeCorrect DEF ServicesConstants
  <2> QED BY <2>1, <2>2, <2>3, <2>4, <2>5, MailsMix, CrashedMailsMix, FaultyMailsMix, PTL DEF Spec
<1>4. Spec => []Part4
  <2>1. /\ Refusing!Band!TypeOK => Throttling!TypeOK
        /\ Crashing!Band!TypeOK => FaultyThrottling!TypeOK
    BY Zenon, ThrottlingIsRefusing, ThrottlingIsCrashing
  <2>2. /\ ~(mix = "throttling") /\ [Next]_vars => ~(mix = "throttling")'
        /\ ~(mix = "faultyThrottling") /\ [Next]_vars => ~(mix = "faultyThrottling")'
    BY OtherMix
  <2>3. Refusing!Band!Spec => []Refusing!Band!TypeOK
    BY ServicesConstants, ThrottlingIsRefusing, Refusing!ThrottleTypeCorrect DEF ServicesConstants
  <2>4. Crashing!Band!Spec => []Crashing!Band!TypeOK
    BY ServicesConstants, ThrottlingIsCrashing, Crashing!ThrottleTypeCorrect DEF ServicesConstants
  <2> QED BY <2>1, <2>2, <2>3, <2>4, ThrottlingMix, FaultyThrottlingMix, PTL DEF Spec
<1>5. Spec => []Part5
  <2>1. /\ Refusing!Snap!TypeOK => Snaps!TypeOK
        /\ Crashing!Snap!TypeOK => FullSnaps!TypeOK
        /\ Unheard!Snap!TypeOK => LostSnaps!TypeOK
        /\ Refusing!Copy!TypeOK => Copies!TypeOK
        /\ Crashing!Copy!TypeOK => Uploads!TypeOK
    BY Zenon, SnapsAreRefusing, SnapsAreCrashing, SnapsAreUnheard, CopiesAreRefusing,
       UploadsAreCrashing
  <2>2. /\ ~(mix = "snapshots") /\ [Next]_vars => ~(mix = "snapshots")'
        /\ ~(mix = "fullSnapshots") /\ [Next]_vars => ~(mix = "fullSnapshots")'
        /\ ~(mix = "lostSnapshots") /\ [Next]_vars => ~(mix = "lostSnapshots")'
        /\ ~(mix = "backups") /\ [Next]_vars => ~(mix = "backups")'
        /\ ~(mix = "uploads") /\ [Next]_vars => ~(mix = "uploads")'
    BY OtherMix
  <2>3. Refusing!Snap!Spec => []Refusing!Snap!TypeOK
    BY ServicesConstants, SnapsAreRefusing, Refusing!SnapTypeCorrect DEF ServicesConstants
  <2>4. Crashing!Snap!Spec => []Crashing!Snap!TypeOK
    BY ServicesConstants, SnapsAreCrashing, Crashing!SnapTypeCorrect DEF ServicesConstants
  <2>5. Unheard!Snap!Spec => []Unheard!Snap!TypeOK
    BY ServicesConstants, SnapsAreUnheard, Unheard!SnapTypeCorrect DEF ServicesConstants
  <2>6. Refusing!Copy!Spec => []Refusing!Copy!TypeOK
    BY ServicesConstants, CopiesAreRefusing, Refusing!BackupTypeCorrect DEF ServicesConstants
  <2>7. Crashing!Copy!Spec => []Crashing!Copy!TypeOK
    BY ServicesConstants, UploadsAreCrashing, Crashing!BackupTypeCorrect DEF ServicesConstants
  <2> QED BY <2>1, <2>2, <2>3, <2>4, <2>5, <2>6, <2>7, SnapsMix, FullSnapsMix, LostSnapsMix,
             CopiesMix, UploadsMix, PTL DEF Spec
<1>6. Spec => []Part6
  <2>1. /\ Refusing!TypeOK => Ports!TypeOK
        /\ Crashing!TypeOK => FaultyPorts!TypeOK
        /\ Unheard!TypeOK => OpenPorts!TypeOK
    BY Zenon, PortsAreRefusing, PortsAreCrashing, PortsAreUnheard
  <2>2. /\ ~(mix = "ports") /\ [Next]_vars => ~(mix = "ports")'
        /\ ~(mix = "faultyPorts") /\ [Next]_vars => ~(mix = "faultyPorts")'
        /\ ~(mix = "openPorts") /\ [Next]_vars => ~(mix = "openPorts")'
    BY OtherMix
  <2>3. Refusing!Spec => []Refusing!TypeOK
    BY ServicesConstants, PortsAreRefusing, Refusing!PortTypeCorrect DEF ServicesConstants
  <2>4. Crashing!Spec => []Crashing!TypeOK
    BY ServicesConstants, PortsAreCrashing, Crashing!PortTypeCorrect DEF ServicesConstants
  <2>5. Unheard!Spec => []Unheard!TypeOK
    BY ServicesConstants, PortsAreUnheard, Unheard!PortTypeCorrect DEF ServicesConstants
  <2> QED BY <2>1, <2>2, <2>3, <2>4, <2>5, PortsMix, FaultyPortsMix, OpenPortsMix, PTL DEF Spec
<1>7. Part1 /\ Part2 /\ Part3 /\ Part4 /\ Part5 /\ Part6 => TypeOK
  BY SameTypes DEF TypeOK
<1> HIDE DEF Part1, Part2, Part3, Part4, Part5, Part6
<1> QED BY <1>1, <1>2, <1>3, <1>4, <1>5, <1>6, <1>7, PTL
=============================================================================
