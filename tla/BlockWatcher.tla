---------------------------- MODULE BlockWatcher ----------------------------
(***************************************************************************)
(* The block watcher: from the boot of the process (app.run), through the  *)
(* loading and reconciling of the persisted cursor, to the polling loop    *)
(* that walks the slots, gives one verdict on each slot a pool leads, and  *)
(* moves from epoch to epoch.  internal/watcher/watcher_block.go,          *)
(* watcher_block_state.go, and the parts of internal/slotleader and        *)
(* cmd/watcher/app they run with.                                          *)
(*                                                                         *)
(* One action is the code between two points where something outside the   *)
(* goroutine can interfere: the chain grows between two Blockfrost calls,  *)
(* the next-epoch scheduler inserts rows between two queries, the process  *)
(* is killed anywhere.  A failing call spends one unit of the bound        *)
(* MaxFaults; a call whose failure changes nothing but a log line is a     *)
(* stuttering step.                                                        *)
(***************************************************************************)
EXTENDS Ledger, FiniteSets

CONSTANTS
    Faults,     \* the kinds of failure that may occur, see FaultKinds
    MaxFaults   \* bound: how many failures a behaviour has

VARIABLES
    \* Persistent: the SQLite database.
    db,         \* the row of block_watcher_state, or NoState
    rows,       \* the keys <<epoch, pool>> of the slots table
    \* Volatile: the process.
    pc,         \* what the block watcher does next, or how the process ended
    healthy,    \* the flag of the HealthStore
    epoch,      \* BlockWatcherState.Epoch
    slot,       \* BlockWatcherState.Slot, the last slot processed
    req,        \* the epoch a pending operation was told is the latest
    blk,        \* the latest block, as this pass of start() was told
    cur,        \* the slot processSlots is at
    last,       \* the slot processSlots ends at
    todo,       \* the pools slot `cur' has still to be processed for
    ahead,      \* the epoch the next-epoch scheduler is computing, or -1
    tally,      \* the series of the missed, validated and orphaned counters
    streak,     \* the series of the consecutive-missed gauge
    \* History: read by properties only.
    judged,     \* the verdicts given by this process
    ever,       \* <<pool, slot>> judged by this process or an earlier one
    waived,     \* slots passed over: by a failed scan or a jump of epoch
    origin,     \* the slot after which the last boot without a row started
    \* Bound.
    faults      \* failures so far

memory  == <<epoch, slot>>
pass    == <<req, blk, cur, last, todo>>
disk    == <<db, rows>>
metrics == <<tally, streak>>
history == <<judged, ever, waived, origin>>
vars    == <<ledgerVars, disk, pc, healthy, memory, pass, ahead, metrics,
             history, faults>>

Verdicts == {"missed", "validated", "orphaned"}
NoState  == [epoch |-> -1, slot |-> -1]

(* How the process ended: "failed" is an error that run() returns. *)
Down == {"killed", "failed", "panicked"}
Boot == {"refresh", "init", "load", "ensure"}
Loop == {"idle", "leaders", "scan", "slots", "save", "rollover",
         "reschedule", "check"}

FaultKinds ==
    {"kill",        \* the process is killed
     "boot",        \* a call fails before the loop: the process exits
     "blockfrost",  \* a Blockfrost call outside processSlots fails
     "ensure",      \* the query of ensurePoolHasLeaderSlots fails
     "judge",       \* a call of processPoolSlot fails
     "save",        \* the write of the cursor after a scan fails
     "enter",       \* the write of the cursor in a new epoch fails
     "leaderlogs",  \* cncli fails while the new epoch is refreshed
     "refresh",     \* another call of that refresh fails, or the scheduler
                    \* gets in its way
     "health"}      \* the status watcher finds an upstream down

ASSUME FaultAssumption == Faults \subseteq FaultKinds /\ MaxFaults \in Nat

Fault(kind) ==
    /\ kind \in Faults
    /\ faults < MaxFaults
    /\ faults' = faults + 1

NoFault == faults' = faults

-----------------------------------------------------------------------------
(* The slots table: a row is present or not, and never changes. *)

Monitored      == Pools \ AllowEmpty
HasRow(p, e)   == <<e, p>> \in rows
RowsFor(ps, e) == {e} \X ps

(* IsSlotsEmpty and GetNextSlotLeader index the row they read. *)
NoRowFor(ps)   == \E p \in ps : ~HasRow(p, epoch)
Unassigned(ps) == \E p \in ps : HasRow(p, epoch) /\ Schedule(p, epoch) = {}
Seeded(ps)     == \A p \in ps : HasRow(p, epoch) /\ Schedule(p, epoch) # {}

(* initMetrics: the counters start again, the streak gauge does not. *)
NoTally  == [e \in Epochs |-> [p \in Pools |-> [v \in Verdicts |-> 0]]]
NoStreak == [e \in Epochs |-> [p \in Pools |-> 0]]

initMetrics == tally' = NoTally /\ streak' = streak

(* The end of the process: what is not in the database is gone. *)
Exit(how) ==
    /\ pc' = how
    /\ healthy' = FALSE
    /\ epoch' = 0 /\ slot' = 0
    /\ req' = 0 /\ blk' = 0 /\ cur' = 0 /\ last' = 0 /\ todo' = {}
    /\ ahead' = -1
    /\ tally' = NoTally /\ streak' = NoStreak
    /\ judged' = {}
    /\ UNCHANGED <<ledgerVars, db, ever, waived, origin>>

Goto(where) == pc' = where /\ UNCHANGED <<ledgerVars, healthy, ahead>>

-----------------------------------------------------------------------------
(* Boot: run() refreshes the current epoch's schedule, then the watcher    *)
(* loads its cursor.                                                       *)

Start ==
    /\ pc \in Down
    /\ req' = GetLatestEpoch
    /\ Goto("refresh") /\ NoFault
    /\ UNCHANGED <<disk, memory, blk, cur, last, todo, metrics, history>>

RefreshAtBoot ==
    /\ pc = "refresh"
    /\ rows' = rows \cup RowsFor(Pools, req)
    /\ Goto("init") /\ NoFault
    /\ UNCHANGED <<db, memory, pass, metrics, history>>

(* Any error of the refresh ends the process; other pools' rows stay. *)
RefreshAtBootFails ==
    /\ pc = "refresh"
    /\ \E ps \in SUBSET Pools : rows' = rows \cup RowsFor(ps, req)
    /\ Fault("boot")
    /\ Exit("failed")

(* initState asks for the epoch again: it may be a later one. *)
InitState ==
    /\ pc = "init"
    /\ req' = GetLatestEpoch
    /\ Goto("load") /\ NoFault
    /\ UNCHANGED <<disk, memory, blk, cur, last, todo, metrics, history>>

(* Load: the saved row, or else the latest block (loadFromBlockfrost).     *)
LoadedMutant == [epoch |-> EpochOf(GetLatestBlock), slot |-> GetLatestBlock]

Loaded ==
    IF db = NoState
    THEN [epoch |-> EpochOf(GetLatestBlock), slot |-> GetLatestBlock]
    ELSE db

(* LoadAndReconcile: in a later epoch start after that epoch's first block.*)
(* A boot that finds no row, since this is the first one or since those    *)
(* before it died without a save, starts at the latest block of now: what  *)
(* an earlier process has walked, or not, before that is behind origin,    *)
(* and no property asks for it.                                            *)
BehindMutant == req >= Loaded.epoch

Behind == req > Loaded.epoch

Reconciled ==
    IF Behind THEN [epoch |-> req, slot |-> GetFirstBlockInEpoch(req)]
              ELSE Loaded

LoadAndReconcile ==
    /\ pc = "load"
    /\ epoch' = Reconciled.epoch
    /\ slot' = Reconciled.slot
    /\ db' = IF Behind THEN Reconciled ELSE db
    /\ waived' = waived \cup
          (IF Behind THEN (Loaded.slot + 1) .. Reconciled.slot ELSE {})
    /\ origin' = IF db = NoState THEN Loaded.slot ELSE origin
    /\ req' = 0
    /\ Goto("ensure") /\ NoFault
    /\ UNCHANGED <<rows, blk, cur, last, todo, metrics, judged, ever>>

BootFails ==
    /\ pc \in {"init", "load"}
    /\ Fault("boot")
    /\ Exit("failed")
    /\ UNCHANGED rows

(* ensurePoolHasLeaderSlots: a pool that may not be empty is; the process  *)
(* ends at boot, where the caller returns the error.                       *)
EnsureAtBoot ==
    /\ pc = "ensure"
    /\ Seeded(Monitored)
    /\ Goto("idle") /\ NoFault
    /\ UNCHANGED <<disk, memory, pass, metrics, history>>

(* A query that fails is logged and the pools it concerns are skipped. *)
EnsureAtBootUnread ==
    /\ pc = "ensure"
    /\ Fault("ensure")
    /\ \E ps \in SUBSET Monitored : ps # Monitored /\ Seeded(ps)
    /\ Goto("idle")
    /\ UNCHANGED <<disk, memory, pass, metrics, history>>

EnsureAtBootFails ==
    /\ pc = "ensure"
    /\ \/ Unassigned(Monitored) /\ Exit("failed")
       \/ NoRowFor(Monitored) /\ Exit("panicked")
    /\ NoFault
    /\ UNCHANGED rows

-----------------------------------------------------------------------------
(* One pass of the loop: start().                                          *)

(* The loop reads the health flag only here; so it changes only here. *)
HealthChanges ==
    /\ pc = "idle"
    /\ healthy' = ~healthy
    /\ IF healthy THEN Fault("health") ELSE NoFault
    /\ UNCHANGED <<ledgerVars, pc, ahead, disk, memory, pass, metrics, history>>

Tick ==
    /\ pc = "idle"
    /\ healthy
    /\ blk' = GetLatestBlock
    /\ Goto("leaders") /\ NoFault
    /\ UNCHANGED <<disk, memory, req, cur, last, todo, metrics, history>>

(* The end of a pass, completed or cut short by an error that is logged. *)
ToIdle ==
    /\ Goto("idle")
    /\ req' = 0 /\ blk' = 0 /\ cur' = 0 /\ last' = 0 /\ todo' = {}

(* fetchAndLogNextSlotLeaders: an error without a row, an index out of     *)
(* range on an empty schedule.                                             *)
NextSlotLeaders ==
    /\ pc = "leaders"
    /\ Seeded(Monitored)
    /\ Goto("scan") /\ NoFault
    /\ UNCHANGED <<disk, memory, pass, metrics, history>>

NextSlotLeadersFails ==
    /\ pc = "leaders"
    /\ NoRowFor(Monitored)
    /\ ToIdle /\ NoFault
    /\ UNCHANGED <<disk, memory, metrics, history>>

NextSlotLeadersPanics ==
    /\ pc = "leaders"
    /\ Unassigned(Monitored)
    /\ Exit("panicked") /\ NoFault
    /\ UNCHANGED rows

(* startWatcherAndDetectEpochTransition.  In a transition the remaining    *)
(* slots of the old epoch are walked, found from its last block.           *)
epochTransition == EpochOf(blk) > epoch

endSlotMutant1 == blk + 1

endSlotMutant2 ==
    IF epochTransition
    THEN GetLastBlockFromPreviousEpoch(epoch) + maxSlotPerEpoch
    ELSE blk

endSlot ==
    IF epochTransition
    THEN LET lastBlock == GetLastBlockFromPreviousEpoch(epoch)
             remainingSlots == maxSlotPerEpoch - EpochSlot(lastBlock)
         IN  lastBlock + remainingSlots
    ELSE blk

SlotsLeftMutant == slot + 1 < endSlot

SlotsLeft == slot + 1 <= endSlot

(* Where a pass goes once its slots are done. *)
AfterSlots ==
    IF epochTransition
    THEN /\ Goto("rollover")
         /\ req' = 0 /\ blk' = blk /\ cur' = 0 /\ last' = 0 /\ todo' = {}
    ELSE ToIdle

ScanStarts ==
    /\ pc = "scan"
    /\ SlotsLeft
    /\ cur' = slot + 1
    /\ last' = endSlot
    /\ todo' = Pools
    /\ Goto("slots") /\ NoFault
    /\ UNCHANGED <<disk, memory, req, blk, metrics, history>>

NothingToScan ==
    /\ pc = "scan"
    /\ ~SlotsLeft
    /\ AfterSlots /\ NoFault
    /\ UNCHANGED <<disk, memory, metrics, history>>

(* Blockfrost fails: before the scan, or when the new epoch is asked for.  *)
BlockfrostFails ==
    /\ pc \in {"scan", "rollover"}
    /\ epochTransition
    /\ Fault("blockfrost")
    /\ ToIdle
    /\ UNCHANGED <<disk, memory, metrics, history>>

-----------------------------------------------------------------------------
(* processSlots: every slot, and in it every active pool.                  *)

OutcomeMutant(p, s) ==
    IF GetBlockBySlot(s) = NoBlock THEN "missed" ELSE "validated"

Outcome(p, s) ==
    LET producer == GetBlockBySlot(s)
    IN  CASE producer = NoBlock -> "missed"
          [] producer = p       -> "validated"
          [] OTHER              -> "orphaned"

(* logMissedBlock, logValidatedBlock, logOrphanedBlock. *)
StreakAfterMutant(v, n) == IF v = "missed" THEN n + 1 ELSE 0

StreakAfter(v, n) ==
    CASE v = "missed"    -> n + 1
      [] v = "validated" -> 0
      [] OTHER           -> n

Record(p, s, v) ==
    /\ tally' = [tally EXCEPT ![epoch][p][v] = @ + 1]
    /\ streak' = [streak EXCEPT ![epoch][p] = StreakAfter(v, @)]
    /\ judged' = judged \cup
          {[pool |-> p, slot |-> s, epoch |-> epoch, verdict |-> v]}
    /\ ever' = ever \cup {<<p, s>>}

(* On to the next pool, the next slot, or the end of the range. *)
Advance(p) ==
    LET left == todo \ {p}
    IN  \/ left # {} /\ todo' = left /\ cur' = cur /\ Goto("slots")
        \/ /\ left = {} /\ cur < last
           /\ todo' = Pools /\ cur' = cur + 1 /\ Goto("slots")
        \/ /\ left = {} /\ cur >= last
           /\ todo' = {} /\ cur' = cur /\ Goto("save")

isLeader(p) == cur \in Schedule(p, epoch)

(* processPoolSlot.  A pool with an empty schedule leads nothing, so that  *)
(* the early return for allow-empty-slots changes no state.                *)
ProcessPoolSlot(p) ==
    /\ pc = "slots"
    /\ p \in todo
    /\ HasRow(p, epoch)
    /\ \/ isLeader(p) /\ Record(p, cur, Outcome(p, cur))
       \/ ~isLeader(p) /\ UNCHANGED <<metrics, judged, ever>>
    /\ Advance(p)
    /\ NoFault
    /\ UNCHANGED <<disk, memory, req, blk, last, waived, origin>>

ProcessPoolSlotPanics(p) ==
    /\ pc = "slots"
    /\ p \in todo
    /\ ~HasRow(p, epoch)
    /\ Exit("panicked") /\ NoFault
    /\ UNCHANGED rows

(* A query or a lookup fails: the pools still to do for this slot are      *)
(* never done, the slot is returned as the latest one processed.           *)
ProcessPoolSlotFails ==
    /\ pc = "slots"
    /\ waived' = waived \cup {cur}
    /\ Fault("judge")
    /\ Goto("save")
    /\ UNCHANGED <<disk, memory, pass, metrics, judged, ever, origin>>

(* The deferred Save: memory first, then the row, whose write may fail.    *)
(* Some pool left to do means that the scan failed.                        *)
SavedSlotMutant1 == IF todo = {} THEN cur ELSE cur - 1
SavedSlotMutant2 == last

SavedSlot == cur

SavedRowMutant == [epoch |-> EpochOf(blk), slot |-> SavedSlot]

SavedRow == [epoch |-> epoch, slot |-> SavedSlot]

SaveSlot ==
    /\ pc = "save"
    /\ slot' = SavedSlot
    /\ \/ db' = SavedRow /\ NoFault
       \/ db' = db /\ Fault("save")
    /\ IF todo = {} THEN AfterSlots ELSE ToIdle
    /\ UNCHANGED <<rows, epoch, metrics, history>>

-----------------------------------------------------------------------------
(* handleEpochtransition.  Its errors are logged by the loop, all but that *)
(* of cncli; nothing of it is run again before the next transition.        *)

(* The latest epoch may be past the one of the block that was seen, and    *)
(* past the next one: the epochs in between are then never scanned.        *)
EnterEpoch ==
    /\ pc = "rollover"
    /\ epoch' = GetLatestEpoch
    /\ slot' = slot
    /\ waived' = waived \cup FirstSlot(epoch + 1) .. FirstSlot(epoch') - 1
    /\ \/ /\ db' = [epoch |-> epoch', slot |-> slot]
          /\ NoFault
          /\ Goto("reschedule")
          /\ req' = epoch' /\ UNCHANGED <<blk, cur, last, todo>>
       \/ /\ db' = db
          /\ Fault("enter")
          /\ ToIdle
    /\ UNCHANGED <<rows, metrics, judged, ever, origin>>

RefreshCurrent ==
    /\ pc = "reschedule"
    /\ rows' = rows \cup RowsFor(Pools, req)
    /\ Goto("check") /\ NoFault
    /\ UNCHANGED <<db, memory, pass, metrics, history>>

(* Pools are refreshed concurrently: when one fails the others have their  *)
(* rows, or not yet.  An error of cncli is fatal.                          *)
LeaderLogsFails ==
    /\ pc = "reschedule"
    /\ \E ps \in SUBSET Pools :
          /\ rows' = rows \cup RowsFor(ps, req)
          /\ ~(RowsFor(Pools, req) \subseteq rows')
    /\ Fault("leaderlogs")
    /\ Exit("failed")

(* Any other error is not: the epoch's parameters, a query, an insertion   *)
(* that finds the row the scheduler has inserted meanwhile (UNIQUE).       *)
RefreshCurrentFails ==
    /\ pc = "reschedule"
    /\ \E ps \in SUBSET Pools :
          /\ rows' = rows \cup RowsFor(ps, req)
          /\ \/ Fault("refresh")
             \/ /\ "refresh" \in Faults
                /\ ahead = req
                /\ \E p \in ps : ~HasRow(p, req)
                /\ NoFault
    /\ ToIdle
    /\ UNCHANGED <<db, memory, metrics, history>>

(* ensurePoolHasLeaderSlots again, then initMetrics back in start(). *)
EnsureInEpoch ==
    /\ pc = "check"
    /\ \/ Seeded(Monitored) /\ NoFault
       \/ Fault("ensure")
    /\ initMetrics
    /\ ToIdle
    /\ UNCHANGED <<disk, memory, history>>

(* No panic here: the rows have just been written. *)
EnsureInEpochFails ==
    /\ pc = "check"
    /\ Unassigned(Monitored)
    /\ ToIdle /\ NoFault
    /\ UNCHANGED <<disk, memory, metrics, history>>

-----------------------------------------------------------------------------
(* RunNextEpochScheduler, beside the watcher: near the end of an epoch it  *)
(* computes the next one's schedules.  The clock is abstracted: it may run *)
(* at any time, and its row may come when the epoch it computes has begun. *)

SchedulerRuns == pc \notin Down \cup {"refresh"}

SchedulerTick ==
    /\ SchedulerRuns
    /\ ahead = -1
    /\ GetLatestEpoch + 1 \in Epochs
    /\ ahead' = GetLatestEpoch + 1
    /\ NoFault
    /\ UNCHANGED <<ledgerVars, disk, pc, healthy, memory, pass, metrics,
                   history>>

RefreshNext(p) ==
    /\ ahead # -1
    /\ ~HasRow(p, ahead)
    /\ rows' = rows \cup RowsFor({p}, ahead)
    /\ NoFault
    /\ UNCHANGED <<ledgerVars, db, pc, healthy, memory, pass, ahead, metrics,
                   history>>

(* All pools done, or some of them failed: the error is logged. *)
SchedulerDone ==
    /\ ahead # -1
    /\ ahead' = -1
    /\ NoFault
    /\ UNCHANGED <<ledgerVars, disk, pc, healthy, memory, pass, metrics,
                   history>>

-----------------------------------------------------------------------------
Kill ==
    /\ pc \notin Down
    /\ Fault("kill")
    /\ Exit("killed")
    /\ UNCHANGED rows

NewBlock ==
    /\ Extend
    /\ NoFault
    /\ UNCHANGED <<disk, pc, healthy, memory, pass, ahead, metrics, history>>

Init ==
    /\ LedgerInit
    /\ db = NoState /\ rows = {}
    /\ pc = "killed"
    /\ healthy = FALSE
    /\ epoch = 0 /\ slot = 0
    /\ req = 0 /\ blk = 0 /\ cur = 0 /\ last = 0 /\ todo = {}
    /\ ahead = -1
    /\ tally = NoTally /\ streak = NoStreak
    /\ judged = {} /\ ever = {} /\ waived = {}
    /\ origin = 0
    /\ faults = 0

Booting ==
    \/ Start \/ RefreshAtBoot \/ RefreshAtBootFails \/ InitState
    \/ LoadAndReconcile \/ BootFails
    \/ EnsureAtBoot \/ EnsureAtBootUnread \/ EnsureAtBootFails

Passing ==
    \/ Tick
    \/ NextSlotLeaders \/ NextSlotLeadersFails \/ NextSlotLeadersPanics
    \/ ScanStarts \/ NothingToScan \/ BlockfrostFails
    \/ \E p \in Pools : ProcessPoolSlot(p) \/ ProcessPoolSlotPanics(p)
    \/ ProcessPoolSlotFails \/ SaveSlot

Rolling ==
    \/ EnterEpoch
    \/ RefreshCurrent \/ LeaderLogsFails \/ RefreshCurrentFails
    \/ EnsureInEpoch \/ EnsureInEpochFails

Scheduling == SchedulerTick \/ SchedulerDone \/ \E p \in Pools : RefreshNext(p)

Next ==
    \/ NewBlock \/ Kill \/ HealthChanges
    \/ Booting \/ Passing \/ Rolling \/ Scheduling

Spec == Init /\ [][Next]_vars

(***************************************************************************)
(* The process is restarted when it ends, its goroutines run, and the      *)
(* status watcher finds the upstreams back.  Nothing says that the chain   *)
(* grows, that the scheduler does its work, or that a failure occurs.      *)
(***************************************************************************)
Fairness ==
    /\ WF_vars(Booting)
    /\ WF_vars(Passing)
    /\ WF_vars(Rolling)
    /\ WF_vars(~healthy /\ HealthChanges)

FairSpec == Spec /\ Fairness

-----------------------------------------------------------------------------
(***************************************************************************)
(* Properties.                                                             *)
(***************************************************************************)
Cursors  == [epoch : Epochs, slot : Slots] \cup {NoState}
Judgment == [pool : Pools, slot : Slots, epoch : Epochs, verdict : Verdicts]

(* Every variable has its type. *)
TypeOK ==
    /\ chain \in Chains /\ tip \in Slots
    /\ db \in Cursors
    /\ rows \subseteq Epochs \X Pools
    /\ pc \in Down \cup Boot \cup Loop
    /\ healthy \in BOOLEAN
    /\ epoch \in Epochs /\ slot \in Slots
    /\ req \in Epochs /\ blk \in Slots
    /\ cur \in Slots /\ last \in Slots
    /\ todo \subseteq Pools
    /\ ahead \in Epochs \cup {-1}
    /\ tally \in [Epochs -> [Pools -> [Verdicts -> Nat]]]
    /\ streak \in [Epochs -> [Pools -> Nat]]
    /\ judged \subseteq Judgment
    /\ ever \subseteq Pools \X Slots
    /\ waived \subseteq Slots
    /\ origin \in Slots
    /\ faults \in 0 .. MaxFaults

(* The process has loaded its cursor. *)
Running == pc \in Loop \cup {"ensure"}

(* The verdict that is right for pool p's slot s once the chain is known.  *)
Truth(p, s) ==
    IF chain[s] = NoBlock THEN "missed"
    ELSE IF chain[s] = p THEN "validated" ELSE "orphaned"

(* Every verdict is on a slot the pool was elected for, counted under the  *)
(* epoch of that slot, on a part of the chain that exists already, and it  *)
(* is the right one, whatever calls of processSlots failed before.         *)
VerdictsTrue ==
    \A j \in judged :
        /\ j.slot \in Leads[j.pool]
        /\ j.epoch = EpochOf(j.slot)
        /\ j.slot <= tip
        /\ j.verdict = Truth(j.pool, j.slot)

(* The missed, validated and orphaned counters of the current epoch count  *)
(* each slot that has been judged once, no slot twice, also when a scan    *)
(* failed half way through the pools of a slot.                            *)
CountersExact ==
    Running =>
        \A p \in Pools, v \in Verdicts :
            tally[epoch][p][v] = Cardinality({j \in judged :
                j.pool = p /\ j.epoch = epoch /\ j.verdict = v})

(* The consecutive-missed gauge is the number of the pool's slots missed   *)
(* since the last one it validated in the epoch; a lost battle does not    *)
(* end the streak.                                                         *)
StreakExact ==
    \A p \in Pools, e \in Epochs :
        LET own    == {j \in judged : j.pool = p /\ j.epoch = e}
            recent == {j \in own : \A k \in own :
                          k.verdict = "validated" => k.slot < j.slot}
        IN  streak[e][p] =
                Cardinality({j \in recent : j.verdict = "missed"})

(* Slots no watcher owes a verdict on: those of a failed scan or of a jump *)
(* of epoch, and the first of every epoch (see NoSlotMissed).  Nor those   *)
(* up to origin: a process that dies before its first save leaves what it  *)
(* had to walk to nobody.                                                  *)
Excused(s) == s \in waived \/ s = FirstSlot(EpochOf(s))

Accounted(p, s) ==
    s \in Leads[p] /\ origin < s /\ ~Excused(s) => <<p, s>> \in ever

CoveredTo(cursor) ==
    \A p \in Pools, s \in Slots : s <= cursor => Accounted(p, s)

(* Whatever crashes, restarts and failed writes there were, a slot a pool  *)
(* leads is not behind the cursor, in memory or in the database, without a *)
(* verdict by this process or an earlier one.                              *)
Coverage ==
    /\ db # NoState => CoveredTo(db.slot)
    /\ Running => CoveredTo(slot)

(* The cursor never overtakes the chain, so that no slot can be processed  *)
(* before its block is there; nor does it leave its epoch by more than the *)
(* first slot of the next.                                                 *)
CursorBehindTip ==
    /\ Running =>
          slot <= tip /\ slot <= FirstSlot(epoch + 1)
    /\ pc = "slots" => slot < cur /\ cur <= last /\ last <= tip

(* What is saved is never ahead of what was processed: a crash repeats     *)
(* slots, it does not lose them.                                           *)
SavedNotAhead ==
    Running /\ db # NoState =>
        db.epoch <= epoch /\ db.slot <= slot

(* The saved cursor never moves back, not even over a restart or an epoch. *)
SavedMonotone ==
    [][db # NoState => db'.epoch >= db.epoch /\ db'.slot >= db.slot]_db

(* The slots the watcher owes no verdict on, and the verdicts of this life. *)
Account == INSTANCE SlotAccount WITH
    Exempt <- {s \in Slots : s = FirstSlot(EpochOf(s))},
    cursor <- IF Running THEN slot ELSE -1,
    saved  <- db.slot,
    judged <- {<<j.pool, j.slot>> : j \in judged}

(* Every step keeps the account of SlotAccount or leaves it alone: what is *)
(* judged anew is judged in the order of the slots, ahead of what is saved *)
(* and not ahead of the chain; the cursors only move forward, over slots   *)
(* that are settled; nothing but a scan's verdict changes what has been    *)
(* judged.  (That nothing is counted twice is CountersExact.)              *)
KeepsAccount == Account!Spec

(* Where a pass of the loop that has seen block `blk' stops. *)
PassEnd == IF epochTransition THEN FirstSlot(epoch + 1) ELSE blk

(* A pass in which no call failed leaves nothing behind: the cursor is at  *)
(* the latest block the pass has seen or, in an epoch transition, at the   *)
(* first slot of the next epoch; and the epoch entered then is later, and  *)
(* at least that of the block.  So a watcher that polls catches up.        *)
PassesReach ==
    [][/\ /\ pc = "scan" \/ (pc = "save" /\ todo = {})
          /\ pc' \in {"idle", "rollover"} /\ faults' = faults
          => slot' >= PassEnd
       /\ pc = "rollover" /\ pc' # "rollover" /\ faults' = faults
          => epoch' > epoch /\ epoch' >= EpochOf(blk)]_vars

(* Whatever the chain has, the cursor gets to it: failures are bounded, and *)
(* the watcher recovers from each, from every crash and every restart.      *)
CatchesUp == \A s \in Slots : tip >= s ~> slot >= s

-----------------------------------------------------------------------------
(***************************************************************************)
(* What comments of the code promise and the code does not do.             *)
(***************************************************************************)

(* "To ensure no slot is missed, we process all slots from the previous    *)
(* epoch": no slot the cursor passed without a failure is without verdict. *)
NoSlotMissed ==
    db # NoState =>
        \A p \in Pools, s \in Slots :
            s \in Leads[p] /\ origin < s /\ s <= db.slot
                => s \in waived \/ <<p, s>> \in ever

(* "Leader but slot not found on-chain: Missed block ...": every slot that *)
(* is led gets one of the three verdicts, also when a call failed once.    *)
FailedSlotJudged ==
    db # NoState =>
        \A p \in Pools, s \in Slots :
            /\ s \in Leads[p] /\ origin < s /\ s <= db.slot
            /\ s # FirstSlot(EpochOf(s))
            => <<p, s>> \in ever

(* "If the next slot is 0 and no error that's mean we are at the end of    *)
(* the epoch and the pool has no more slots": looking for the next slot    *)
(* of a schedule without slots does not end the process.                   *)
NoNextSlotIsNoPanic == [][pc = "leaders" => pc' # "panicked"]_pc
=============================================================================
