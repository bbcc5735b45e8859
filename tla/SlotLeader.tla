----------------------------- MODULE SlotLeader -----------------------------
(***************************************************************************)
(* The slot leader service: the refreshes of the slots table, run by the   *)
(* block watcher for the current epoch (at boot, and in each new epoch)    *)
(* and by the next-epoch scheduler for the one to come.  A refresh is an   *)
(* errgroup of one goroutine per active pool, which asks the database,     *)
(* has cncli compute the schedule, inserts the row and reads it back.      *)
(* internal/slotleader/slotleader.go, and LeaderLogs, LeaderLogsNextEpoch  *)
(* of internal/cardano/cardanocli/cardano.go.                              *)
(*                                                                         *)
(* A schedule is abstracted to the epochs its inputs were taken from: the  *)
(* nonce, the stake snapshot and cncli's own clock.  The node answers for  *)
(* the epoch it is in when it is asked.                                    *)
(***************************************************************************)
EXTENDS Integers, FiniteSets

CONSTANTS
    NumEpochs,    \* bound: the epochs that are ever reached
    Pools,        \* the active pools of the configuration
    Watcher,      \* the goroutine that refreshes the current epoch
    Scheduler,    \* the one that refreshes the next
    concurrency,  \* how many goroutines a refresh runs, 0 for no limit
    MaxFaults     \* bound: how many failures a behaviour has

VARIABLES
    node,         \* the epoch the chain is in
    rows,         \* rows[e][p]: the inputs of the row, {} for no row
    booted,       \* the boot's refresh has succeeded
    target,       \* the epoch a caller is refreshing, or -1
    task,         \* task[c][p]: what the goroutine of caller c for p does next
    inputs,       \* the inputs of the schedule it is computing
    err,          \* the first error of a caller's group
    refreshed,    \* history: the epochs refreshed with success
    straddled,    \* history: <<e, p>> due to be computed when the epoch changed
    faults        \* failures so far

vars == <<node, rows, booted, target, task, inputs, err, refreshed, straddled,
          faults>>

Epochs  == 0 .. NumEpochs - 1
Callers == {Watcher, Scheduler}

ASSUME SlotLeaderAssumption ==
    /\ NumEpochs \in Nat \ {0}
    /\ Pools # {} /\ IsFiniteSet(Pools)
    /\ Watcher # Scheduler
    /\ concurrency \in Nat
    /\ MaxFaults \in Nat

NoRow   == {}
NoTasks == [p \in Pools |-> "none"]

HasRow(e, p) == rows[e][p] # NoRow

(* The node, asked for the current or the next epoch's data. *)
Answer(c) == IF c = Scheduler THEN node + 1 ELSE node

Fault   == faults < MaxFaults /\ faults' = faults + 1
NoFault == faults' = faults

-----------------------------------------------------------------------------
(* The caller asks Blockfrost for the latest epoch and refreshes it or the *)
(* next; the scheduler starts after the boot's refresh.  A refresh that    *)
(* cannot read the epoch's parameters returns at once: a stuttering step.  *)
(* The scheduler does so in the last 24 hours of an epoch only; there is   *)
(* no clock here, and it may at any time.                                  *)
MayRefreshMutant(c) == TRUE

MayRefresh(c) == c = Scheduler => booted

TargetMutant(c) == node

Target(c) == Answer(c)

Refresh(c) ==
    /\ target[c] = -1
    /\ MayRefresh(c)
    /\ Target(c) \in Epochs
    /\ target' = [target EXCEPT ![c] = Target(c)]
    /\ task' = [task EXCEPT ![c] = [p \in Pools |-> "wait"]]
    /\ NoFault
    /\ UNCHANGED <<node, rows, booted, inputs, err, refreshed, straddled>>

RunningMutant1(c) == {p \in Pools : task[c][p] \notin {"none", "wait"}}

RunningMutant2(c) == {}

Running(c) == {p \in Pools : task[c][p] \notin {"none", "wait", "done"}}

(* eg.Go: blocks while the group runs as many goroutines as its limit.     *)
Go(c, p) ==
    /\ task[c][p] = "wait"
    /\ concurrency > 0 => Cardinality(Running(c)) < concurrency
    /\ task' = [task EXCEPT ![c][p] = "check"]
    /\ NoFault
    /\ UNCHANGED <<node, rows, booted, target, inputs, err, refreshed, straddled>>

(* isRefresh.  For the current epoch the nonce has been read by its epoch. *)
IsRefreshMutant(e, p) == FALSE

IsRefresh(e, p) == HasRow(e, p)

Check(c, p) ==
    /\ task[c][p] = "check"
    /\ task' = [task EXCEPT ![c][p] =
          IF IsRefresh(target[c], p) THEN "read"
          ELSE IF c = Scheduler THEN "nonce" ELSE "stake"]
    /\ inputs' = [inputs EXCEPT ![c][p] =
          IF IsRefresh(target[c], p) \/ c = Scheduler THEN {} ELSE {target[c]}]
    /\ NoFault
    /\ UNCHANGED <<node, rows, booted, target, err, refreshed, straddled>>

(* LeaderLogsNextEpoch and LeaderLogs: the protocol state, then the stake  *)
(* snapshot, then cncli, each from the node as it is by then.              *)
LeaderLogs(c, p) ==
    /\ task[c][p] \in {"nonce", "stake", "cncli"}
    /\ inputs' = [inputs EXCEPT ![c][p] = @ \cup {Answer(c)}]
    /\ task' = [task EXCEPT ![c][p] = CASE @ = "nonce" -> "stake"
                                        [] @ = "stake" -> "cncli"
                                        [] OTHER       -> "insert"]
    /\ NoFault
    /\ UNCHANGED <<node, rows, booted, target, err, refreshed, straddled>>

(* persistSlots: <<epoch, pool>> is UNIQUE.                                *)
InsertableMutant(e, p) == TRUE

Insertable(e, p) == ~HasRow(e, p)

PersistSlots(c, p) ==
    /\ task[c][p] = "insert"
    /\ Insertable(target[c], p)
    /\ rows' = [rows EXCEPT ![target[c]][p] = inputs[c][p]]
    /\ task' = [task EXCEPT ![c][p] = "read"]
    /\ inputs' = [inputs EXCEPT ![c][p] = {}]
    /\ NoFault
    /\ UNCHANGED <<node, booted, target, err, refreshed, straddled>>

(* GetSlotLeaders, for the expected blocks gauge: the row is there. *)
Read(c, p) ==
    /\ task[c][p] = "read"
    /\ HasRow(target[c], p)
    /\ task' = [task EXCEPT ![c][p] = "done"]
    /\ NoFault
    /\ UNCHANGED <<node, rows, booted, target, inputs, err, refreshed, straddled>>

(* A goroutine returns an error; the others of the group go on.  Only the  *)
(* first error counts, and only that of LeaderLogs is ErrSlotLeaderRefresh.*)
Error(c, p, kind) ==
    /\ task' = [task EXCEPT ![c][p] = "done"]
    /\ inputs' = [inputs EXCEPT ![c][p] = {}]
    /\ err' = [err EXCEPT ![c] = IF @ = "none" THEN kind ELSE @]
    /\ UNCHANGED <<node, rows, booted, target, refreshed, straddled>>

LeaderLogsFails(c, p) ==
    /\ task[c][p] \in {"nonce", "stake", "cncli"}
    /\ Fault
    /\ Error(c, p, "leaderlogs")

QueryFails(c, p) ==
    /\ task[c][p] \in {"check", "insert", "read"}
    /\ Fault
    /\ Error(c, p, "query")

AlreadyPersisted(c, p) ==
    /\ task[c][p] = "insert"
    /\ ~Insertable(target[c], p)
    /\ NoFault
    /\ Error(c, p, "query")

(* eg.Wait returned and so does the refresh.                               *)
Returning(c) == target[c] # -1 /\ \A p \in Pools : task[c][p] = "done"

ReturnMutant(c) ==
    /\ target' = [target EXCEPT ![c] = -1]
    /\ err' = [err EXCEPT ![c] = "none"]
    /\ UNCHANGED <<node, rows, task, inputs, straddled, faults>>

Return(c) ==
    /\ target' = [target EXCEPT ![c] = -1]
    /\ task' = [task EXCEPT ![c] = NoTasks]
    /\ err' = [err EXCEPT ![c] = "none"]
    /\ UNCHANGED <<node, rows, inputs, straddled, faults>>

Succeed(c) ==
    /\ Returning(c)
    /\ err[c] = "none"
    /\ refreshed' = refreshed \cup {target[c]}
    /\ booted' = TRUE
    /\ Return(c)

(* An error that is logged: of the scheduler, or of the watcher when it is *)
(* not that of LeaderLogs and the boot is over.                            *)
Logged(c) == c = Scheduler \/ (booted /\ err[c] = "query")

Fail(c) ==
    /\ Returning(c)
    /\ err[c] # "none" /\ Logged(c)
    /\ UNCHANGED <<booted, refreshed>>
    /\ Return(c)

(* Any other error ends the process, which is restarted. *)
Restart ==
    /\ booted' = FALSE
    /\ target' = [c \in Callers |-> -1]
    /\ task' = [c \in Callers |-> NoTasks]
    /\ inputs' = [c \in Callers |-> [p \in Pools |-> {}]]
    /\ err' = [c \in Callers |-> "none"]
    /\ UNCHANGED <<node, rows, refreshed, straddled>>

Exit(c) ==
    /\ Returning(c)
    /\ err[c] # "none" /\ ~Logged(c)
    /\ NoFault
    /\ Restart

Kill == Fault /\ Restart

(* The epoch ends, under whatever has still to be computed. *)
Pending(c, p) == task[c][p] \notin {"none", "read", "done"}

NewEpoch ==
    /\ node + 1 \in Epochs
    /\ node' = node + 1
    /\ straddled' = straddled \cup
          {x \in Epochs \X Pools :
              \E c \in Callers : target[c] = x[1] /\ Pending(c, x[2])}
    /\ NoFault
    /\ UNCHANGED <<rows, booted, target, task, inputs, err, refreshed>>

Init ==
    /\ node = 0
    /\ rows = [e \in Epochs |-> [p \in Pools |-> NoRow]]
    /\ booted = FALSE
    /\ target = [c \in Callers |-> -1]
    /\ task = [c \in Callers |-> NoTasks]
    /\ inputs = [c \in Callers |-> [p \in Pools |-> {}]]
    /\ err = [c \in Callers |-> "none"]
    /\ refreshed = {}
    /\ straddled = {}
    /\ faults = 0

Working(c) ==
    \/ \E p \in Pools :
          \/ Go(c, p) \/ Check(c, p) \/ LeaderLogs(c, p)
          \/ PersistSlots(c, p) \/ AlreadyPersisted(c, p) \/ Read(c, p)
    \/ Succeed(c) \/ Fail(c) \/ Exit(c)

Failing(c) == \E p \in Pools : LeaderLogsFails(c, p) \/ QueryFails(c, p)

Next ==
    \/ \E c \in Callers : Refresh(c) \/ Working(c) \/ Failing(c)
    \/ NewEpoch
    \/ Kill

Spec == Init /\ [][Next]_vars

(***************************************************************************)
(* A refresh that runs goes on: its commands have timeouts.  The boot's    *)
(* refresh is always begun; nothing says that another one is.              *)
(***************************************************************************)
Fairness ==
    /\ \A c \in Callers : WF_vars(Working(c))
    /\ WF_vars(~booted /\ Refresh(Watcher))

FairSpec == Spec /\ Fairness

-----------------------------------------------------------------------------
(***************************************************************************)
(* Properties.                                                             *)
(***************************************************************************)
Steps == {"none", "wait", "check", "nonce", "stake", "cncli", "insert", "read",
          "done"}

(* Every variable has its type. *)
TypeOK ==
    /\ node \in Epochs
    /\ rows \in [Epochs -> [Pools -> SUBSET (0 .. NumEpochs)]]
    /\ booted \in BOOLEAN
    /\ target \in [Callers -> Epochs \cup {-1}]
    /\ task \in [Callers -> [Pools -> Steps]]
    /\ inputs \in [Callers -> [Pools -> SUBSET (0 .. NumEpochs)]]
    /\ err \in [Callers -> {"none", "leaderlogs", "query"}]
    /\ refreshed \subseteq Epochs
    /\ straddled \subseteq Epochs \X Pools
    /\ faults \in 0 .. MaxFaults
    /\ \A c \in Callers, p \in Pools : target[c] = -1 <=> task[c][p] = "none"

(* The slots table keeps the promise of ScheduleTable whatever goroutines, *)
(* failures and crashes are interleaved: write-once rows, and none missing *)
(* after a refresh that succeeded.                                         *)
Table == INSTANCE ScheduleTable WITH
    Contents <- (SUBSET (0 .. NumEpochs)) \ {NoRow}

KeepsTable == Table!Spec

(* A row holds the schedule of its own epoch, from the nonce and the stake *)
(* of that epoch, unless the epoch changed while its refresh was running.   *)
RowsRight ==
    \A e \in Epochs, p \in Pools :
        HasRow(e, p) => rows[e][p] = {e} \/ <<e, p>> \in straddled

(* A refresh that was cut short, by a failure or a crash after some of its *)
(* rows, does not keep the next boot's from succeeding.                    *)
Boots == []<>booted

(* A boot's refresh computes no schedule twice and fails on no row that is *)
(* already there: nobody else inserts the epoch's rows meanwhile, although *)
(* a process that has crashed may have inserted some of them.              *)
BootAlone ==
    ~booted => \A p \in Pools :
        Pending(Watcher, p) /\ HasRow(target[Watcher], p) =>
            task[Watcher][p] \in {"wait", "check"}

(* A refresh that is on always has a step to take: a goroutine finds what  *)
(* it waits for, a slot of the group's limit or a row, or all have ended.  *)
(* Nothing but the time its commands take holds it back.                   *)
NeverStuck ==
    \A c \in Callers : target[c] # -1 =>
        \/ Returning(c)
        \/ \E p \in Pools :
              \/ task[c][p] = "wait"
                 /\ (concurrency > 0 => Cardinality(Running(c)) < concurrency)
              \/ task[c][p] \in {"check", "nonce", "stake", "cncli", "insert"}
              \/ task[c][p] = "read" /\ HasRow(target[c], p)

CncliProcesses == {x \in Callers \X Pools : task[x[1]][x[2]] = "cncli"}

(* The limit is that of each refresh and there are two callers: no more    *)
(* cncli processes run together than twice what the flag says.             *)
LimitTwice == concurrency > 0 => Cardinality(CncliProcesses) <= 2 * concurrency

(* "max concurrent cncli leaderlog processes": no more of them run at the  *)
(* same time than the flag says.                                           *)
LimitKept == concurrency > 0 => Cardinality(CncliProcesses) <= concurrency
=============================================================================
