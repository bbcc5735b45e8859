-------------------------- MODULE SlotLeaderProofs --------------------------
(***************************************************************************)
(* Proofs about SlotLeader, for any epochs, pools, limit and failures: the *)
(* slots table keeps the promise of ScheduleTable, and a row holds the     *)
(* schedule of its epoch unless the epoch changed during its refresh.      *)
(***************************************************************************)
EXTENDS SlotLeader, FiniteSetTheorems, TLAPS

(* What is known of the goroutine of caller c for pool p: it has seen the  *)
(* row or has inserted it when it is past that, and what it has gathered   *)
(* is of the target epoch as long as the epoch has not changed.            *)
TaskInv(c, p) ==
    /\ task[c][p] = "read" => HasRow(target[c], p)
    /\ task[c][p] = "done" /\ err[c] = "none" => HasRow(target[c], p)
    /\ task[c][p] \in {"cncli", "insert"} => inputs[c][p] # {}
    /\ Pending(c, p) =>
          \/ target[c] = Answer(c) /\ inputs[c][p] \subseteq {target[c]}
          \/ <<target[c], p>> \in straddled
    /\ ~Pending(c, p) => inputs[c][p] = {}

RefreshInv == TypeOK /\ RowsRight /\ \A c \in Callers, p \in Pools : TaskInv(c, p)

-----------------------------------------------------------------------------
(* What the node answers is an epoch, or the one after the last. *)
LEMMA AnswerType == ASSUME TypeOK, NEW c \in Callers PROVE Answer(c) \in 0 .. NumEpochs
  BY SlotLeaderAssumption DEF TypeOK, Answer, Epochs

(* A service that has not started satisfies the invariant. *)
LEMMA RefreshInit == Init => RefreshInv
  <1> SUFFICES ASSUME Init PROVE RefreshInv
    OBVIOUS
  <1>1. /\ node \in Epochs /\ faults \in 0 .. MaxFaults
        /\ booted \in BOOLEAN /\ target \in [Callers -> Epochs \cup {-1}]
    <2>1. node \in Epochs /\ faults \in 0 .. MaxFaults
      BY SlotLeaderAssumption DEF Init, Epochs
    <2>2. booted \in BOOLEAN /\ target \in [Callers -> Epochs \cup {-1}]
      BY DEF Init
    <2> QED
      BY <2>1, <2>2
  <1>2. rows \in [Epochs -> [Pools -> SUBSET (0 .. NumEpochs)]]
    BY DEF Init, NoRow
  <1>3. /\ task \in [Callers -> [Pools -> Steps]]
        /\ \A c \in Callers, p \in Pools : task[c][p] = "none" /\ target[c] = -1
    BY DEF Init, NoTasks, Steps
  <1>4. /\ inputs \in [Callers -> [Pools -> SUBSET (0 .. NumEpochs)]]
        /\ \A c \in Callers, p \in Pools : inputs[c][p] = {}
        /\ err \in [Callers -> {"none", "leaderlogs", "query"}]
    BY DEF Init
  <1>5. TypeOK
    BY <1>1, <1>3, <1>4, <1>2 DEF Init, TypeOK
  <1>6. RowsRight
    BY DEF Init, RowsRight, HasRow
  <1>7. \A c \in Callers, p \in Pools : TaskInv(c, p)
    BY <1>3, <1>4 DEF TaskInv, Pending
  <1> QED
    BY <1>5, <1>6, <1>7 DEF RefreshInv

(* A step of the goroutine of caller c for pool p leaves the others alone. *)
LEMMA OtherTasks ==
    ASSUME RefreshInv, NEW c \in Callers, NEW p \in Pools,
           UNCHANGED <<node, target, straddled>>,
           \A e \in Epochs, q \in Pools : HasRow(e, q) => HasRow(e, q)',
           \A d \in Callers, q \in Pools : <<d, q>> # <<c, p>> =>
               task'[d][q] = task[d][q] /\ inputs'[d][q] = inputs[d][q],
           \A d \in Callers : err'[d] = "none" => err[d] = "none",
           NEW d \in Callers, NEW q \in Pools, <<d, q>> # <<c, p>>
    PROVE  TaskInv(d, q)'
  <1>1. task[d][q] \in {"read", "done"} => target[d] \in Epochs
    BY DEF RefreshInv, TypeOK
  <1>2. TaskInv(d, q)
    BY DEF RefreshInv
  <1> QED
    BY <1>1, <1>2 DEF TaskInv, Pending, Answer

(* The beginning of a refresh: everything is pending, nothing gathered. *)
LEMMA RefreshKeeps ==
    ASSUME RefreshInv, NEW c \in Callers, Refresh(c)
    PROVE  RefreshInv'
  <1>1. /\ target' = [target EXCEPT ![c] = Answer(c)] /\ Answer(c) \in Epochs
        /\ task' = [task EXCEPT ![c] = [p \in Pools |-> "wait"]]
        /\ target[c] = -1
        /\ UNCHANGED <<node, rows, booted, inputs, err, refreshed, straddled, faults>>
    BY DEF Refresh, Target, NoFault
  <1>2. Answer(c) # -1
    BY <1>1, SlotLeaderAssumption DEF Epochs
  <1>3. TypeOK'
    BY <1>1, <1>2 DEF RefreshInv, TypeOK, Steps
  <1>4. RowsRight'
    BY <1>1 DEF RefreshInv, RowsRight, HasRow
  <1>5. ASSUME NEW d \in Callers, NEW q \in Pools PROVE TaskInv(d, q)'
    <2>1. CASE d = c
      <3>1. inputs[c][q] = {}
        BY <1>1 DEF RefreshInv, TypeOK, TaskInv, Pending
      <3>2. task'[c][q] = "wait" /\ target'[c] = Answer(c)
        BY <1>1 DEF RefreshInv, TypeOK
      <3> QED
        BY <1>1, <2>1, <3>1, <3>2 DEF TaskInv, Pending, Answer
    <2>2. CASE d # c
      <3>1. task'[d][q] = task[d][q] /\ target'[d] = target[d]
        BY <1>1, <2>2 DEF RefreshInv, TypeOK
      <3>2. TaskInv(d, q)
        BY DEF RefreshInv
      <3> QED
        BY <1>1, <3>1, <3>2 DEF TaskInv, Pending, Answer, HasRow
    <2> QED
      BY <2>1, <2>2
  <1> QED
    BY <1>3, <1>4, <1>5 DEF RefreshInv

(* The steps of a goroutine up to the insertion. *)
LEMMA WorkKeeps ==
    ASSUME RefreshInv, NEW c \in Callers, NEW p \in Pools,
           Go(c, p) \/ Check(c, p) \/ LeaderLogs(c, p) \/ Read(c, p)
    PROVE  RefreshInv'
  <1>1. /\ UNCHANGED <<node, rows, booted, target, err, refreshed, straddled, faults>>
        /\ \A d \in Callers, q \in Pools : <<d, q>> # <<c, p>> =>
              task'[d][q] = task[d][q] /\ inputs'[d][q] = inputs[d][q]
    BY DEF Go, Check, LeaderLogs, Read, NoFault, RefreshInv, TypeOK
  <1>2. target[c] \in Epochs /\ Answer(c) \in 0 .. NumEpochs /\ target[c] \in 0 .. NumEpochs
    <2>1. target[c] \in Epochs
      BY DEF Go, Check, LeaderLogs, Read, RefreshInv, TypeOK
    <2> QED
      BY <2>1, AnswerType, SlotLeaderAssumption DEF RefreshInv, Epochs
  <1>3. /\ task' \in [Callers -> [Pools -> Steps]]
        /\ inputs' \in [Callers -> [Pools -> SUBSET (0 .. NumEpochs)]]
        /\ task'[c][p] # "none" /\ task[c][p] # "none"
    <2>1. CASE Go(c, p)
      BY <1>2, <2>1 DEF Go, RefreshInv, TypeOK, Steps
    <2>2. CASE Check(c, p)
      BY <1>2, <2>2 DEF Check, RefreshInv, TypeOK, Steps
    <2>3. CASE LeaderLogs(c, p)
      <3>1. \E t \in {"stake", "cncli", "insert"} : task' = [task EXCEPT ![c][p] = t]
        BY <2>3 DEF LeaderLogs, RefreshInv, TypeOK
      <3>2. inputs' = [inputs EXCEPT ![c][p] = @ \cup {Answer(c)}]
        BY <2>3 DEF LeaderLogs
      <3> QED
        BY <1>2, <2>3, <3>1, <3>2 DEF LeaderLogs, RefreshInv, TypeOK, Steps
    <2>4. CASE Read(c, p)
      BY <1>2, <2>4 DEF Read, RefreshInv, TypeOK, Steps
    <2> QED
      BY <2>1, <2>2, <2>3, <2>4
  <1>4. TypeOK'
    BY <1>1, <1>3 DEF RefreshInv, TypeOK
  <1>5. RowsRight'
    BY <1>1 DEF RefreshInv, RowsRight, HasRow
  <1>6. TaskInv(c, p)'
    <2>0. TaskInv(c, p)
      BY DEF RefreshInv
    <2>1. CASE Go(c, p)
      BY <1>1, <2>0, <2>1 DEF Go, RefreshInv, TypeOK, TaskInv, Pending, Answer
    <2>2. CASE Check(c, p)
      BY <1>1, <2>0, <2>2 DEF Check, IsRefresh, RefreshInv, TypeOK, TaskInv, Pending,
         Answer, HasRow
    <2>3. CASE LeaderLogs(c, p)
      <3>1. /\ task'[c][p] \in {"stake", "cncli", "insert"}
            /\ inputs'[c][p] = inputs[c][p] \cup {Answer(c)}
        BY <2>3 DEF LeaderLogs, RefreshInv, TypeOK
      <3>2. \/ target[c] = Answer(c) /\ inputs[c][p] \subseteq {target[c]}
            \/ <<target[c], p>> \in straddled
        BY <2>0, <2>3 DEF LeaderLogs, TaskInv, Pending
      <3> QED
        BY <1>1, <3>1, <3>2 DEF TaskInv, Pending, Answer
    <2>4. CASE Read(c, p)
      BY <1>1, <2>0, <2>4 DEF Read, RefreshInv, TypeOK, TaskInv, Pending, HasRow
    <2> QED
      BY <2>1, <2>2, <2>3, <2>4
  <1>7. ASSUME NEW d \in Callers, NEW q \in Pools, <<d, q>> # <<c, p>>
        PROVE  TaskInv(d, q)'
    BY <1>1, <1>7, OtherTasks DEF HasRow
  <1> QED
    BY <1>4, <1>5, <1>6, <1>7 DEF RefreshInv

(* An insertion: the row holds what was gathered. *)
LEMMA PersistKeeps ==
    ASSUME RefreshInv, NEW c \in Callers, NEW p \in Pools, PersistSlots(c, p)
    PROVE  RefreshInv'
  <1> DEFINE e == target[c]
  <1>1. /\ e \in Epochs /\ task[c][p] = "insert" /\ ~HasRow(e, p)
        /\ rows' = [rows EXCEPT ![e][p] = inputs[c][p]]
        /\ task' = [task EXCEPT ![c][p] = "read"]
        /\ inputs' = [inputs EXCEPT ![c][p] = {}]
        /\ UNCHANGED <<node, booted, target, err, refreshed, straddled, faults>>
    BY DEF PersistSlots, Insertable, NoFault, RefreshInv, TypeOK
  <1>2. /\ inputs[c][p] # {} /\ inputs[c][p] \in SUBSET (0 .. NumEpochs)
        /\ inputs[c][p] \subseteq {e} \/ <<e, p>> \in straddled
    BY <1>1 DEF RefreshInv, TypeOK, TaskInv, Pending
  <1>3. TypeOK'
    BY <1>1, <1>2 DEF RefreshInv, TypeOK, Steps
  <1>4. /\ rows'[e][p] = inputs[c][p]
        /\ \A f \in Epochs, q \in Pools : <<f, q>> # <<e, p>> => rows'[f][q] = rows[f][q]
    BY <1>1 DEF RefreshInv, TypeOK
  <1>5. RowsRight'
    BY <1>1, <1>2, <1>4 DEF RefreshInv, RowsRight, HasRow
  <1>6. \A f \in Epochs, q \in Pools : HasRow(f, q) => HasRow(f, q)'
    BY <1>1, <1>4 DEF HasRow
  <1>7. TaskInv(c, p)'
    <2>1. task'[c][p] = "read" /\ inputs'[c][p] = {}
      BY <1>1 DEF RefreshInv, TypeOK
    <2> QED
      BY <1>1, <1>2, <1>4, <2>1 DEF TaskInv, Pending, HasRow, NoRow
  <1>8. \A d \in Callers, q \in Pools : <<d, q>> # <<c, p>> =>
            task'[d][q] = task[d][q] /\ inputs'[d][q] = inputs[d][q]
    BY <1>1 DEF RefreshInv, TypeOK
  <1>9. ASSUME NEW d \in Callers, NEW q \in Pools, <<d, q>> # <<c, p>>
        PROVE  TaskInv(d, q)'
    BY <1>1, <1>6, <1>8, <1>9, OtherTasks
  <1> QED
    BY <1>3, <1>5, <1>7, <1>9 DEF RefreshInv

(* A goroutine that fails gives up what it has gathered. *)
LEMMA ErrorKeeps ==
    ASSUME RefreshInv, NEW c \in Callers, NEW p \in Pools,
           NEW kind \in {"leaderlogs", "query"},
           Error(c, p, kind), task[c][p] # "none", faults' \in 0 .. MaxFaults
    PROVE  RefreshInv'
  <1>1. /\ task' = [task EXCEPT ![c][p] = "done"]
        /\ inputs' = [inputs EXCEPT ![c][p] = {}]
        /\ err' = [err EXCEPT ![c] = IF @ = "none" THEN kind ELSE @]
        /\ UNCHANGED <<node, rows, booted, target, refreshed, straddled>>
    BY DEF Error
  <1>2. err' \in [Callers -> {"none", "leaderlogs", "query"}] /\ err'[c] # "none"
    BY <1>1 DEF RefreshInv, TypeOK
  <1>3. TypeOK'
    BY <1>1, <1>2 DEF RefreshInv, TypeOK, Steps
  <1>4. RowsRight'
    BY <1>1 DEF RefreshInv, RowsRight, HasRow
  <1>5. TaskInv(c, p)'
    <2>1. task'[c][p] = "done" /\ inputs'[c][p] = {}
      BY <1>1 DEF RefreshInv, TypeOK
    <2> QED
      BY <1>2, <2>1 DEF TaskInv, Pending
  <1>6. /\ \A d \in Callers, q \in Pools : <<d, q>> # <<c, p>> =>
              task'[d][q] = task[d][q] /\ inputs'[d][q] = inputs[d][q]
        /\ \A d \in Callers : err'[d] = "none" => err[d] = "none"
    BY <1>1 DEF RefreshInv, TypeOK
  <1>7. ASSUME NEW d \in Callers, NEW q \in Pools, <<d, q>> # <<c, p>>
        PROVE  TaskInv(d, q)'
    BY <1>1, <1>6, <1>7, OtherTasks DEF HasRow
  <1> QED
    BY <1>3, <1>4, <1>5, <1>7 DEF RefreshInv

(* The return of a refresh: its goroutines are done. *)
LEMMA ReturnKeeps ==
    ASSUME RefreshInv, NEW c \in Callers, Returning(c), Return(c),
           booted' \in BOOLEAN, refreshed' \subseteq Epochs
    PROVE  RefreshInv'
  <1>1. /\ target' = [target EXCEPT ![c] = -1]
        /\ task' = [task EXCEPT ![c] = NoTasks]
        /\ err' = [err EXCEPT ![c] = "none"]
        /\ UNCHANGED <<node, rows, inputs, straddled, faults>>
    BY DEF Return
  <1>2. TypeOK'
    BY <1>1 DEF RefreshInv, TypeOK, NoTasks, Steps
  <1>3. RowsRight'
    BY <1>1 DEF RefreshInv, RowsRight, HasRow
  <1>4. ASSUME NEW d \in Callers, NEW q \in Pools PROVE TaskInv(d, q)'
    <2>1. CASE d = c
      <3>1. task[c][q] = "done" /\ inputs[c][q] = {}
        BY DEF Returning, RefreshInv, TaskInv, Pending
      <3>2. task'[c][q] = "none"
        BY <1>1 DEF RefreshInv, TypeOK, NoTasks
      <3> QED
        BY <1>1, <2>1, <3>1, <3>2 DEF TaskInv, Pending
    <2>2. CASE d # c
      <3>1. task'[d][q] = task[d][q] /\ target'[d] = target[d] /\ err'[d] = err[d]
        BY <1>1, <2>2 DEF RefreshInv, TypeOK
      <3>2. TaskInv(d, q)
        BY DEF RefreshInv
      <3> QED
        BY <1>1, <3>1, <3>2 DEF TaskInv, Pending, Answer, HasRow
    <2> QED
      BY <2>1, <2>2
  <1> QED
    BY <1>2, <1>3, <1>4 DEF RefreshInv

(* The end of the process. *)
LEMMA RestartKeeps ==
    ASSUME RefreshInv, Restart, faults' \in 0 .. MaxFaults
    PROVE  RefreshInv'
  <1>1. TypeOK'
    BY DEF Restart, RefreshInv, TypeOK, NoTasks, Steps
  <1>2. RowsRight'
    BY DEF Restart, RefreshInv, RowsRight, HasRow
  <1>3. ASSUME NEW d \in Callers, NEW q \in Pools PROVE TaskInv(d, q)'
    BY DEF Restart, TaskInv, Pending, NoTasks
  <1> QED
    BY <1>1, <1>2, <1>3 DEF RefreshInv

(* A new epoch: whatever was pending straddles it. *)
LEMMA NewEpochKeeps ==
    ASSUME RefreshInv, NewEpoch
    PROVE  RefreshInv'
  <1>1. /\ UNCHANGED <<rows, booted, target, task, inputs, err, refreshed, faults>>
        /\ node' \in Epochs /\ straddled \subseteq straddled'
        /\ straddled' \subseteq Epochs \X Pools
    BY DEF NewEpoch, NoFault, RefreshInv, TypeOK
  <1>2. TypeOK'
    BY <1>1 DEF RefreshInv, TypeOK
  <1>3. RowsRight'
    BY <1>1 DEF RefreshInv, RowsRight, HasRow
  <1>4. ASSUME NEW d \in Callers, NEW q \in Pools PROVE TaskInv(d, q)'
    <2>1. Pending(d, q) => <<target[d], q>> \in straddled'
      <3>1. Pending(d, q) => target[d] \in Epochs
        BY DEF Pending, RefreshInv, TypeOK
      <3> QED
        BY <3>1 DEF NewEpoch
    <2>2. TaskInv(d, q)
      BY DEF RefreshInv
    <2> QED
      BY <1>1, <2>1, <2>2 DEF TaskInv, Pending, HasRow
  <1> QED
    BY <1>2, <1>3, <1>4 DEF RefreshInv

(* The invariant is inductive: one case per action. *)
LEMMA RefreshStep == RefreshInv /\ [Next]_vars => RefreshInv'
  <1> SUFFICES ASSUME RefreshInv, [Next]_vars PROVE RefreshInv'
    OBVIOUS
  <1>1. /\ faults \in 0 .. MaxFaults /\ (NoFault => faults' \in 0 .. MaxFaults)
        /\ (Fault => faults' \in 0 .. MaxFaults)
    BY SlotLeaderAssumption DEF RefreshInv, TypeOK, NoFault, Fault
  <1>2. CASE \E c \in Callers : Refresh(c)
    BY <1>2, RefreshKeeps
  <1>3. ASSUME NEW c \in Callers, Working(c) PROVE RefreshInv'
    <2>1. ASSUME NEW p \in Pools, AlreadyPersisted(c, p) PROVE RefreshInv'
      BY <1>1, <2>1, ErrorKeeps DEF AlreadyPersisted
    <2>2. CASE Succeed(c)
      <3>1. target[c] \in Epochs
        BY <2>2 DEF Succeed, Returning, RefreshInv, TypeOK
      <3> QED
        BY <2>2, <3>1, ReturnKeeps DEF Succeed, RefreshInv, TypeOK
    <2>3. CASE Fail(c)
      BY <2>3, ReturnKeeps DEF Fail, RefreshInv, TypeOK
    <2>4. CASE Exit(c)
      BY <1>1, <2>4, RestartKeeps DEF Exit
    <2> QED
      BY <1>3, <2>1, <2>2, <2>3, <2>4, WorkKeeps, PersistKeeps DEF Working
  <1>4. ASSUME NEW c \in Callers, Failing(c) PROVE RefreshInv'
    BY <1>1, <1>4, ErrorKeeps DEF Failing, LeaderLogsFails, QueryFails
  <1>5. CASE NewEpoch
    BY <1>5, NewEpochKeeps
  <1>6. CASE Kill
    BY <1>1, <1>6, RestartKeeps DEF Kill
  <1>7. CASE UNCHANGED vars
    BY <1>7 DEF vars, RefreshInv, TypeOK, RowsRight, TaskInv, Pending, HasRow, Answer
  <1> QED
    BY <1>2, <1>3, <1>4, <1>5, <1>6, <1>7 DEF Next

(* The inductive invariant holds in every reachable state. *)
THEOREM RefreshInvariant == Spec => []RefreshInv
  BY RefreshInit, RefreshStep, PTL DEF Spec

(* Every variable has its type, for any pools, epochs and limit. *)
THEOREM RefreshTypeCorrect == Spec => []TypeOK
  <1>1. RefreshInv => TypeOK
    BY DEF RefreshInv
  <1> QED
    BY <1>1, RefreshInvariant, PTL

(* A row holds its own epoch's schedule, unless the epoch changed while    *)
(* the refresh that inserted it was running.                               *)
THEOREM RowsAreRight == Spec => []RowsRight
  <1>1. RefreshInv => RowsRight
    BY DEF RefreshInv
  <1> QED
    BY <1>1, RefreshInvariant, PTL

-----------------------------------------------------------------------------
(* The service starts as the table does. *)
LEMMA TableInit == Init => Table!Init
  BY DEF Init, Table!Init

(* Every step of the service is one of the table's, or leaves it alone. *)
LEMMA TableStep ==
    RefreshInv /\ [Next]_vars => [Table!Next]_<<rows, target, refreshed>>
  <1> SUFFICES ASSUME RefreshInv, [Next]_vars
               PROVE  Table!Next \/ UNCHANGED <<rows, target, refreshed>>
    OBVIOUS
  <1>1. ASSUME NEW c \in Callers, Refresh(c) PROVE Table!Next
    BY <1>1 DEF Refresh, Target, Table!Next, Table!Begin
  <1>2. ASSUME NEW c \in Callers, NEW p \in Pools, PersistSlots(c, p) PROVE Table!Next
    <2>1. /\ target[c] # -1 /\ task[c][p] = "insert"
          /\ inputs[c][p] \in SUBSET (0 .. NumEpochs)
      BY <1>2 DEF PersistSlots, RefreshInv, TypeOK
    <2>2. inputs[c][p] \in (SUBSET (0 .. NumEpochs)) \ {NoRow}
      BY <2>1 DEF RefreshInv, TaskInv, NoRow
    <2>3. Table!Insert(c, p)
      <3>1. /\ rows[target[c]][p] = NoRow /\ UNCHANGED <<target, refreshed>>
            /\ rows' = [rows EXCEPT ![target[c]][p] = inputs[c][p]]
        BY <1>2 DEF PersistSlots, Insertable, HasRow
      <3> QED
        BY <2>1, <2>2, <3>1 DEF Table!Insert
    <2> QED
      BY <2>3 DEF Table!Next
  <1>3. ASSUME NEW c \in Callers, Succeed(c) PROVE Table!Next
    <2>1. \A p \in Pools : HasRow(target[c], p)
      BY <1>3 DEF Succeed, Returning, RefreshInv, TaskInv
    <2>2. Table!Succeed(c)
      BY <1>3, <2>1 DEF Succeed, Returning, Return, HasRow, Table!Succeed, Table!Complete
    <2> QED
      BY <2>2 DEF Table!Next
  <1>4. ASSUME NEW c \in Callers, Fail(c) PROVE Table!Next
    <2>1. target' = [d \in Callers |-> IF d \in {c} THEN -1 ELSE target[d]]
      BY <1>4 DEF Fail, Return, RefreshInv, TypeOK
    <2> QED
      BY <1>4, <2>1 DEF Fail, Return, Table!Next, Table!Fail
  <1>5. CASE Restart
    <2>1. target' = [d \in Callers |-> IF d \in Callers THEN -1 ELSE target[d]]
      BY <1>5 DEF Restart
    <2> QED
      BY <1>5, <2>1 DEF Restart, Table!Next, Table!Fail
  <1>6. ASSUME NEW c \in Callers, NEW p \in Pools,
               \/ Go(c, p) \/ Check(c, p) \/ LeaderLogs(c, p) \/ Read(c, p)
               \/ AlreadyPersisted(c, p) \/ LeaderLogsFails(c, p) \/ QueryFails(c, p)
        PROVE  UNCHANGED <<rows, target, refreshed>>
    BY <1>6 DEF Go, Check, LeaderLogs, Read, AlreadyPersisted, LeaderLogsFails,
       QueryFails, Error
  <1>7. CASE NewEpoch \/ UNCHANGED vars
    BY <1>7 DEF NewEpoch, vars
  <1> QED
    BY <1>1, <1>2, <1>3, <1>4, <1>5, <1>6, <1>7
       DEF Next, Working, Failing, Exit, Kill

(* The service implements the table: rows are written once, by a refresh   *)
(* of their epoch, and are all there when a refresh has succeeded.         *)
THEOREM ImplementsTable == Spec => KeepsTable
  BY TableInit, TableStep, RefreshInvariant, PTL DEF Spec, KeepsTable, Table!Spec

(* A row, once written, is never changed or removed, by any goroutine,     *)
(* failure or crash: what the table's promise says step by step.           *)
THEOREM RowsWrittenOnce ==
    Spec => [][\A e \in Epochs, p \in Pools :
                  HasRow(e, p) => rows'[e][p] = rows[e][p]]_rows
  <1>1. RefreshInv /\ [Table!Next]_<<rows, target, refreshed>> =>
            [\A e \in Epochs, p \in Pools :
                HasRow(e, p) => rows'[e][p] = rows[e][p]]_rows
    <2>1. SUFFICES ASSUME RefreshInv, Table!Next,
                          NEW e \in Epochs, NEW p \in Pools, HasRow(e, p)
                   PROVE  rows'[e][p] = rows[e][p]
      OBVIOUS
    <2>2. ASSUME NEW c \in Callers, NEW q \in Pools, Table!Insert(c, q)
          PROVE  rows'[e][p] = rows[e][p]
      <3> PICK row : rows' = [rows EXCEPT ![target[c]][q] = row]
        BY <2>2 DEF Table!Insert
      <3>1. /\ rows[target[c]][q] = NoRow
            /\ rows' = [rows EXCEPT ![target[c]][q] = row]
        BY <2>2 DEF Table!Insert
      <3>2. e # target[c] \/ p # q
        BY <2>1, <3>1 DEF HasRow
      <3>3. rows \in [Epochs -> [Pools -> SUBSET (0 .. NumEpochs)]]
        BY <2>1 DEF RefreshInv, TypeOK
      <3> QED
        BY <3>1, <3>2, <3>3
    <2>3. ~ (\E c \in Callers, q \in Pools : Table!Insert(c, q)) => rows' = rows
      BY <2>1 DEF Table!Next, Table!Begin, Table!Succeed, Table!Fail
    <2> QED
      BY <2>2, <2>3
  <1> QED
    BY <1>1, TableStep, RefreshInvariant, PTL DEF Spec

-----------------------------------------------------------------------------
(* What a boot relies on: the scheduler has not begun, and what the boot's *)
(* own refresh has found missing nobody else inserts.                      *)
BootInv ==
    ~booted =>
        /\ target[Scheduler] = -1
        /\ \A p \in Pools :
              task[Watcher][p] \in {"nonce", "stake", "cncli", "insert"} =>
                  ~HasRow(target[Watcher], p)

(* What BootInv says of one of the boot's goroutines. *)
Missing(p) ==
    task[Watcher][p] \in {"nonce", "stake", "cncli", "insert"} =>
        ~HasRow(target[Watcher], p)

LEMMA BootStep == RefreshInv /\ BootInv /\ [Next]_vars => BootInv'
  <1> SUFFICES ASSUME RefreshInv, BootInv, [Next]_vars, ~booted'
               PROVE  target'[Scheduler] = -1 /\ \A p \in Pools : Missing(p)'
    BY DEF BootInv, Missing
  <1>1. /\ Watcher \in Callers /\ Scheduler \in Callers /\ Watcher # Scheduler
        /\ Pools # {}
    BY SlotLeaderAssumption DEF Callers
  <1>2. CASE Restart
    <2>1. target'[Scheduler] = -1 /\ \A p \in Pools : task'[Watcher][p] = "none"
      BY <1>1, <1>2 DEF Restart, NoTasks
    <2> QED
      BY <2>1 DEF Missing
  <1>3. ~Restart => booted' = booted
    BY DEF Next, Working, Failing, Refresh, Go, Check, LeaderLogs, PersistSlots,
       AlreadyPersisted, Read, Error, Succeed, Fail, Exit, LeaderLogsFails,
       QueryFails, NewEpoch, Kill, vars
  <1> SUFFICES ASSUME ~Restart
               PROVE  target'[Scheduler] = -1 /\ \A p \in Pools : Missing(p)'
    BY <1>2
  <1>4. /\ target[Scheduler] = -1
        /\ \A p \in Pools : task[Scheduler][p] = "none"
        /\ \A p \in Pools : Missing(p)
    <2>1. target[Scheduler] = -1 /\ \A p \in Pools : Missing(p)
      BY <1>3 DEF BootInv, Missing
    <2> QED
      BY <1>1, <2>1 DEF RefreshInv, TypeOK
  <1>5. ASSUME NEW c \in Callers, Refresh(c)
        PROVE  target'[Scheduler] = -1 /\ \A p \in Pools : Missing(p)'
    <2>1. c = Watcher
      BY <1>3, <1>5 DEF Refresh, MayRefresh, Callers
    <2>2. target'[Scheduler] = -1 /\ \A p \in Pools : task'[Watcher][p] = "wait"
      BY <1>1, <1>4, <1>5, <2>1 DEF Refresh, RefreshInv, TypeOK
    <2> QED
      BY <2>2 DEF Missing
  <1>6. ASSUME NEW c \in Callers, NEW p \in Pools, task[c][p] # "none",
               target' = target, NEW t, task' = [task EXCEPT ![c][p] = t],
               \A q \in Pools : q # p =>
                   rows'[target[Watcher]][q] = rows[target[Watcher]][q],
               t \in {"nonce", "stake", "cncli", "insert"} =>
                   ~HasRow(target[c], p)'
        PROVE  target'[Scheduler] = -1 /\ \A q \in Pools : Missing(q)'
    <2>1. c = Watcher
      BY <1>4, <1>6 DEF Callers
    <2>2. /\ task'[Watcher][p] = t
          /\ \A q \in Pools : q # p => task'[Watcher][q] = task[Watcher][q]
      BY <1>1, <1>6, <2>1 DEF RefreshInv, TypeOK
    <2> QED
      BY <1>4, <1>6, <2>1, <2>2 DEF Missing, HasRow
  <1>7. ASSUME NEW c \in Callers, NEW p \in Pools, Go(c, p) \/ Read(c, p)
        PROVE  target'[Scheduler] = -1 /\ \A q \in Pools : Missing(q)'
    BY <1>6, <1>7 DEF Go, Read
  <1>8. ASSUME NEW c \in Callers, NEW p \in Pools, Check(c, p)
        PROVE  target'[Scheduler] = -1 /\ \A q \in Pools : Missing(q)'
    <2>1. CASE HasRow(target[c], p)
      BY <1>6, <1>8, <2>1 DEF Check, IsRefresh, HasRow
    <2>2. CASE ~HasRow(target[c], p)
      BY <1>6, <1>8, <2>2 DEF Check, IsRefresh, HasRow
    <2> QED
      BY <2>1, <2>2
  <1>9. ASSUME NEW c \in Callers, NEW p \in Pools, LeaderLogs(c, p)
        PROVE  target'[Scheduler] = -1 /\ \A q \in Pools : Missing(q)'
    <2>1. c = Watcher /\ ~HasRow(target[c], p)
      BY <1>4, <1>9 DEF LeaderLogs, Callers, Missing
    <2>2. /\ target' = target /\ rows' = rows /\ task[c][p] # "none"
          /\ \E t : task' = [task EXCEPT ![c][p] = t]
      BY <1>9 DEF LeaderLogs
    <2> QED
      BY <1>6, <2>1, <2>2 DEF HasRow
  <1>10. ASSUME NEW c \in Callers, NEW p \in Pools, PersistSlots(c, p)
         PROVE  target'[Scheduler] = -1 /\ \A q \in Pools : Missing(q)'
    <2>1. /\ target' = target /\ task[c][p] # "none"
          /\ task' = [task EXCEPT ![c][p] = "read"]
          /\ rows' = [rows EXCEPT ![target[c]][p] = inputs[c][p]]
      BY <1>10 DEF PersistSlots
    <2>2. c = Watcher /\ target[Watcher] \in Epochs
      BY <1>4, <2>1 DEF Callers, RefreshInv, TypeOK
    <2>3. \A q \in Pools : q # p =>
              rows'[target[Watcher]][q] = rows[target[Watcher]][q]
      BY <2>1, <2>2 DEF RefreshInv, TypeOK
    <2> QED
      BY <1>6, <2>1, <2>3
  <1>11. ASSUME NEW c \in Callers, NEW p \in Pools, NEW kind,
                Error(c, p, kind), task[c][p] # "none"
         PROVE  target'[Scheduler] = -1 /\ \A q \in Pools : Missing(q)'
    BY <1>6, <1>11 DEF Error
  <1>12. ASSUME NEW c \in Callers, NEW p \in Pools,
                \/ AlreadyPersisted(c, p) \/ LeaderLogsFails(c, p)
                \/ QueryFails(c, p)
         PROVE  target'[Scheduler] = -1 /\ \A q \in Pools : Missing(q)'
    BY <1>11, <1>12 DEF AlreadyPersisted, LeaderLogsFails, QueryFails
  <1>13. ASSUME NEW c \in Callers PROVE ~Succeed(c) /\ ~Fail(c)
    BY <1>1, <1>3, <1>4, <1>13 DEF Succeed, Fail, Returning, Logged, Callers
  <1>14. CASE NewEpoch \/ UNCHANGED vars
    BY <1>4, <1>14 DEF NewEpoch, vars, Missing, HasRow
  <1> QED
    BY <1>5, <1>7, <1>8, <1>9, <1>10, <1>12, <1>13, <1>14
       DEF Next, Working, Failing, Exit, Kill

(* A boot's refresh computes no schedule twice and fails on no row that is *)
(* already there, whatever was left behind by the processes before it.     *)
THEOREM BootsAlone == Spec => []BootAlone
  <1>1. Init => BootInv
    BY SlotLeaderAssumption DEF Init, BootInv, NoTasks, Callers
  <1>2. RefreshInv /\ BootInv => BootAlone
    <2>1. SUFFICES ASSUME RefreshInv, BootInv, ~booted, NEW p \in Pools,
                          Pending(Watcher, p), HasRow(target[Watcher], p)
                   PROVE  task[Watcher][p] \in {"wait", "check"}
      BY DEF BootAlone
    <2>2. task[Watcher][p] \in Steps
      BY <2>1 DEF RefreshInv, TypeOK, Callers
    <2> QED
      BY <2>1, <2>2 DEF BootInv, Pending, Steps
  <1> QED
    BY <1>1, <1>2, BootStep, RefreshInvariant, PTL DEF Spec

-----------------------------------------------------------------------------
(* A refresh that is on always has a step to take.                         *)
THEOREM RefreshNeverStuck == Spec => []NeverStuck
  <1>1. RefreshInv => NeverStuck
    <2>1. SUFFICES ASSUME RefreshInv, NEW c \in Callers, target[c] # -1,
                          ~Returning(c)
                   PROVE  \E p \in Pools :
                             \/ task[c][p] = "wait"
                                /\ (concurrency > 0 =>
                                       Cardinality(Running(c)) < concurrency)
                             \/ task[c][p] \in
                                   {"check", "nonce", "stake", "cncli", "insert"}
                             \/ task[c][p] = "read" /\ HasRow(target[c], p)
      BY DEF NeverStuck
    <2>2. \A p \in Pools : task[c][p] \in Steps /\ task[c][p] # "none"
      BY <2>1 DEF RefreshInv, TypeOK
    <2>3. CASE Running(c) = {}
      <3>1. PICK p \in Pools : task[c][p] # "done"
        BY <2>1 DEF Returning
      <3>2. task[c][p] = "wait"
        BY <2>2, <2>3, <3>1 DEF Running
      <3>3. concurrency > 0 => Cardinality(Running(c)) < concurrency
        BY <2>3, FS_EmptySet
      <3> QED
        BY <3>2, <3>3
    <2>4. CASE Running(c) # {}
      <3>1. PICK p \in Pools : task[c][p] \notin {"none", "wait", "done"}
        BY <2>4 DEF Running
      <3>2. task[c][p] = "read" => HasRow(target[c], p)
        BY <2>1 DEF RefreshInv, TaskInv
      <3>3. task[c][p] \in {"check", "nonce", "stake", "cncli", "insert", "read"}
        BY <2>2, <3>1 DEF Steps
      <3> QED
        BY <3>2, <3>3
    <2> QED
      BY <2>3, <2>4
  <1> QED
    BY <1>1, RefreshInvariant, PTL

-----------------------------------------------------------------------------
(* The goroutines of a refresh that run are not more than its limit.       *)
LimitInv ==
    concurrency > 0 =>
        \A c \in Callers : Cardinality(Running(c)) <= concurrency

(* There are finitely many of them. *)
LEMMA RunningFinite ==
    ASSUME NEW c
    PROVE  IsFiniteSet(Running(c)) /\ Cardinality(Running(c)) \in Nat
  <1>1. IsFiniteSet(Pools) /\ Running(c) \in SUBSET Pools
    BY SlotLeaderAssumption DEF Running
  <1>2. IsFiniteSet(Running(c))
    BY <1>1, FS_Subset
  <1> QED
    BY <1>2, FS_CardinalityType

(* Only Go makes one run that did not, and not when the limit is reached.  *)
LEMMA LimitStep == RefreshInv /\ LimitInv /\ [Next]_vars => LimitInv'
  <1> SUFFICES ASSUME RefreshInv, LimitInv, [Next]_vars, concurrency > 0,
                      NEW d \in Callers
               PROVE  Cardinality(Running(d)') <= concurrency
    BY DEF LimitInv
  <1>1. Cardinality(Running(d)) <= concurrency
    BY DEF LimitInv
  <1>2. ASSUME Running(d)' \subseteq Running(d)
        PROVE  Cardinality(Running(d)') <= concurrency
    <2>1. Running(d)' \in SUBSET Running(d)
      BY <1>2
    <2>2. /\ IsFiniteSet(Running(d)')
          /\ Cardinality(Running(d)') <= Cardinality(Running(d))
      BY <2>1, RunningFinite, FS_Subset
    <2>3. Cardinality(Running(d)') \in Nat /\ Cardinality(Running(d)) \in Nat
      BY <2>2, RunningFinite, FS_CardinalityType
    <2> QED
      BY <1>1, <2>2, <2>3, SlotLeaderAssumption
  <1>3. ASSUME NEW c \in Callers, NEW p \in Pools, Go(c, p)
        PROVE  Cardinality(Running(d)') <= concurrency
    <2>1. task' = [task EXCEPT ![c][p] = "check"]
      BY <1>3 DEF Go
    <2>2. CASE d # c
      <3>1. task'[d] = task[d]
        BY <2>1, <2>2 DEF RefreshInv, TypeOK
      <3> QED
        BY <1>2, <3>1 DEF Running
    <2>3. CASE d = c
      <3>1. Running(d)' = Running(d) \cup {p}
        <4>1. /\ task'[d][p] = "check"
              /\ \A q \in Pools : q # p => task'[d][q] = task[d][q]
          BY <2>1, <2>3 DEF RefreshInv, TypeOK
        <4> QED
          BY <4>1 DEF Running
      <3>2. /\ Cardinality(Running(d)) < concurrency
            /\ Cardinality(Running(d)) \in Nat /\ IsFiniteSet(Running(d))
        BY <1>3, <2>3, RunningFinite DEF Go
      <3>3. Cardinality(Running(d) \cup {p}) =
                IF p \in Running(d) THEN Cardinality(Running(d))
                                    ELSE Cardinality(Running(d)) + 1
        BY <3>2, FS_AddElement
      <3> QED
        BY <3>1, <3>2, <3>3, SlotLeaderAssumption
    <2> QED
      BY <2>2, <2>3
  <1>4. ASSUME NEW c \in Callers, NEW p \in Pools,
               \/ Check(c, p) \/ LeaderLogs(c, p) \/ PersistSlots(c, p)
               \/ AlreadyPersisted(c, p) \/ Read(c, p)
               \/ LeaderLogsFails(c, p) \/ QueryFails(c, p)
        PROVE  Cardinality(Running(d)') <= concurrency
    <2>1. /\ task[c][p] \notin {"none", "wait", "done"}
          /\ \A e \in Callers, q \in Pools : <<e, q>> # <<c, p>> =>
                task'[e][q] = task[e][q]
      BY <1>4 DEF Check, LeaderLogs, PersistSlots, AlreadyPersisted, Read,
         LeaderLogsFails, QueryFails, Error, RefreshInv, TypeOK
    <2>2. Running(d)' \subseteq Running(d)
      BY <2>1 DEF Running
    <2> QED
      BY <1>2, <2>2
  <1>5. ASSUME \A p \in Pools : task'[d][p] \in {"none", "wait", task[d][p]}
        PROVE  Cardinality(Running(d)') <= concurrency
    BY <1>2, <1>5 DEF Running
  <1>6. ASSUME NEW c \in Callers, Refresh(c) \/ Return(c)
        PROVE  Cardinality(Running(d)') <= concurrency
    <2>1. \A p \in Pools : task'[d][p] \in {"none", "wait", task[d][p]}
      BY <1>6 DEF Refresh, Return, NoTasks, RefreshInv, TypeOK
    <2> QED
      BY <1>5, <2>1
  <1>7. CASE Restart
    BY <1>5, <1>7 DEF Restart, NoTasks
  <1>8. CASE NewEpoch \/ UNCHANGED vars
    BY <1>5, <1>8 DEF NewEpoch, vars
  <1> QED
    BY <1>3, <1>4, <1>6, <1>7, <1>8
       DEF Next, Working, Failing, Succeed, Fail, Exit, Kill

(* However many pools there are, no more cncli processes run at the same   *)
(* time than twice the limit.                                              *)
THEOREM LimitHoldsTwice == Spec => []LimitTwice
  <1>1. Init => LimitInv
    <2>1. SUFFICES ASSUME Init, NEW c \in Callers PROVE Running(c) = {}
      BY SlotLeaderAssumption, FS_EmptySet DEF LimitInv
    <2> QED
      BY <2>1 DEF Init, NoTasks, Running
  <1>2. LimitInv => LimitTwice
    <2>1. SUFFICES ASSUME LimitInv, concurrency > 0
                   PROVE  Cardinality(CncliProcesses) <= 2 * concurrency
      BY DEF LimitTwice
    <2> DEFINE A == {Watcher} \X Running(Watcher)
               B == {Scheduler} \X Running(Scheduler)
    <2>2. ASSUME NEW c \in Callers
          PROVE  /\ IsFiniteSet({c} \X Running(c))
                 /\ Cardinality({c} \X Running(c)) \in Nat
                 /\ Cardinality({c} \X Running(c)) <= concurrency
      <3>1. IsFiniteSet({c}) /\ Cardinality({c}) = 1
        BY FS_Singleton
      <3>2. /\ IsFiniteSet({c} \X Running(c))
            /\ Cardinality({c} \X Running(c)) = 1 * Cardinality(Running(c))
        BY <3>1, RunningFinite, FS_Product
      <3>3. Cardinality(Running(c)) <= concurrency
        BY <2>1 DEF LimitInv
      <3> QED
        BY <3>2, <3>3, RunningFinite
    <2>3. /\ IsFiniteSet(A) /\ Cardinality(A) \in Nat
          /\ Cardinality(A) <= concurrency
          /\ IsFiniteSet(B) /\ Cardinality(B) \in Nat
          /\ Cardinality(B) <= concurrency
      BY <2>2 DEF Callers
    <2>4. CncliProcesses \in SUBSET (A \cup B)
      BY DEF CncliProcesses, Callers, Running
    <2> HIDE DEF A, B
    <2>5. /\ IsFiniteSet(A \cup B)
          /\ Cardinality(A \cup B) =
                Cardinality(A) + Cardinality(B) - Cardinality(A \cap B)
      BY <2>3, FS_Union
    <2>6. IsFiniteSet(A \cap B)
      <3>1. A \cap B \in SUBSET A
        OBVIOUS
      <3> QED
        BY <2>3, <3>1, FS_Subset
    <2>7. /\ Cardinality(A \cap B) \in Nat /\ Cardinality(A \cup B) \in Nat
          /\ IsFiniteSet(CncliProcesses)
          /\ Cardinality(CncliProcesses) <= Cardinality(A \cup B)
      BY <2>4, <2>5, <2>6, FS_Subset, FS_CardinalityType
    <2>8. Cardinality(CncliProcesses) \in Nat
      BY <2>7, FS_CardinalityType
    <2> QED
      BY <2>3, <2>5, <2>7, <2>8, SlotLeaderAssumption
  <1> QED
    BY <1>1, <1>2, LimitStep, RefreshInvariant, PTL DEF Spec
=============================================================================
