------------------------- MODULE BlockWatcherProofs -------------------------
(***************************************************************************)
(* The cursor and the accounting of the block watcher, proved for every    *)
(* length and number of epochs, every set of pools, every election, every  *)
(* chain and every number of failures.                                     *)
(***************************************************************************)
EXTENDS BlockWatcher, LedgerProofs

-----------------------------------------------------------------------------
(* The inductive invariant of the cursor. *)

(* What was known when it was asked for is still there. *)
KnownInv ==
    /\ chain[tip] # NoBlock
    /\ epoch <= EpochOf(tip) /\ req <= EpochOf(tip) /\ blk <= tip

(* The saved cursor is in its epoch, or at the first slot of the next. *)
SavedInv ==
    db # NoState =>
        /\ db.epoch <= EpochOf(tip)
        /\ db.slot <= tip
        /\ db.slot <= FirstSlot(db.epoch + 1)
        /\ Running => db.epoch <= epoch /\ db.slot <= slot

(* So is the one in memory, as far as a pass has got. *)
PassInv ==
    /\ Running => slot <= tip /\ slot <= FirstSlot(epoch + 1)
    /\ pc \in {"leaders", "scan", "slots", "save", "rollover"} =>
          epoch <= EpochOf(blk)
    /\ pc \in {"slots", "save"} => slot < cur /\ cur <= last /\ last = PassEnd
    /\ pc = "slots" => todo # {}
    /\ pc = "save" /\ todo = {} => cur = last
    /\ pc = "rollover" => epochTransition /\ FirstSlot(epoch + 1) <= slot
    /\ pc \in {"reschedule", "check"} => req = epoch

CursorInv == TypeOK /\ KnownInv /\ SavedInv /\ PassInv

-----------------------------------------------------------------------------
(* Facts that hold in every state of the invariant. *)

(* The variables in use are naturals. *)
LEMMA Numbers ==
    ASSUME TypeOK
    PROVE  /\ tip \in Nat /\ epoch \in Nat /\ slot \in Nat /\ req \in Nat
           /\ blk \in Nat /\ cur \in Nat /\ last \in Nat
           /\ EpochOf(tip) \in Epochs /\ EpochOf(blk) \in Epochs
           /\ \A e \in Epochs : e \in Nat
           /\ \A s \in Slots : s \in Nat
           /\ db # NoState => db.epoch \in Nat /\ db.slot \in Nat
  BY SlotsAreNat, EpochOfSlot DEF TypeOK, Cursors

(* The arithmetic of startWatcherAndDetectEpochTransition: in a transition *)
(* endSlot is the first slot of the NEXT epoch, whatever the last block.   *)
LEMMA EndOfPass ==
    ASSUME CursorInv, pc = "scan"
    PROVE  endSlot = PassEnd
  <1>1. CASE ~epochTransition
    BY <1>1 DEF endSlot, PassEnd
  <1>2. CASE epochTransition
    <2> DEFINE b == GetLastBlockFromPreviousEpoch(epoch)
    <2>1. epoch \in Nat /\ epoch <= EpochOf(tip)
      BY Numbers DEF CursorInv, KnownInv
    <2>2. b \in BlocksIn(epoch)
      BY <2>1, EpochHasBlocks, EpochBlocks DEF CursorInv, KnownInv, TypeOK
    <2>3. b \in Nat /\ EpochOf(b) = epoch
      BY <2>2, SlotsAreNat DEF BlocksIn, SlotsOf
    <2>4. FirstSlot(epoch + 1) = FirstSlot(epoch) + maxSlotPerEpoch
      BY <2>1, LengthAssumption DEF FirstSlot
    <2>5. endSlot = b + (maxSlotPerEpoch - (b - FirstSlot(epoch)))
      BY <1>2, <2>3 DEF endSlot, EpochSlot
    <2>6. FirstSlot(epoch) \in Nat /\ maxSlotPerEpoch \in Nat
      BY <2>1, FirstSlotNat, LengthAssumption
    <2> HIDE DEF b
    <2> QED
      BY <1>2, <2>3, <2>4, <2>5, <2>6 DEF PassEnd
  <1> QED
    BY <1>1, <1>2

(* A pass never goes beyond the latest block. *)
LEMMA PassEndBehindTip ==
    ASSUME CursorInv
    PROVE  PassEnd \in Nat /\ PassEnd <= blk /\ blk <= tip
  <1>1. /\ blk \in Nat /\ epoch \in Nat /\ blk <= tip
        /\ FirstSlot(epoch + 1) \in Nat
    BY Numbers, FirstSlotNat DEF CursorInv, KnownInv
  <1> QED
    BY <1>1, LaterEpoch DEF PassEnd, epochTransition

(* A slot that is not past the end of its epoch's pass. *)
LEMMA PassEndInEpoch ==
    ASSUME CursorInv, epoch <= EpochOf(blk)
    PROVE  PassEnd <= FirstSlot(epoch + 1)
  <1>1. blk \in Nat /\ epoch \in Nat /\ FirstSlot(epoch + 1) \in Nat
    BY Numbers, FirstSlotNat DEF CursorInv
  <1>2. ~epochTransition => blk < FirstSlot(epoch + 1)
    BY <1>1, LaterEpoch, EpochBounds DEF epochTransition
  <1> QED
    BY <1>1, <1>2 DEF PassEnd

(* What is loaded and reconciled at the start is in its epoch. *)
LEMMA LoadedCursor ==
    ASSUME CursorInv, pc = "load"
    PROVE  /\ Loaded.epoch \in Epochs /\ Loaded.slot \in Slots
           /\ Reconciled.epoch \in Epochs /\ Reconciled.slot \in Slots
           /\ Reconciled = [epoch |-> Reconciled.epoch, slot |-> Reconciled.slot]
           /\ Loaded.epoch <= Reconciled.epoch
           /\ Loaded.slot <= Reconciled.slot
           /\ Reconciled.epoch <= EpochOf(tip)
           /\ Reconciled.slot <= tip
           /\ Reconciled.slot <= FirstSlot(Reconciled.epoch + 1)
           /\ Behind => EpochOf(Reconciled.slot) = Reconciled.epoch
  <1> DEFINE first == GetFirstBlockInEpoch(req)
  <1>1. /\ tip \in Slots /\ EpochOf(tip) \in Epochs /\ req \in Epochs
        /\ tip \in Nat /\ req \in Nat /\ req <= EpochOf(tip)
    BY Numbers DEF CursorInv, KnownInv, TypeOK
  <1>2. Loaded = [epoch |-> Loaded.epoch, slot |-> Loaded.slot]
    BY DEF Loaded, CursorInv, TypeOK, Cursors, NoState
  <1>3. /\ Loaded.epoch \in Epochs /\ Loaded.slot \in Slots
        /\ Loaded.epoch <= EpochOf(tip) /\ Loaded.slot <= tip
        /\ Loaded.slot <= FirstSlot(Loaded.epoch + 1)
    <2>1. CASE db = NoState
      <3>1. tip < FirstSlot(EpochOf(tip) + 1)
        BY <1>1, EpochBounds
      <3>2. EpochOf(tip) \in Nat /\ FirstSlot(EpochOf(tip) + 1) \in Nat
        BY <1>1, EpochBounds, FirstSlotNat
      <3> QED
        BY <1>1, <2>1, <3>1, <3>2 DEF Loaded, GetLatestBlock
    <2>2. CASE db # NoState
      BY <2>2 DEF Loaded, CursorInv, SavedInv, TypeOK, Cursors
    <2> QED
      BY <2>1, <2>2
  <1>4. /\ first \in Slots /\ EpochOf(first) = req /\ first <= tip
    BY <1>1, EpochHasBlocks, EpochBlocks
       DEF BlocksIn, SlotsOf, CursorInv, KnownInv, TypeOK
  <1>5. first \in Nat /\ Loaded.epoch \in Nat /\ Loaded.slot \in Nat
    BY <1>3, <1>4, SlotsAreNat
  <1>6. FirstSlot(req) <= first /\ first < FirstSlot(req + 1)
    BY <1>4, <1>5, EpochBounds
  <1>7. /\ FirstSlot(req) \in Nat /\ FirstSlot(req + 1) \in Nat
        /\ FirstSlot(Loaded.epoch + 1) \in Nat
    BY <1>1, <1>5, FirstSlotNat
  <1>8. Behind => Loaded.slot <= first
    <2>1. Behind => FirstSlot(Loaded.epoch + 1) <= FirstSlot(req)
      BY <1>1, <1>5, FirstSlotMono DEF Behind
    <2> QED
      BY <1>3, <1>5, <1>6, <1>7, <2>1
  <1> HIDE DEF first
  <1>9. CASE Behind
    <2>1. Reconciled = [epoch |-> req, slot |-> first]
      BY <1>9 DEF Reconciled, first
    <2>2. Loaded.epoch <= req
      BY <1>1, <1>5, <1>9 DEF Behind
    <2> QED
      BY <1>1, <1>3, <1>4, <1>5, <1>6, <1>7, <1>8, <1>9, <2>1, <2>2
  <1>10. CASE ~Behind
    <2>1. Reconciled = Loaded
      BY <1>10 DEF Reconciled
    <2> QED
      BY <1>2, <1>3, <1>5, <1>10, <2>1
  <1> QED
    BY <1>9, <1>10

-----------------------------------------------------------------------------
(* The invariant is established and kept. *)

(* A fresh database and a process that has not started satisfy CursorInv. *)
LEMMA CursorInit == Init => CursorInv
  <1> SUFFICES ASSUME Init PROVE CursorInv
    OBVIOUS
  <1>1. tip \in Slots /\ chain \in Chains /\ chain[tip] # NoBlock
    BY DEF Init, LedgerInit, SlotsOf
  <1>2. 0 \in Slots /\ 0 \in Epochs /\ EpochOf(tip) \in Nat /\ tip \in Nat
    BY <1>1, SlotsAreNat, EpochBounds
  <1>3. /\ NoTally \in [Epochs -> [Pools -> [Verdicts -> Nat]]]
        /\ NoStreak \in [Epochs -> [Pools -> Nat]]
    BY DEF NoTally, NoStreak
  <1>4. faults \in 0 .. MaxFaults
    BY FaultAssumption DEF Init
  <1>5. TypeOK
    BY <1>1, <1>2, <1>3, <1>4 DEF Init, TypeOK, Cursors, Down
  <1>6. KnownInv
    BY <1>1, <1>2 DEF Init, KnownInv
  <1>7. SavedInv /\ PassInv
    BY DEF Init, SavedInv, PassInv, Running, Loop
  <1> QED
    BY <1>5, <1>6, <1>7 DEF CursorInv

(* Counting a failure keeps within the bound. *)
LEMMA FaultBound ==
    ASSUME faults \in 0 .. MaxFaults,
           NoFault \/ \E kind \in FaultKinds : Fault(kind)
    PROVE  faults' \in 0 .. MaxFaults
  BY FaultAssumption DEF NoFault, Fault

(* A process that has ended. *)
LEMMA ExitKeeps ==
    ASSUME CursorInv, NEW how \in Down, Exit(how),
           rows' \subseteq Epochs \X Pools, faults' \in 0 .. MaxFaults
    PROVE  CursorInv'
  <1>1. 0 \in Slots /\ 0 \in Epochs /\ EpochOf(tip) \in Nat /\ tip \in Nat
    BY SlotsAreNat, EpochBounds DEF CursorInv, TypeOK
  <1>2. TypeOK'
    BY <1>1 DEF CursorInv, TypeOK, Exit, NoTally, NoStreak, ledgerVars
  <1>3. KnownInv'
    BY <1>1 DEF CursorInv, KnownInv, Exit, ledgerVars
  <1>4. SavedInv' /\ PassInv'
    BY DEF CursorInv, SavedInv, PassInv, Exit, Running, Loop, Down, ledgerVars
  <1> QED
    BY <1>2, <1>3, <1>4 DEF CursorInv

(* The chain grows. *)
LEMMA NewBlockKeeps ==
    ASSUME CursorInv, NewBlock
    PROVE  CursorInv'
  <1>1. /\ tip \in Nat /\ tip' \in Nat /\ tip' \in Slots /\ tip < tip'
        /\ chain' = chain /\ chain[tip'] # NoBlock
    BY SlotsAreNat DEF NewBlock, Extend, NextBlocks, CursorInv, TypeOK
  <1>2. EpochOf(tip) <= EpochOf(tip') /\ EpochOf(tip) \in Nat /\ EpochOf(tip') \in Nat
    BY <1>1, EpochMono, EpochBounds
  <1>3. TypeOK'
    BY <1>1 DEF NewBlock, NoFault, CursorInv, TypeOK, disk, memory, pass, metrics, history
  <1>4. KnownInv'
    BY <1>1, <1>2, Numbers DEF NewBlock, CursorInv, KnownInv, disk, memory, pass
  <1>5. SavedInv'
    BY <1>1, <1>2, Numbers DEF NewBlock, CursorInv, SavedInv, Running, disk, memory
  <1>6. PassInv'
    BY <1>1, <1>2, Numbers DEF NewBlock, CursorInv, PassInv, PassEnd,
        epochTransition, Running, memory, pass
  <1> QED
    BY <1>3, <1>4, <1>5, <1>6 DEF CursorInv

(* Steps that change neither the cursor, in memory or saved, nor the chain,*)
(* and that leave the passes that are under way alone.                     *)
LEMMA QuietKeeps ==
    ASSUME CursorInv, TypeOK', UNCHANGED <<chain, tip, db, memory, pass, pc>>
    PROVE  CursorInv'
  BY DEF CursorInv, KnownInv, SavedInv, PassInv, PassEnd, epochTransition,
         Running, memory, pass

(* Steps that only move on: the cursor is loaded before and after, or not. *)
LEMMA ToIdleKeeps ==
    ASSUME CursorInv, Running, ToIdle, UNCHANGED <<db, memory>>,
           rows' \subseteq Epochs \X Pools, faults' \in 0 .. MaxFaults,
           tally' \in [Epochs -> [Pools -> [Verdicts -> Nat]]],
           UNCHANGED <<streak, history>>
    PROVE  CursorInv'
  <1>1. 0 \in Slots /\ 0 \in Epochs /\ EpochOf(tip) \in Nat /\ tip \in Nat
    BY SlotsAreNat, EpochBounds DEF CursorInv, TypeOK
  <1>2. TypeOK'
    BY <1>1 DEF CursorInv, TypeOK, ToIdle, Goto, memory, history, ledgerVars, Loop
  <1>3. KnownInv'
    BY <1>1 DEF CursorInv, KnownInv, ToIdle, Goto, memory, ledgerVars
  <1>4. SavedInv' /\ PassInv'
    BY DEF CursorInv, SavedInv, PassInv, ToIdle, Goto, Running, Loop, memory, ledgerVars
  <1> QED
    BY <1>2, <1>3, <1>4 DEF CursorInv

(* The counters keep their type. *)
LEMMA RecordType ==
    ASSUME TypeOK, NEW p \in Pools, NEW s \in Slots, NEW v \in Verdicts,
           Record(p, s, v)
    PROVE  /\ tally' \in [Epochs -> [Pools -> [Verdicts -> Nat]]]
           /\ streak' \in [Epochs -> [Pools -> Nat]]
           /\ judged' \subseteq Judgment
           /\ ever' \subseteq Pools \X Slots
  <1>1. tally' \in [Epochs -> [Pools -> [Verdicts -> Nat]]]
    BY DEF Record, TypeOK
  <1>2. streak' \in [Epochs -> [Pools -> Nat]]
    <2>1. \A n \in Nat : StreakAfter(v, n) \in Nat
      BY DEF StreakAfter
    <2>2. streak[epoch][p] \in Nat
      BY DEF TypeOK
    <2>3. StreakAfter(v, streak[epoch][p]) \in Nat
      BY <2>1, <2>2
    <2> QED
      BY <2>3 DEF Record, TypeOK
  <1>3. judged' \subseteq Judgment /\ ever' \subseteq Pools \X Slots
    BY DEF Record, TypeOK, Judgment
  <1> QED
    BY <1>1, <1>2, <1>3

(* processLeaderSlot gives one of the three verdicts. *)
LEMMA OutcomeType == \A p, s : Outcome(p, s) \in Verdicts
  BY DEF Outcome, Verdicts

(* The rows a refresh inserts are rows of known epochs and pools. *)
LEMMA RowsType ==
    ASSUME TypeOK, NEW e \in Epochs, NEW ps \in SUBSET Pools
    PROVE  rows \cup RowsFor(ps, e) \subseteq Epochs \X Pools
  BY DEF TypeOK, RowsFor

-----------------------------------------------------------------------------
(* Booting. *)
LEMMA BootingKeeps ==
    ASSUME CursorInv, Booting
    PROVE  CursorInv'
  <1> USE DEF CursorInv
  <1>1. /\ tip \in Nat /\ EpochOf(tip) \in Epochs /\ EpochOf(tip) \in Nat
        /\ req \in Epochs
    BY Numbers DEF TypeOK
  <1>2. CASE Start
    <2>1. TypeOK'
      BY <1>1, <1>2 DEF Start, TypeOK, Goto, NoFault, GetLatestEpoch, Boot,
         disk, memory, metrics, history, ledgerVars
    <2>2. KnownInv' /\ SavedInv' /\ PassInv'
      BY <1>1, <1>2 DEF Start, KnownInv, SavedInv, PassInv, Goto, Running,
         GetLatestEpoch, Loop, disk, memory, ledgerVars
    <2> QED
      BY <2>1, <2>2
  <1>3. CASE RefreshAtBoot
    <2>1. rows' \subseteq Epochs \X Pools
      BY <1>1, <1>3, RowsType DEF RefreshAtBoot
    <2>2. TypeOK'
      BY <1>3, <2>1 DEF RefreshAtBoot, TypeOK, Goto, NoFault, Boot,
         memory, pass, metrics, history, ledgerVars
    <2>3. KnownInv' /\ SavedInv' /\ PassInv'
      BY <1>3 DEF RefreshAtBoot, KnownInv, SavedInv, PassInv, Goto, Running,
         Loop, memory, pass, ledgerVars
    <2> QED
      BY <2>2, <2>3
  <1>4. CASE RefreshAtBootFails
    <2>1. rows' \subseteq Epochs \X Pools
      BY <1>1, <1>4, RowsType DEF RefreshAtBootFails
    <2>2. faults' \in 0 .. MaxFaults
      BY <1>4, FaultBound DEF RefreshAtBootFails, FaultKinds, TypeOK
    <2> QED
      BY <1>4, <2>1, <2>2, ExitKeeps DEF RefreshAtBootFails, Down
  <1>5. CASE InitState
    <2>1. TypeOK'
      BY <1>1, <1>5 DEF InitState, TypeOK, Goto, NoFault, GetLatestEpoch, Boot,
         disk, memory, metrics, history, ledgerVars
    <2>2. KnownInv' /\ SavedInv' /\ PassInv'
      BY <1>1, <1>5 DEF InitState, KnownInv, SavedInv, PassInv, Goto, Running,
         GetLatestEpoch, Loop, disk, memory, ledgerVars
    <2> QED
      BY <2>1, <2>2
  <1>6. CASE LoadAndReconcile
    <2>1. pc = "load" /\ epoch' = Reconciled.epoch /\ slot' = Reconciled.slot
      BY <1>6 DEF LoadAndReconcile
    <2>2. /\ Loaded.epoch \in Nat /\ Loaded.slot \in Nat
          /\ Reconciled.epoch \in Nat /\ Reconciled.slot \in Nat
      BY <2>1, LoadedCursor, SlotsAreNat
    <2>3. db' \in Cursors
      BY <1>6, <2>1, LoadedCursor DEF LoadAndReconcile, TypeOK, Cursors
    <2>4. waived' \subseteq Slots /\ origin' \in Slots
      <3>1. (Loaded.slot + 1) .. Reconciled.slot \subseteq Slots
        BY <2>1, <2>2, LoadedCursor, SlotsAreNat, FirstSlotNat
      <3> QED
        BY <1>6, <2>1, <3>1, LoadedCursor DEF LoadAndReconcile, TypeOK
    <2>5. TypeOK'
      BY <1>1, <1>6, <2>1, <2>3, <2>4, LoadedCursor, SlotsAreNat
         DEF LoadAndReconcile, TypeOK, Goto, NoFault, Boot, metrics, ledgerVars
    <2>6. KnownInv'
      BY <1>1, <1>6, <2>1, LoadedCursor
         DEF LoadAndReconcile, KnownInv, Goto, ledgerVars
    <2>7. SavedInv'
      <3>1. CASE Behind
        BY <1>6, <2>1, <2>2, <3>1, LoadedCursor
           DEF LoadAndReconcile, SavedInv, Goto, ledgerVars
      <3>2. CASE ~Behind
        <4>1. db' = db /\ tip' = tip /\ Reconciled = Loaded
          BY <1>6, <3>2 DEF LoadAndReconcile, Goto, ledgerVars, Reconciled
        <4>2. db # NoState => Loaded = db
          BY DEF Loaded
        <4>3. db # NoState => db.epoch \in Nat /\ db.slot \in Nat
          BY Numbers
        <4> QED
          BY <2>1, <4>1, <4>2, <4>3 DEF SavedInv
      <3> QED
        BY <3>1, <3>2
    <2>8. PassInv'
      BY <1>6, <2>1, LoadedCursor
         DEF LoadAndReconcile, PassInv, Goto, ledgerVars
    <2> QED
      BY <2>5, <2>6, <2>7, <2>8
  <1>7. CASE BootFails
    <2>1. faults' \in 0 .. MaxFaults
      BY <1>7, FaultBound DEF BootFails, FaultKinds, TypeOK
    <2> QED
      BY <1>7, <2>1, ExitKeeps DEF BootFails, Down, TypeOK
  <1>8. CASE EnsureAtBoot \/ EnsureAtBootUnread
    <2>1. /\ pc = "ensure" /\ Goto("idle")
          /\ UNCHANGED <<disk, memory, pass, metrics, history>>
      BY <1>8 DEF EnsureAtBoot, EnsureAtBootUnread
    <2>2. faults' \in 0 .. MaxFaults
      BY <1>8, FaultBound
         DEF EnsureAtBoot, EnsureAtBootUnread, FaultKinds, TypeOK
    <2>3. TypeOK'
      BY <2>1, <2>2 DEF TypeOK, Goto, Loop,
         disk, memory, pass, metrics, history, ledgerVars
    <2>4. KnownInv' /\ SavedInv' /\ PassInv'
      BY <2>1 DEF KnownInv, SavedInv, PassInv, Goto, Running, Loop,
         disk, memory, pass, ledgerVars
    <2> QED
      BY <2>3, <2>4
  <1>9. CASE EnsureAtBootFails
    <2>1. faults' \in 0 .. MaxFaults
      BY <1>9 DEF EnsureAtBootFails, NoFault, TypeOK
    <2> QED
      BY <1>9, <2>1, ExitKeeps DEF EnsureAtBootFails, Down, TypeOK
  <1> QED
    BY <1>2, <1>3, <1>4, <1>5, <1>6, <1>7, <1>8, <1>9 DEF Booting

-----------------------------------------------------------------------------
(* A pass of the loop. *)

(* The end of a pass, or the hand-over to handleEpochtransition. *)
LEMMA AfterSlotsKeeps ==
    ASSUME CursorInv, NEW c \in Slots, slot <= c, c <= PassEnd,
           epochTransition => FirstSlot(epoch + 1) <= c,
           epoch <= EpochOf(blk),
           AfterSlots, epoch' = epoch, slot' = c,
           \/ db' = db
           \/ db' = [epoch |-> epoch, slot |-> c],
           rows' = rows, faults' \in 0 .. MaxFaults,
           UNCHANGED <<metrics, history>>, Running
    PROVE  CursorInv'
  <1> USE DEF CursorInv
  <1>1. /\ 0 \in Slots /\ 0 \in Epochs /\ EpochOf(tip) \in Nat /\ tip \in Nat
        /\ slot \in Nat /\ c \in Nat /\ epoch \in Nat /\ epoch \in Epochs
        /\ blk \in Nat
        /\ chain' = chain /\ tip' = tip
    BY SlotsAreNat, Numbers, EpochBounds
       DEF TypeOK, AfterSlots, ToIdle, Goto, ledgerVars
  <1>2. /\ PassEnd \in Nat /\ PassEnd <= tip
        /\ PassEnd <= FirstSlot(epoch + 1) /\ FirstSlot(epoch + 1) \in Nat
    BY <1>1, PassEndBehindTip, PassEndInEpoch, FirstSlotNat
  <1>3. c <= tip /\ c <= FirstSlot(epoch + 1) /\ epoch <= EpochOf(tip)
    BY <1>1, <1>2 DEF KnownInv
  <1>4. db' \in Cursors
    BY <1>1 DEF TypeOK, Cursors
  <1>5. TypeOK'
    BY <1>1, <1>4 DEF TypeOK, AfterSlots, ToIdle, Goto, Loop,
       metrics, history, ledgerVars
  <1>6. KnownInv'
    BY <1>1 DEF KnownInv, AfterSlots, ToIdle, Goto, ledgerVars
  <1>7. SavedInv'
    BY <1>1, <1>3, Numbers DEF SavedInv
  <1>8. PassInv'
    BY <1>1, <1>3 DEF PassInv, AfterSlots, ToIdle, Goto, epochTransition, ledgerVars
  <1> QED
    BY <1>5, <1>6, <1>7, <1>8

(* Every step of a pass of the polling loop keeps CursorInv. *)
LEMMA PassingKeeps ==
    ASSUME CursorInv, Passing
    PROVE  CursorInv'
  <1> USE DEF CursorInv
  <1>1. /\ tip \in Nat /\ EpochOf(tip) \in Nat /\ slot \in Nat /\ epoch \in Nat
        /\ blk \in Nat /\ cur \in Nat /\ last \in Nat /\ tip \in Slots
    BY Numbers, EpochBounds DEF TypeOK
  <1>2. faults' \in 0 .. MaxFaults
    BY FaultBound
       DEF Passing, Tick, NextSlotLeaders, NextSlotLeadersFails,
           NextSlotLeadersPanics, ScanStarts, NothingToScan, BlockfrostFails,
           ProcessPoolSlot, ProcessPoolSlotPanics, ProcessPoolSlotFails,
           SaveSlot, FaultKinds, TypeOK
  <1>3. CASE Tick
    <2>1. TypeOK'
      BY <1>1, <1>2, <1>3 DEF Tick, TypeOK, Goto, GetLatestBlock, Loop,
         disk, memory, metrics, history, ledgerVars
    <2>2. KnownInv' /\ SavedInv' /\ PassInv'
      BY <1>1, <1>3 DEF Tick, KnownInv, SavedInv, PassInv, Goto, Running, Loop,
         GetLatestBlock, disk, memory, ledgerVars
    <2> QED
      BY <2>1, <2>2
  <1>4. CASE NextSlotLeaders
    <2>1. TypeOK'
      BY <1>2, <1>4 DEF NextSlotLeaders, TypeOK, Goto, Loop,
         disk, memory, pass, metrics, history, ledgerVars
    <2>2. KnownInv' /\ SavedInv' /\ PassInv'
      BY <1>4 DEF NextSlotLeaders, KnownInv, SavedInv, PassInv, Goto, Running,
         Loop, disk, memory, pass, ledgerVars
    <2> QED
      BY <2>1, <2>2
  <1>5. CASE NextSlotLeadersFails
    BY <1>2, <1>5, ToIdleKeeps
       DEF NextSlotLeadersFails, TypeOK, Running, Loop, disk, metrics
  <1>6. CASE NextSlotLeadersPanics
    BY <1>2, <1>6, ExitKeeps DEF NextSlotLeadersPanics, Down, TypeOK
  <1>7. CASE ScanStarts
    <2>1. /\ pc = "scan" /\ slot + 1 <= PassEnd
          /\ cur' = slot + 1 /\ last' = PassEnd /\ todo' = Pools
      BY <1>7, EndOfPass DEF ScanStarts, SlotsLeft
    <2>2. PassEnd \in Nat /\ PassEnd <= tip
      BY <1>1, PassEndBehindTip
    <2>3. cur' \in Slots /\ last' \in Slots
      BY <1>1, <2>1, <2>2, SlotsAreNat, FirstSlotNat
    <2>4. TypeOK'
      BY <1>2, <1>7, <2>1, <2>3 DEF ScanStarts, TypeOK, Goto, Loop,
         disk, memory, metrics, history, ledgerVars
    <2>5. KnownInv' /\ SavedInv'
      BY <1>7 DEF ScanStarts, KnownInv, SavedInv, Goto, Running, Loop,
         disk, memory, ledgerVars
    <2>6. PassInv'
      BY <1>1, <1>7, <2>1, <2>2, ElectionAssumption DEF ScanStarts, PassInv, PassEnd,
         epochTransition, Goto, Running, Loop, disk, memory, ledgerVars
    <2> QED
      BY <2>4, <2>5, <2>6
  <1>8. CASE NothingToScan
    <2>1. /\ pc = "scan" /\ epoch <= EpochOf(blk) /\ Running
          /\ ~(slot + 1 <= PassEnd)
      BY <1>8, EndOfPass DEF NothingToScan, SlotsLeft, PassInv, Running, Loop
    <2>2. PassEnd \in Nat
      BY PassEndBehindTip
    <2>3. CASE epochTransition
      <3>1. PassEnd = FirstSlot(epoch + 1) /\ slot <= FirstSlot(epoch + 1)
        BY <2>1, <2>3 DEF PassEnd, PassInv
      <3>2. slot = PassEnd
        BY <1>1, <2>1, <2>2, <3>1
      <3> QED
        BY <1>1, <1>2, <1>8, <2>1, <2>2, <3>1, <3>2, AfterSlotsKeeps
           DEF NothingToScan, disk, memory, TypeOK
    <2>4. CASE ~epochTransition
      BY <1>2, <1>8, <2>1, <2>4, ToIdleKeeps
         DEF NothingToScan, AfterSlots, disk, metrics, TypeOK
    <2> QED
      BY <2>3, <2>4
  <1>9. CASE BlockfrostFails
    BY <1>2, <1>9, ToIdleKeeps
       DEF BlockfrostFails, TypeOK, Running, Loop, disk, metrics
  <1>10. ASSUME NEW p \in Pools, ProcessPoolSlot(p) PROVE CursorInv'
    <2>1. pc = "slots" /\ p \in todo /\ slot < cur /\ cur <= last /\ last <= tip
      <3>1. last = PassEnd
        BY <1>10 DEF ProcessPoolSlot, PassInv
      <3> QED
        BY <1>1, <1>10, <3>1, PassEndBehindTip DEF ProcessPoolSlot, PassInv
    <2>2. /\ tally' \in [Epochs -> [Pools -> [Verdicts -> Nat]]]
          /\ streak' \in [Epochs -> [Pools -> Nat]]
          /\ judged' \subseteq Judgment
          /\ ever' \subseteq Pools \X Slots
      <3>1. CASE Record(p, cur, Outcome(p, cur))
        BY <3>1, OutcomeType, RecordType DEF TypeOK
      <3>2. CASE UNCHANGED <<metrics, judged, ever>>
        BY <3>2 DEF TypeOK, metrics
      <3> QED
        BY <1>10, <3>1, <3>2 DEF ProcessPoolSlot
    <2>3. /\ pc' \in {"slots", "save"} /\ todo' \subseteq Pools
          /\ cur' \in Nat /\ cur <= cur' /\ cur' <= last
          /\ pc' = "save" => cur' = last
          /\ pc' = "slots" => todo' # {}
          /\ UNCHANGED <<ledgerVars, healthy, ahead>>
      <3>1. Advance(p)
        BY <1>10 DEF ProcessPoolSlot
      <3>2. CASE todo \ {p} # {}
        BY <1>1, <2>1, <3>1, <3>2 DEF Advance, Goto, TypeOK
      <3>3. CASE todo \ {p} = {} /\ cur < last
        BY <1>1, <2>1, <3>1, <3>3, ElectionAssumption DEF Advance, Goto
      <3>4. CASE todo \ {p} = {} /\ ~(cur < last)
        BY <1>1, <2>1, <3>1, <3>4 DEF Advance, Goto
      <3> QED
        BY <3>2, <3>3, <3>4
    <2>4. cur' \in Slots
      BY <1>1, <2>1, <2>3, SlotsAreNat, FirstSlotNat
    <2>5. TypeOK'
      BY <1>2, <1>10, <2>2, <2>3, <2>4
         DEF ProcessPoolSlot, TypeOK, Loop, disk, memory, ledgerVars
    <2>6. KnownInv' /\ SavedInv'
      BY <1>10, <2>1, <2>3 DEF ProcessPoolSlot, KnownInv, SavedInv, Running,
         Loop, disk, memory, ledgerVars
    <2>7. PassInv'
      BY <1>1, <1>10, <2>1, <2>3 DEF ProcessPoolSlot, PassInv, PassEnd,
         epochTransition, Running, Loop, disk, memory, ledgerVars
    <2> QED
      BY <2>5, <2>6, <2>7
  <1>11. ASSUME NEW p \in Pools, ProcessPoolSlotPanics(p) PROVE CursorInv'
    BY <1>2, <1>11, ExitKeeps DEF ProcessPoolSlotPanics, Down, TypeOK
  <1>12. CASE ProcessPoolSlotFails
    <2>1. TypeOK'
      BY <1>2, <1>12 DEF ProcessPoolSlotFails, TypeOK, Goto, Loop,
         disk, memory, pass, metrics, ledgerVars
    <2>2. KnownInv' /\ SavedInv'
      BY <1>12 DEF ProcessPoolSlotFails, KnownInv, SavedInv, Goto, Running,
         Loop, disk, memory, pass, ledgerVars
    <2>3. PassInv'
      BY <1>12 DEF ProcessPoolSlotFails, PassInv, PassEnd, epochTransition,
         Goto, Running, Loop, disk, memory, pass, ledgerVars
    <2> QED
      BY <2>1, <2>2, <2>3
  <1>13. CASE SaveSlot
    <2>1. /\ pc = "save" /\ Running /\ slot < cur /\ cur <= last
          /\ last = PassEnd /\ epoch <= EpochOf(blk)
          /\ slot' = cur /\ epoch' = epoch /\ rows' = rows
          /\ cur \in Slots
          /\ db' = db \/ db' = [epoch |-> epoch, slot |-> cur]
      BY <1>13 DEF SaveSlot, SavedSlot, SavedRow, PassInv, Running, Loop, TypeOK
    <2>2. CASE todo = {}
      <3>1. AfterSlots /\ cur = PassEnd
        BY <1>13, <2>1, <2>2 DEF SaveSlot, PassInv
      <3>2. epochTransition => FirstSlot(epoch + 1) <= cur
        <4>1. FirstSlot(epoch + 1) \in Nat
          BY <1>1, FirstSlotNat
        <4> QED
          BY <3>1, <4>1 DEF PassEnd
      <3> QED
        BY <1>1, <1>2, <1>13, <2>1, <3>1, <3>2, AfterSlotsKeeps DEF SaveSlot
    <2>3. CASE todo # {}
      <3>1. ToIdle
        BY <1>13, <2>3 DEF SaveSlot
      <3>2. /\ 0 \in Slots /\ 0 \in Epochs /\ chain' = chain /\ tip' = tip
        BY <3>1, SlotsAreNat DEF ToIdle, Goto, ledgerVars
      <3>3. /\ PassEnd \in Nat /\ PassEnd <= tip
            /\ PassEnd <= FirstSlot(epoch + 1) /\ FirstSlot(epoch + 1) \in Nat
        BY <1>1, <2>1, PassEndBehindTip, PassEndInEpoch, FirstSlotNat
      <3>4. db' \in Cursors
        BY <2>1 DEF TypeOK, Cursors
      <3>5. TypeOK'
        BY <1>2, <1>13, <2>1, <3>1, <3>2, <3>4
           DEF SaveSlot, TypeOK, ToIdle, Goto, Loop, metrics, history, ledgerVars
      <3>6. KnownInv'
        BY <1>1, <2>1, <3>1, <3>2 DEF KnownInv, ToIdle
      <3>7. SavedInv'
        BY <1>1, <2>1, <3>2, <3>3, Numbers DEF SavedInv, KnownInv
      <3>8. PassInv'
        BY <1>1, <2>1, <3>1, <3>2, <3>3 DEF PassInv, ToIdle, Goto
      <3> QED
        BY <3>5, <3>6, <3>7, <3>8
    <2> QED
      BY <2>2, <2>3
  <1> QED
    BY <1>3, <1>4, <1>5, <1>6, <1>7, <1>8, <1>9, <1>10, <1>11, <1>12, <1>13
       DEF Passing

-----------------------------------------------------------------------------
(* The epoch transition. *)
LEMMA RollingKeeps ==
    ASSUME CursorInv, Rolling
    PROVE  CursorInv'
  <1> USE DEF CursorInv
  <1>1. /\ tip \in Nat /\ EpochOf(tip) \in Epochs /\ EpochOf(tip) \in Nat
        /\ slot \in Nat /\ epoch \in Nat /\ req \in Epochs /\ 0 \in Epochs
        /\ blk \in Nat
    BY Numbers, SlotsAreNat DEF TypeOK
  <1>2. faults' \in 0 .. MaxFaults
    BY FaultBound
       DEF Rolling, EnterEpoch, RefreshCurrent, LeaderLogsFails,
           RefreshCurrentFails, EnsureInEpoch, EnsureInEpochFails,
           FaultKinds, TypeOK
  <1>3. CASE EnterEpoch
    <2>1. /\ pc = "rollover" /\ epoch' = EpochOf(tip) /\ slot' = slot
          /\ chain' = chain /\ tip' = tip /\ rows' = rows
          /\ epoch <= EpochOf(tip)
          /\ FirstSlot(epoch + 1) <= slot /\ slot <= tip
          /\ epochTransition
          /\ db' = db \/ db' = [epoch |-> epoch', slot |-> slot]
      BY <1>3 DEF EnterEpoch, Goto, ToIdle, GetLatestEpoch, KnownInv, PassInv,
         Running, Loop, ledgerVars
    <2>2. FirstSlot(epoch + 1) \in Nat /\ FirstSlot(EpochOf(tip) + 1) \in Nat
      BY <1>1, FirstSlotNat
    <2>3. slot < FirstSlot(EpochOf(tip) + 1)
      BY <1>1, <2>1, <2>2, EpochBounds
    <2>4. waived' \subseteq Slots
      <3>1. FirstSlot(EpochOf(tip)) <= tip /\ FirstSlot(EpochOf(tip)) \in Nat
        BY <1>1, EpochBounds, FirstSlotNat
      <3>2. FirstSlot(epoch + 1) .. FirstSlot(epoch') - 1 \subseteq Slots
        BY <1>1, <2>1, <2>2, <3>1, SlotsAreNat, FirstSlotNat DEF TypeOK
      <3> QED
        BY <1>3, <3>2 DEF EnterEpoch, TypeOK
    <2>5. /\ req' \in Epochs /\ req' <= EpochOf(tip)
          /\ blk' \in Slots /\ blk' <= tip
          /\ cur' \in Slots /\ last' \in Slots /\ todo' \subseteq Pools
          /\ pc' \in {"idle", "reschedule"}
          /\ pc' = "reschedule" => req' = epoch'
          /\ ahead' = ahead /\ healthy' = healthy
      BY <1>1, <1>3, <2>1, SlotsAreNat
         DEF EnterEpoch, Goto, ToIdle, KnownInv, TypeOK
    <2>6. db' \in Cursors
      BY <1>1, <2>1 DEF TypeOK, Cursors
    <2>7. TypeOK'
      BY <1>1, <1>2, <1>3, <2>1, <2>4, <2>5, <2>6
         DEF EnterEpoch, TypeOK, Loop, metrics
    <2>8. KnownInv'
      BY <1>1, <2>1, <2>5 DEF KnownInv
    <2>9. SavedInv'
      BY <1>1, <2>1, <2>2, <2>3, Numbers DEF SavedInv, Running, Loop
    <2>10. PassInv'
      BY <1>1, <2>1, <2>2, <2>3, <2>5 DEF PassInv
    <2> QED
      BY <2>7, <2>8, <2>9, <2>10
  <1>4. CASE RefreshCurrent
    <2>1. rows' \subseteq Epochs \X Pools
      BY <1>1, <1>4, RowsType DEF RefreshCurrent
    <2>2. TypeOK'
      BY <1>2, <1>4, <2>1 DEF RefreshCurrent, TypeOK, Goto, Loop,
         memory, pass, metrics, history, ledgerVars
    <2>3. KnownInv' /\ SavedInv' /\ PassInv'
      BY <1>4 DEF RefreshCurrent, KnownInv, SavedInv, PassInv, Goto, Running,
         Loop, memory, pass, ledgerVars
    <2> QED
      BY <2>2, <2>3
  <1>5. CASE LeaderLogsFails
    <2>1. rows' \subseteq Epochs \X Pools
      BY <1>1, <1>5, RowsType DEF LeaderLogsFails
    <2> QED
      BY <1>2, <1>5, <2>1, ExitKeeps DEF LeaderLogsFails, Down
  <1>6. CASE RefreshCurrentFails
    <2>1. rows' \subseteq Epochs \X Pools
      BY <1>1, <1>6, RowsType DEF RefreshCurrentFails
    <2> QED
      BY <1>2, <1>6, <2>1, ToIdleKeeps
         DEF RefreshCurrentFails, TypeOK, Running, Loop, metrics
  <1>7. CASE EnsureInEpoch
    <2>1. NoTally \in [Epochs -> [Pools -> [Verdicts -> Nat]]]
      BY DEF NoTally
    <2> QED
      BY <1>2, <1>7, <2>1, ToIdleKeeps
         DEF EnsureInEpoch, initMetrics, TypeOK, Running, Loop, disk
  <1>8. CASE EnsureInEpochFails
    BY <1>2, <1>8, ToIdleKeeps
       DEF EnsureInEpochFails, TypeOK, Running, Loop, disk, metrics
  <1> QED
    BY <1>3, <1>4, <1>5, <1>6, <1>7, <1>8 DEF Rolling

(* The scheduler, the status watcher: the cursor is not theirs. *)
LEMMA OthersKeep ==
    ASSUME CursorInv, Scheduling \/ HealthChanges \/ UNCHANGED vars
    PROVE  CursorInv'
  <1>1. UNCHANGED <<chain, tip, db, memory, pass, pc>>
    BY DEF Scheduling, SchedulerTick, SchedulerDone, RefreshNext,
       HealthChanges, ledgerVars, disk, vars
  <1>2. TypeOK'
    <2>1. CASE SchedulerTick \/ SchedulerDone
      BY <2>1 DEF SchedulerTick, SchedulerDone, NoFault, CursorInv, TypeOK,
         ledgerVars, disk, memory, pass, metrics, history
    <2>2. ASSUME NEW p \in Pools, RefreshNext(p) PROVE TypeOK'
      <3>1. ahead \in Epochs
        BY <2>2 DEF RefreshNext, CursorInv, TypeOK
      <3>2. rows' \subseteq Epochs \X Pools
        BY <2>2, <3>1, RowsType DEF RefreshNext, CursorInv
      <3> QED
        BY <2>2, <3>2 DEF RefreshNext, NoFault, CursorInv, TypeOK,
           ledgerVars, memory, pass, metrics, history
    <2>3. CASE HealthChanges
      <3>1. faults' \in 0 .. MaxFaults
        BY <2>3, FaultBound DEF HealthChanges, FaultKinds, CursorInv, TypeOK
      <3> QED
        BY <2>3, <3>1 DEF HealthChanges, CursorInv, TypeOK,
           ledgerVars, disk, memory, pass, metrics, history
    <2>4. CASE UNCHANGED vars
      BY <2>4 DEF CursorInv, TypeOK, vars, ledgerVars, disk, memory, pass,
         metrics, history
    <2> QED
      BY <2>1, <2>2, <2>3, <2>4 DEF Scheduling
  <1> QED
    BY <1>1, <1>2, QuietKeeps

(* CursorInv is inductive: one case per group of actions. *)
LEMMA CursorStep == CursorInv /\ [Next]_vars => CursorInv'
  <1> SUFFICES ASSUME CursorInv, [Next]_vars PROVE CursorInv'
    OBVIOUS
  <1>1. CASE Kill
    <2>1. faults' \in 0 .. MaxFaults
      BY <1>1, FaultBound DEF Kill, FaultKinds, CursorInv, TypeOK
    <2> QED
      BY <1>1, <2>1, ExitKeeps DEF Kill, Down, CursorInv, TypeOK
  <1> QED
    BY <1>1, NewBlockKeeps, BootingKeeps, PassingKeeps, RollingKeeps,
       OthersKeep DEF Next

(* The inductive invariant holds in every reachable state. *)
THEOREM CursorInvariant == Spec => []CursorInv
  <1> QED
    BY CursorInit, CursorStep, PTL DEF Spec

(* Every variable has its type: in particular no epoch or slot is ever     *)
(* beyond what Blockfrost has shown.                                       *)
THEOREM TypeCorrect == Spec => []TypeOK
  <1>1. CursorInv => TypeOK
    BY DEF CursorInv
  <1> QED
    BY <1>1, CursorInvariant, PTL

(* The watcher never processes a slot whose block could still come, and    *)
(* leaves its epoch by no more than one slot.                              *)
THEOREM CursorSafe == Spec => []CursorBehindTip
  <1>1. CursorInv => CursorBehindTip
    <2> SUFFICES ASSUME CursorInv PROVE CursorBehindTip
      OBVIOUS
    <2>1. Running => slot <= tip /\ slot <= FirstSlot(epoch + 1)
      BY DEF CursorInv, PassInv
    <2>2. pc = "slots" => slot < cur /\ cur <= last /\ last = PassEnd
      BY DEF CursorInv, PassInv
    <2>3. PassEnd <= tip
      BY Numbers, PassEndBehindTip DEF CursorInv
    <2> QED
      BY <2>1, <2>2, <2>3 DEF CursorBehindTip
  <1> QED
    BY <1>1, CursorInvariant, PTL

(* A crash repeats work and loses none: what is saved is not ahead of what *)
(* is in memory.                                                           *)
THEOREM SavedIsBehind == Spec => []SavedNotAhead
  <1>1. CursorInv => SavedNotAhead
    BY DEF CursorInv, SavedInv, SavedNotAhead
  <1> QED
    BY <1>1, CursorInvariant, PTL

(* The saved cursor never moves back, over crashes and restarts too. *)
THEOREM SavedIsMonotone == Spec => SavedMonotone
  <1>1. CursorInv /\ [Next]_vars =>
          [db # NoState => db'.epoch >= db.epoch /\ db'.slot >= db.slot]_db
    <2> SUFFICES ASSUME CursorInv, [Next]_vars, db' # db, db # NoState
                 PROVE  db'.epoch >= db.epoch /\ db'.slot >= db.slot
      OBVIOUS
    <2>1. CursorInv'
      BY CursorStep
    <2>2. db.epoch \in Nat /\ db.slot \in Nat
      BY Numbers DEF CursorInv
    <2>3. CASE LoadAndReconcile
      <3>1. Loaded = db /\ db' = Reconciled /\ pc = "load"
        BY <2>3 DEF LoadAndReconcile, Loaded
      <3>2. Reconciled.epoch \in Nat /\ Reconciled.slot \in Nat
        BY <3>1, LoadedCursor, SlotsAreNat
      <3> QED
        BY <2>2, <3>1, <3>2, LoadedCursor
    <2>4. CASE SaveSlot
      <3>1. /\ db' = [epoch |-> epoch, slot |-> cur] /\ pc = "save" /\ Running
        BY <2>4 DEF SaveSlot, SavedRow, SavedSlot, Running, Loop
      <3>2. db.epoch <= epoch /\ db.slot <= slot /\ slot < cur
        BY <3>1 DEF CursorInv, SavedInv, PassInv
      <3>3. slot \in Nat /\ cur \in Nat /\ epoch \in Nat
        BY Numbers DEF CursorInv
      <3> QED
        BY <2>2, <3>1, <3>2, <3>3
    <2>5. CASE EnterEpoch
      <3>1. /\ db' = [epoch |-> EpochOf(tip), slot |-> slot] /\ Running
        BY <2>5 DEF EnterEpoch, GetLatestEpoch, Running, Loop
      <3>2. db.epoch <= EpochOf(tip) /\ db.slot <= slot
        BY <3>1 DEF CursorInv, SavedInv
      <3>3. slot \in Nat /\ EpochOf(tip) \in Nat
        BY Numbers, EpochBounds DEF CursorInv
      <3> QED
        BY <2>2, <3>1, <3>2, <3>3
    <2> QED
      BY <2>3, <2>4, <2>5
         DEF Next, Booting, Passing, Rolling, Scheduling, NewBlock, Kill,
             HealthChanges, Start, RefreshAtBoot, RefreshAtBootFails,
             InitState, BootFails, EnsureAtBoot, EnsureAtBootUnread,
             EnsureAtBootFails, Tick, NextSlotLeaders, NextSlotLeadersFails,
             NextSlotLeadersPanics, ScanStarts, NothingToScan,
             BlockfrostFails, ProcessPoolSlot, ProcessPoolSlotPanics,
             ProcessPoolSlotFails, RefreshCurrent, LeaderLogsFails,
             RefreshCurrentFails, EnsureInEpoch, EnsureInEpochFails,
             SchedulerTick, SchedulerDone, RefreshNext, Exit, disk, vars
  <1> QED
    BY <1>1, CursorInvariant, PTL DEF Spec, SavedMonotone

(* A pass in which no call failed ends where it had to: at the latest      *)
(* block, or at the next epoch, which it then enters.                      *)
THEOREM PassesComplete == Spec => PassesReach
  <1> DEFINE Ends  == /\ pc = "scan" \/ (pc = "save" /\ todo = {})
                      /\ pc' \in {"idle", "rollover"} /\ faults' = faults
             Moves == pc = "rollover" /\ pc' # "rollover" /\ faults' = faults
  <1>1. ASSUME CursorInv, Next
        PROVE  /\ Ends => slot' >= PassEnd
               /\ Moves => epoch' > epoch /\ epoch' >= EpochOf(blk)
    <2> USE <1>1
    <2>1. \A kind : Fault(kind) => faults' # faults
      BY FaultAssumption DEF Fault, CursorInv, TypeOK
    <2>2. Ends => NothingToScan \/ SaveSlot
      BY <2>1
         DEF Next, Booting, Passing, Rolling, Scheduling, NewBlock, Kill,
             HealthChanges, Start, RefreshAtBoot, RefreshAtBootFails,
             InitState, LoadAndReconcile, BootFails, EnsureAtBoot,
             EnsureAtBootUnread, EnsureAtBootFails, Tick, NextSlotLeaders,
             NextSlotLeadersFails, NextSlotLeadersPanics, ScanStarts,
             BlockfrostFails, ProcessPoolSlot, ProcessPoolSlotPanics,
             ProcessPoolSlotFails, EnterEpoch, RefreshCurrent,
             LeaderLogsFails, RefreshCurrentFails, EnsureInEpoch,
             EnsureInEpochFails, SchedulerTick, SchedulerDone, RefreshNext,
             Exit, Goto, Down
    <2>3. Moves => EnterEpoch
      BY <2>1
         DEF Next, Booting, Passing, Rolling, Scheduling, NewBlock, Kill,
             HealthChanges, Start, RefreshAtBoot, RefreshAtBootFails,
             InitState, LoadAndReconcile, BootFails, EnsureAtBoot,
             EnsureAtBootUnread, EnsureAtBootFails, Tick, NextSlotLeaders,
             NextSlotLeadersFails, NextSlotLeadersPanics, ScanStarts,
             NothingToScan, SaveSlot, BlockfrostFails, ProcessPoolSlot,
             ProcessPoolSlotPanics, ProcessPoolSlotFails, RefreshCurrent,
             LeaderLogsFails, RefreshCurrentFails, EnsureInEpoch,
             EnsureInEpochFails, SchedulerTick, SchedulerDone, RefreshNext,
             Goto, Down
    <2>4. ASSUME NothingToScan PROVE slot' >= PassEnd
      <3>1. slot' = slot /\ ~ (slot + 1 <= PassEnd)
        BY <2>4, EndOfPass DEF NothingToScan, SlotsLeft, memory
      <3> QED
        BY <3>1, Numbers, PassEndBehindTip DEF CursorInv
    <2>5. ASSUME SaveSlot, todo = {} PROVE slot' >= PassEnd
      <3>1. slot' = PassEnd
        BY <2>5 DEF SaveSlot, SavedSlot, CursorInv, PassInv
      <3> QED
        BY <3>1, PassEndBehindTip
    <2>6. ASSUME EnterEpoch PROVE epoch' > epoch /\ epoch' >= EpochOf(blk)
      <3>1. epoch' = EpochOf(tip) /\ EpochOf(blk) > epoch /\ blk <= tip
        BY <2>6 DEF EnterEpoch, GetLatestEpoch, CursorInv, PassInv, KnownInv,
           epochTransition
      <3>2. EpochOf(blk) <= EpochOf(tip)
        BY <3>1, Numbers, EpochMono DEF CursorInv
      <3>3. epoch \in Nat /\ EpochOf(blk) \in Nat /\ EpochOf(tip) \in Nat
        BY Numbers DEF CursorInv
      <3> QED
        BY <3>1, <3>2, <3>3
    <2>7. pc = "scan" => ~SaveSlot
      BY DEF SaveSlot
    <2> QED
      BY <2>2, <2>3, <2>4, <2>5, <2>6, <2>7
  <1>2. CursorInv /\ [Next]_vars =>
          [/\ Ends => slot' >= PassEnd
           /\ Moves => epoch' > epoch /\ epoch' >= EpochOf(blk)]_vars
    BY <1>1
  <1> QED
    BY <1>2, CursorInvariant, PTL DEF Spec, PassesReach

-----------------------------------------------------------------------------
(* The accounting: its inductive invariant, relative to that of the cursor.*)

(* What is past the cursor and in an epoch that is over will not be owed.  *)
NothingOwed(e, cursor) ==
    \A s \in Slots : cursor < s /\ EpochOf(s) < e => s \in waived

AccountInv ==
    /\ db # NoState => CoveredTo(db.slot) /\ NothingOwed(db.epoch, db.slot)
    /\ Running => CoveredTo(slot) /\ NothingOwed(epoch, slot)
    /\ pc = "slots" =>
          /\ \A p \in Pools, s \in Slots : s < cur => Accounted(p, s)
          /\ \A p \in Pools \ todo : Accounted(p, cur)
    /\ pc = "save" => CoveredTo(cur)
    /\ VerdictsTrue

(* A slot accounted for stays so while the history only grows. *)
LEMMA AccountedKept ==
    ASSUME ever \subseteq ever', waived \subseteq waived', origin' = origin
    PROVE  /\ \A p \in Pools, s \in Slots : Accounted(p, s) => Accounted(p, s)'
           /\ \A c : CoveredTo(c) => CoveredTo(c)'
           /\ \A e, c : NothingOwed(e, c) => NothingOwed(e, c)'
  BY DEF Accounted, Excused, CoveredTo, NothingOwed

(* A verdict stays true: the chain is append only. *)
LEMMA VerdictsKept ==
    ASSUME CursorInv, CursorInv', VerdictsTrue, chain' = chain, tip <= tip',
           judged' \subseteq judged
    PROVE  VerdictsTrue'
  BY Numbers, SlotsAreNat
     DEF VerdictsTrue, Truth, CursorInv, TypeOK, Judgment

(* Steps that neither move the cursor nor end a scan. *)
LEMMA StillKeeps ==
    ASSUME CursorInv, CursorInv', AccountInv,
           UNCHANGED <<db, memory, ever, waived, origin, chain>>,
           tip <= tip', judged' \subseteq judged, Running' => Running,
           \/ pc' \notin {"slots", "save"}
           \/ UNCHANGED <<pc, cur, todo>>
    PROVE  AccountInv'
  <1>1. VerdictsTrue'
    BY VerdictsKept DEF AccountInv
  <1>2. /\ \A p \in Pools, s \in Slots : Accounted(p, s) => Accounted(p, s)'
        /\ \A c : CoveredTo(c) => CoveredTo(c)'
        /\ \A e, c : NothingOwed(e, c) => NothingOwed(e, c)'
    BY AccountedKept
  <1>3. epoch' = epoch /\ slot' = slot /\ db' = db
    BY DEF memory
  <1>4. /\ db' # NoState =>
              CoveredTo(db.slot)' /\ NothingOwed(db.epoch, db.slot)'
        /\ Running' => CoveredTo(slot)' /\ NothingOwed(epoch, slot)'
    BY <1>2, <1>3 DEF AccountInv
  <1>5. CASE pc' \notin {"slots", "save"}
    BY <1>1, <1>4, <1>5 DEF AccountInv
  <1>6. CASE UNCHANGED <<pc, cur, todo>>
    <2>1. cur \in Slots
      BY DEF CursorInv, TypeOK
    <2> QED
      BY <1>1, <1>2, <1>4, <1>6, <2>1 DEF AccountInv
  <1> QED
    BY <1>5, <1>6

(* A slot of the pass the pool leads, and owes a verdict on, is one of the *)
(* epoch in memory: its schedule is the one that is asked.                 *)
LEMMA LeaderSlot ==
    ASSUME CursorInv, AccountInv, pc = "slots",
           NEW p \in Pools, cur \in Leads[p], ~Excused(cur)
    PROVE  isLeader(p)
  <1>1. /\ cur \in Slots /\ cur \in Nat /\ epoch \in Nat /\ slot < cur
        /\ cur <= last /\ last = PassEnd /\ epoch <= EpochOf(blk) /\ Running
        /\ EpochOf(cur) \in Nat /\ last \in Nat
    BY Numbers, EpochBounds DEF CursorInv, PassInv, TypeOK, Running, Loop
  <1>2. PassEnd <= FirstSlot(epoch + 1) /\ FirstSlot(epoch + 1) \in Nat
    BY <1>1, PassEndInEpoch, FirstSlotNat
  <1>3. ~(EpochOf(cur) < epoch)
    BY <1>1 DEF AccountInv, NothingOwed, Excused
  <1>4. ASSUME epoch < EpochOf(cur) PROVE FALSE
    <2>1. FirstSlot(epoch + 1) <= cur
      BY <1>1, <1>4, LaterEpoch
    <2>2. cur = FirstSlot(epoch + 1)
      BY <1>1, <1>2, <2>1
    <2>3. cur < FirstSlot((epoch + 1) + 1)
      BY <1>1, <2>2, FirstSlotNat
    <2>4. EpochOf(cur) = epoch + 1
      BY <1>1, <2>1, <2>3, EpochUnique
    <2> QED
      BY <2>2, <2>4 DEF Excused
  <1>5. EpochOf(cur) = epoch
    BY <1>1, <1>3, <1>4
  <1> QED
    BY <1>5 DEF isLeader, Schedule

(* Loading the cursor excuses exactly the slots it jumps over. *)
LEMMA LoadAccounts ==
    ASSUME CursorInv, CursorInv', AccountInv, LoadAndReconcile
    PROVE  AccountInv'
  <1>1. /\ pc = "load" /\ pc' = "ensure"
        /\ epoch' = Reconciled.epoch /\ slot' = Reconciled.slot
        /\ waived \subseteq waived' /\ ever' = ever
        /\ db' = IF Behind THEN Reconciled ELSE db
        /\ chain' = chain /\ tip' = tip /\ judged' = judged
    BY DEF LoadAndReconcile, Goto, ledgerVars
  <1>2. VerdictsTrue'
    BY <1>1, VerdictsKept, Numbers DEF AccountInv, CursorInv
  <1>3. /\ Loaded.slot \in Nat /\ Loaded.epoch \in Nat /\ Loaded.slot \in Slots
        /\ slot' \in Nat /\ epoch' \in Nat /\ tip \in Nat
    BY <1>1, LoadedCursor, SlotsAreNat, Numbers DEF CursorInv
  <1>4. \A s \in Slots : s \in Nat /\ EpochOf(s) \in Nat
    BY SlotsAreNat, EpochBounds
  <1>5. CASE db = NoState
    <2>1. /\ Loaded = [epoch |-> EpochOf(tip), slot |-> tip]
          /\ origin' = tip /\ req <= EpochOf(tip) /\ req \in Nat
          /\ EpochOf(tip) \in Nat
      BY <1>3, <1>5, Numbers, EpochBounds
         DEF Loaded, GetLatestBlock, LoadAndReconcile, CursorInv, KnownInv
    <2>2. ~Behind /\ slot' = tip /\ epoch' = EpochOf(tip) /\ db' = NoState
      BY <1>1, <1>5, <2>1 DEF Behind, Reconciled
    <2>3. CoveredTo(slot)'
      BY <1>3, <1>4, <2>1, <2>2 DEF CoveredTo, Accounted
    <2>4. NothingOwed(epoch, slot)'
      BY <1>3, <1>4, <2>1, <2>2, EpochMono DEF NothingOwed
    <2> QED
      BY <1>1, <1>2, <2>2, <2>3, <2>4 DEF AccountInv
  <1>6. CASE db # NoState
    <2>1. Loaded = db /\ origin' = origin
      BY <1>6 DEF Loaded, LoadAndReconcile
    <2>2. /\ \A c : CoveredTo(c) => \A p \in Pools, s \in Slots :
                                       s <= c => Accounted(p, s)'
          /\ \A e, c : NothingOwed(e, c) => NothingOwed(e, c)'
      BY <1>1, <2>1, AccountedKept DEF CoveredTo
    <2>3. /\ \A p \in Pools, s \in Slots : s <= Loaded.slot => Accounted(p, s)'
          /\ NothingOwed(Loaded.epoch, Loaded.slot)
      BY <1>6, <2>1, <2>2 DEF AccountInv
    <2>4. CASE Behind
      <3>1. /\ db' = Reconciled
            /\ waived' = waived \cup (Loaded.slot + 1) .. Reconciled.slot
        BY <1>1, <2>4 DEF LoadAndReconcile
      <3>2. \A s \in Slots : Loaded.slot < s /\ s <= slot' => s \in waived'
        BY <1>1, <1>3, <1>4, <3>1
      <3>3. CoveredTo(slot)'
        <4> SUFFICES ASSUME NEW p \in Pools, NEW s \in Slots, s <= slot'
                     PROVE  Accounted(p, s)'
          BY DEF CoveredTo
        <4>1. CASE s <= Loaded.slot
          BY <2>3, <4>1
        <4>2. CASE Loaded.slot < s
          BY <3>2, <4>2 DEF Accounted, Excused
        <4> QED
          BY <1>3, <1>4, <4>1, <4>2
      <3>4. NothingOwed(epoch, slot)'
        <4>1. EpochOf(slot') = epoch'
          BY <1>1, <2>4, LoadedCursor
        <4> QED
          BY <1>3, <1>4, <4>1, EpochMono DEF NothingOwed
      <3>5. db'.slot = slot' /\ db'.epoch = epoch'
        BY <1>1, <3>1
      <3> QED
        BY <1>1, <1>2, <3>3, <3>4, <3>5 DEF AccountInv, CoveredTo, NothingOwed
    <2>5. CASE ~Behind
      <3>1. slot' = db.slot /\ epoch' = db.epoch /\ db' = db
        BY <1>1, <2>1, <2>5 DEF Reconciled
      <3>2. CoveredTo(slot)' /\ NothingOwed(epoch, slot)'
        BY <2>1, <2>2, <2>3, <3>1 DEF CoveredTo, NothingOwed
      <3> QED
        BY <1>1, <1>2, <3>1, <3>2 DEF AccountInv, CoveredTo, NothingOwed
    <2> QED
      BY <2>4, <2>5
  <1> QED
    BY <1>5, <1>6

(* Processing a slot for a pool gives the verdict that pool is owed. *)
LEMMA ProcessPoolSlotAccounts ==
    ASSUME CursorInv, CursorInv', AccountInv, NEW q \in Pools,
           ProcessPoolSlot(q)
    PROVE  AccountInv'
  <1>1. /\ pc = "slots" /\ q \in todo /\ cur \in Slots /\ cur \in Nat
        /\ slot < cur /\ cur <= last /\ last <= tip /\ tip \in Nat
        /\ last \in Nat /\ Running
    <2>1. pc = "slots" /\ q \in todo
      BY DEF ProcessPoolSlot
    <2>2. last = PassEnd /\ slot < cur /\ cur <= last
      BY <2>1 DEF CursorInv, PassInv
    <2> QED
      BY <2>1, <2>2, PassEndBehindTip, Numbers
         DEF CursorInv, TypeOK, Running, Loop
  <1>2. /\ UNCHANGED <<chain, tip, db, epoch, slot, waived, origin>>
        /\ ever \subseteq ever'
    BY DEF ProcessPoolSlot, Advance, Goto, Record, ledgerVars, disk, memory
  <1>3. /\ \A p \in Pools, s \in Slots : Accounted(p, s) => Accounted(p, s)'
        /\ \A c : CoveredTo(c) => CoveredTo(c)'
        /\ \A e, c : NothingOwed(e, c) => NothingOwed(e, c)'
    BY <1>2, AccountedKept
  <1>4. Accounted(q, cur) \/ <<q, cur>> \in ever'
    <2> SUFFICES ASSUME cur \in Leads[q], ~Excused(cur)
                 PROVE  <<q, cur>> \in ever'
      BY DEF Accounted
    <2>1. isLeader(q)
      BY <1>1, LeaderSlot
    <2> QED
      BY <2>1 DEF ProcessPoolSlot, Record
  <1>5. ASSUME NEW s, s = cur PROVE Accounted(q, s)'
    BY <1>2, <1>4, <1>5 DEF Accounted, Excused
  <1>6. \A p \in Pools \ todo, s \in Slots : s = cur => Accounted(p, s)'
    BY <1>1, <1>3 DEF AccountInv
  <1>7. \A p \in Pools, s \in Slots : s < cur => Accounted(p, s)'
    BY <1>1, <1>3 DEF AccountInv
  <1>8. VerdictsTrue'
    <2>1. CASE isLeader(q) /\ Record(q, cur, Outcome(q, cur))
      <3>1. judged' = judged \cup {[pool |-> q, slot |-> cur,
                         epoch |-> epoch, verdict |-> Outcome(q, cur)]}
        BY <2>1 DEF Record
      <3>2. cur \in Leads[q] /\ EpochOf(cur) = epoch
        BY <2>1 DEF isLeader, Schedule
      <3>3. Outcome(q, cur) = Truth(q, cur)
        BY <1>1, ChainAssumption DEF Outcome, Truth, GetBlockBySlot
      <3> QED
        BY <1>1, <1>2, <3>1, <3>2, <3>3 DEF VerdictsTrue, Truth, AccountInv
    <2>2. CASE UNCHANGED <<metrics, judged, ever>>
      BY <1>1, <1>2, <2>2, VerdictsKept DEF AccountInv
    <2> QED
      BY <2>1, <2>2 DEF ProcessPoolSlot
  <1>9. /\ db' # NoState =>
              CoveredTo(db.slot)' /\ NothingOwed(db.epoch, db.slot)'
        /\ Running' => CoveredTo(slot)' /\ NothingOwed(epoch, slot)'
    BY <1>1, <1>2, <1>3 DEF AccountInv
  <1>10. Advance(q)
    BY DEF ProcessPoolSlot
  <1>11. CASE todo \ {q} # {}
    <2>1. pc' = "slots" /\ cur' = cur /\ todo' = todo \ {q}
      BY <1>10, <1>11 DEF Advance, Goto
    <2> QED
      BY <1>1, <1>5, <1>6, <1>7, <1>8, <1>9, <2>1 DEF AccountInv
  <1>12. CASE todo \ {q} = {}
    <2>1. \A p \in Pools, s \in Slots : s <= cur => Accounted(p, s)'
      BY <1>1, <1>5, <1>6, <1>7, <1>12, SlotsAreNat
    <2>2. CASE cur < last
      <3>1. pc' = "slots" /\ cur' = cur + 1 /\ todo' = Pools
        BY <1>1, <1>10, <1>12, <2>2 DEF Advance, Goto
      <3>2. \A p \in Pools, s \in Slots : s < cur' => Accounted(p, s)'
        BY <1>1, <2>1, <3>1, SlotsAreNat
      <3> QED
        BY <1>8, <1>9, <3>1, <3>2 DEF AccountInv
    <2>3. CASE ~(cur < last)
      <3>1. pc' = "save" /\ cur' = cur
        BY <1>10, <1>12, <2>3 DEF Advance, Goto
      <3> QED
        BY <1>8, <1>9, <2>1, <3>1 DEF AccountInv, CoveredTo
    <2> QED
      BY <2>2, <2>3
  <1> QED
    BY <1>11, <1>12

(* Starting a scan, a scan that fails and the saving of its end keep the account. *)
LEMMA ScanAccounts ==
    ASSUME CursorInv, CursorInv', AccountInv,
           ScanStarts \/ ProcessPoolSlotFails \/ SaveSlot
    PROVE  AccountInv'
  <1>1. /\ waived \subseteq waived' /\ UNCHANGED <<ever, judged, origin, ledgerVars>>
        /\ epoch' = epoch /\ Running /\ chain' = chain /\ tip' = tip
    BY DEF ScanStarts, ProcessPoolSlotFails, SaveSlot, AfterSlots, ToIdle, Goto,
       history, memory, ledgerVars, Running, Loop
  <1>2. VerdictsTrue'
    BY <1>1, VerdictsKept, Numbers DEF AccountInv, CursorInv
  <1>3. /\ \A p \in Pools, s \in Slots : Accounted(p, s) => Accounted(p, s)'
        /\ \A c : CoveredTo(c) => CoveredTo(c)'
        /\ \A e, c : NothingOwed(e, c) => NothingOwed(e, c)'
    BY <1>1, AccountedKept
  <1>4. slot \in Nat /\ cur \in Nat /\ \A s \in Slots : s \in Nat
    BY Numbers DEF CursorInv
  <1>5. CASE ScanStarts
    <2>1. pc' = "slots" /\ cur' = slot + 1 /\ todo' = Pools /\ slot' = slot /\ db' = db
      BY <1>5 DEF ScanStarts, Goto, disk, memory
    <2>2. \A p \in Pools, s \in Slots : s < cur' => Accounted(p, s)'
      BY <1>1, <1>3, <1>4, <2>1 DEF AccountInv, CoveredTo
    <2> QED
      BY <1>1, <1>2, <1>3, <2>1, <2>2 DEF AccountInv
  <1>6. CASE ProcessPoolSlotFails
    <2>1. /\ pc = "slots" /\ pc' = "save" /\ cur' = cur /\ slot' = slot /\ db' = db
          /\ waived' = waived \cup {cur}
      BY <1>6 DEF ProcessPoolSlotFails, Goto, disk, memory, pass
    <2>2. \A p \in Pools, s \in Slots : s < cur => Accounted(p, s)'
      BY <1>3, <2>1 DEF AccountInv
    <2>3. \A p \in Pools, s \in Slots : s = cur => Accounted(p, s)'
      BY <2>1 DEF Accounted, Excused
    <2>4. CoveredTo(cur)'
      BY <1>4, <2>1, <2>2, <2>3 DEF CoveredTo
    <2> QED
      BY <1>1, <1>2, <1>3, <2>1, <2>4 DEF AccountInv
  <1>7. CASE SaveSlot
    <2>1. /\ pc = "save" /\ slot' = cur /\ pc' \in {"idle", "rollover"}
          /\ slot < cur
          /\ db' = db \/ db' = [epoch |-> epoch, slot |-> cur]
      BY <1>7 DEF SaveSlot, SavedSlot, SavedRow, AfterSlots, ToIdle, Goto,
         CursorInv, PassInv
    <2>2. CoveredTo(cur) /\ NothingOwed(epoch, cur)
      BY <1>1, <1>4, <2>1, Numbers DEF AccountInv, NothingOwed, CursorInv
    <2>3. CoveredTo(slot)' /\ NothingOwed(epoch, slot)'
      BY <1>1, <1>3, <2>1, <2>2 DEF CoveredTo, NothingOwed
    <2>4. db' # NoState => CoveredTo(db.slot)' /\ NothingOwed(db.epoch, db.slot)'
      <3>1. CASE db' = db
        BY <1>3, <3>1 DEF AccountInv, CoveredTo, NothingOwed
      <3>2. CASE db' = [epoch |-> epoch, slot |-> cur]
        BY <1>1, <2>1, <2>3, <3>2 DEF CoveredTo, NothingOwed
      <3> QED
        BY <2>1, <3>1, <3>2
    <2> QED
      BY <1>2, <2>1, <2>3, <2>4 DEF AccountInv
  <1> QED
    BY <1>5, <1>6, <1>7

(* Entering an epoch excuses the epochs that are jumped over. *)
LEMMA EnterEpochAccounts ==
    ASSUME CursorInv, CursorInv', AccountInv, EnterEpoch
    PROVE  AccountInv'
  <1>1. /\ pc = "rollover" /\ pc' \in {"idle", "reschedule"} /\ Running
        /\ slot' = slot /\ epoch' = EpochOf(tip)
        /\ db' = db \/ db' = [epoch |-> epoch', slot |-> slot']
        /\ waived' = waived \cup FirstSlot(epoch + 1) .. FirstSlot(epoch') - 1
        /\ UNCHANGED <<ever, judged, origin, chain, tip>>
    BY DEF EnterEpoch, GetLatestEpoch, ToIdle, Goto, Running, Loop, ledgerVars
  <1>2. VerdictsTrue'
    BY <1>1, VerdictsKept, Numbers DEF AccountInv, CursorInv
  <1>3. /\ \A p \in Pools, s \in Slots : Accounted(p, s) => Accounted(p, s)'
        /\ \A c : CoveredTo(c) => CoveredTo(c)'
        /\ \A e, c : NothingOwed(e, c) => NothingOwed(e, c)'
    BY <1>1, AccountedKept
  <1>4. /\ slot \in Nat /\ epoch \in Nat /\ epoch' \in Nat
        /\ FirstSlot(epoch + 1) \in Nat /\ FirstSlot(epoch') \in Nat
        /\ FirstSlot(epoch + 1) <= slot
    BY <1>1, Numbers, EpochBounds, FirstSlotNat DEF CursorInv, PassInv
  <1>5. NothingOwed(epoch, slot)'
    <2> SUFFICES ASSUME NEW s \in Slots, slot < s, EpochOf(s) < epoch'
                 PROVE  s \in waived'
      BY <1>1 DEF NothingOwed
    <2>1. s \in Nat /\ EpochOf(s) \in Nat
      BY SlotsAreNat, EpochBounds
    <2>2. s < FirstSlot(EpochOf(s) + 1) /\ FirstSlot(EpochOf(s) + 1) \in Nat
      BY <2>1, EpochBounds, FirstSlotNat
    <2>3. FirstSlot(EpochOf(s) + 1) <= FirstSlot(epoch')
      BY <1>4, <2>1, FirstSlotMono
    <2> QED
      BY <1>1, <1>4, <2>1, <2>2, <2>3
  <1>6. CoveredTo(slot)'
    BY <1>1, <1>3 DEF AccountInv, CoveredTo
  <1>7. db' # NoState => CoveredTo(db.slot)' /\ NothingOwed(db.epoch, db.slot)'
    <2>1. CASE db' = db
      BY <1>3, <2>1 DEF AccountInv, CoveredTo, NothingOwed
    <2>2. CASE db' = [epoch |-> epoch', slot |-> slot']
      BY <1>5, <1>6, <2>2 DEF CoveredTo, NothingOwed
    <2> QED
      BY <1>1, <2>1, <2>2
  <1> QED
    BY <1>1, <1>2, <1>5, <1>6, <1>7 DEF AccountInv

(* Before the first boot no slot is owed a verdict. *)
LEMMA AccountInit == Init => AccountInv
  BY DEF Init, AccountInv, VerdictsTrue, Running, Loop

(* AccountInv is inductive relative to CursorInv. *)
LEMMA AccountStep == CursorInv /\ CursorInv' /\ AccountInv /\ [Next]_vars => AccountInv'
  <1> SUFFICES ASSUME CursorInv, CursorInv', AccountInv, [Next]_vars
               PROVE  AccountInv'
    OBVIOUS
  <1>1. CASE NewBlock
    <2>1. chain' = chain /\ tip <= tip'
      BY <1>1, Numbers, SlotsAreNat DEF NewBlock, Extend, NextBlocks, CursorInv
    <2> QED
      BY <1>1, <2>1, StillKeeps
         DEF NewBlock, disk, memory, pass, history, Running
  <1>2. ASSUME NEW how \in Down, Exit(how) PROVE AccountInv'
    <2>1. CursorInv /\ VerdictsTrue' /\ pc' = how
      BY <1>2 DEF Exit, VerdictsTrue
    <2>2. UNCHANGED <<db, ever, waived, origin>>
      BY <1>2 DEF Exit
    <2>3. db' # NoState => CoveredTo(db.slot)' /\ NothingOwed(db.epoch, db.slot)'
      BY <2>2, AccountedKept DEF AccountInv, CoveredTo, NothingOwed
    <2> QED
      BY <2>1, <2>3 DEF AccountInv, Running, Loop, Down
  <1>3. CASE Start \/ RefreshAtBoot \/ InitState \/ EnsureAtBoot \/ EnsureAtBootUnread
    <2>1. /\ UNCHANGED <<db, memory, ever, waived, origin, chain, tip, judged>>
          /\ pc' \notin {"slots", "save"}
          /\ Running' => Running
      BY <1>3 DEF Start, RefreshAtBoot, InitState, EnsureAtBoot,
         EnsureAtBootUnread, Goto, ledgerVars, disk, history, Running, Loop
    <2> QED
      BY <2>1, StillKeeps, Numbers DEF CursorInv
  <1>4. CASE Tick \/ NextSlotLeaders \/ NothingToScan
             \/ RefreshCurrent \/ EnsureInEpoch
    <2>1. /\ UNCHANGED <<db, memory, ever, waived, origin, chain, tip, judged>>
          /\ pc' \notin {"slots", "save"}
          /\ Running
      BY <1>4 DEF Tick, NextSlotLeaders, NothingToScan, AfterSlots, ToIdle,
         RefreshCurrent, EnsureInEpoch,
         Goto, ledgerVars, disk, history, Running, Loop
    <2> QED
      BY <2>1, StillKeeps, Numbers DEF CursorInv
  <1>5. CASE NextSlotLeadersFails \/ BlockfrostFails
             \/ RefreshCurrentFails \/ EnsureInEpochFails
    <2>1. /\ UNCHANGED <<db, memory, ever, waived, origin, chain, tip, judged>>
          /\ pc' \notin {"slots", "save"}
          /\ Running
      BY <1>5 DEF NextSlotLeadersFails, BlockfrostFails, ToIdle,
         RefreshCurrentFails, EnsureInEpochFails,
         Goto, ledgerVars, disk, history, epochTransition, Running, Loop
    <2> QED
      BY <2>1, StillKeeps, Numbers DEF CursorInv
  <1>6. CASE Scheduling \/ HealthChanges \/ UNCHANGED vars
    <2>1. /\ UNCHANGED <<db, memory, ever, waived, origin, chain, tip, judged>>
          /\ UNCHANGED <<pc, cur, todo>>
      BY <1>6 DEF Scheduling, SchedulerTick, SchedulerDone, RefreshNext,
         HealthChanges, vars, ledgerVars, disk, pass, history
    <2> QED
      BY <2>1, StillKeeps, Numbers DEF CursorInv, Running
  <1>7. CASE Kill \/ RefreshAtBootFails \/ BootFails \/ EnsureAtBootFails
             \/ NextSlotLeadersPanics \/ LeaderLogsFails
             \/ \E p \in Pools : ProcessPoolSlotPanics(p)
    <2>1. \E how \in Down : Exit(how)
      BY <1>7 DEF Kill, RefreshAtBootFails, BootFails, EnsureAtBootFails,
         NextSlotLeadersPanics, LeaderLogsFails, ProcessPoolSlotPanics, Down
    <2> QED
      BY <1>2, <2>1
  <1> QED
    BY <1>1, <1>3, <1>4, <1>5, <1>6, <1>7, LoadAccounts, ScanAccounts,
       EnterEpochAccounts, ProcessPoolSlotAccounts
       DEF Next, Booting, Passing, Rolling

(* In every reachable state each slot behind a cursor is judged or excused. *)
THEOREM AccountInvariant == Spec => []AccountInv
  <1> QED
    BY AccountInit, AccountStep, CursorInvariant, PTL DEF Spec

(* Every verdict ever counted is on a slot the pool was elected for and    *)
(* agrees with the chain.                                                  *)
THEOREM VerdictsCorrect == Spec => []VerdictsTrue
  <1>1. AccountInv => VerdictsTrue
    BY DEF AccountInv
  <1> QED
    BY <1>1, AccountInvariant, PTL

(* No slot a pool leads is behind the cursor, in memory or saved, without  *)
(* a verdict, whatever failures, crashes and restarts there were; but for  *)
(* the slots named in Excused.                                             *)
THEOREM CoverageCorrect == Spec => []Coverage
  <1>1. AccountInv => Coverage
    BY DEF AccountInv, Coverage
  <1> QED
    BY <1>1, AccountInvariant, PTL
=============================================================================
