------------------------- MODULE BlockWatcherAccount -------------------------
(***************************************************************************)
(* The verdicts of the block watcher, for every length of epoch, set of    *)
(* pools, election, chain and number of failures.  The counters and the    *)
(* streak gauge are exact: each counts a finite set of verdicts, and a     *)
(* verdict is always on a slot after all those its pool was judged on      *)
(* before.  And the watcher implements SlotAccount: every step of it is a  *)
(* step of the account or leaves it alone.                                 *)
(***************************************************************************)
EXTENDS BlockWatcherProofs, FiniteSetTheorems

-----------------------------------------------------------------------------
(* The inductive invariant, on top of CursorInv. *)

(* The verdicts v of set J for pool p in epoch e. *)
Own(J, p, e, v) == {j \in J : j.pool = p /\ j.epoch = e /\ j.verdict = v}

(* The slots missed in epoch e since the last one validated. *)
MissedSince(J, p, e) ==
    LET own    == {j \in J : j.pool = p /\ j.epoch = e}
        recent == {j \in own : \A k \in own :
                      k.verdict = "validated" => k.slot < j.slot}
    IN  {j \in recent : j.verdict = "missed"}

(* How far the slots that have a verdict reach. *)
Reached(j) ==
    \/ j.slot <= slot
    \/ pc \in {"slots", "save"} /\ j.slot < cur
    \/ pc = "slots" /\ j.slot = cur /\ j.pool \notin todo
    \/ pc = "save" /\ j.slot = cur

(* No verdict is of an epoch to come, nor is a counter. *)
EpochsInv ==
    /\ \A j \in judged : j.epoch <= epoch
    /\ pc \in {"reschedule", "check"} => \A j \in judged : j.epoch # epoch
    /\ \A e \in Epochs : e > epoch => tally[e] = NoTally[e]

CountInv ==
    /\ IsFiniteSet(judged)
    /\ ~Running => judged = {} /\ tally = NoTally
    /\ Running => EpochsInv /\ CountersExact /\ \A j \in judged : Reached(j)
    /\ StreakExact

-----------------------------------------------------------------------------
(* Counting one verdict more. *)

(* A verdict that is new adds one to its own count and leaves the others.  *)
LEMMA CountOne ==
    ASSUME NEW J, IsFiniteSet(J), NEW x, x \notin J,
           NEW p, NEW e, NEW v
    PROVE  /\ Cardinality(Own(J, p, e, v)) \in Nat
           /\ Cardinality(Own(J \cup {x}, p, e, v)) =
                IF x.pool = p /\ x.epoch = e /\ x.verdict = v
                THEN Cardinality(Own(J, p, e, v)) + 1
                ELSE Cardinality(Own(J, p, e, v))
  <1>1. Own(J, p, e, v) \in SUBSET J
    BY DEF Own
  <1>2. IsFiniteSet(Own(J, p, e, v)) /\ x \notin Own(J, p, e, v)
    BY <1>1, FS_Subset
  <1>3. CASE x.pool = p /\ x.epoch = e /\ x.verdict = v
    <2>1. Own(J \cup {x}, p, e, v) = Own(J, p, e, v) \cup {x}
      BY <1>3 DEF Own
    <2>2. Cardinality(Own(J, p, e, v) \cup {x}) = Cardinality(Own(J, p, e, v)) + 1
      BY <1>2, FS_AddElement
    <2> QED
      BY <1>2, <1>3, <2>1, <2>2, FS_CardinalityType
  <1>4. CASE ~(x.pool = p /\ x.epoch = e /\ x.verdict = v)
    <2>1. Own(J \cup {x}, p, e, v) = Own(J, p, e, v)
      BY <1>4 DEF Own
    <2> QED
      BY <1>2, <1>4, <2>1, FS_CardinalityType
  <1> QED
    BY <1>3, <1>4

(* A verdict after all others of its pool and epoch: a missed slot makes   *)
(* the streak longer, a validated one ends it, a lost one leaves it.       *)
LEMMA StreakOne ==
    ASSUME NEW J \in SUBSET Judgment, IsFiniteSet(J), NEW x \in Judgment,
           \A j \in J : j.pool = x.pool /\ j.epoch = x.epoch => j.slot < x.slot
    PROVE  Cardinality(MissedSince(J \cup {x}, x.pool, x.epoch)) =
               StreakAfter(x.verdict, Cardinality(MissedSince(J, x.pool, x.epoch)))
  <1> DEFINE old == MissedSince(J, x.pool, x.epoch)
             new == MissedSince(J \cup {x}, x.pool, x.epoch)
  <1>1. \A j \in Judgment : j.slot \in Nat
    BY SlotsAreNat DEF Judgment
  <1>2. old \in SUBSET J /\ IsFiniteSet(old)
    <2>1. old \in SUBSET J
      BY DEF MissedSince
    <2> QED
      BY <2>1, FS_Subset
  <1>3. x \notin J
    BY <1>1
  <1>4. CASE x.verdict = "missed"
    <2>1. new = old \cup {x}
      BY <1>1, <1>4 DEF MissedSince
    <2> QED
      BY <1>2, <1>3, <1>4, <2>1, FS_AddElement DEF StreakAfter
  <1>5. CASE x.verdict = "validated"
    <2>1. new = {}
      BY <1>1, <1>5 DEF MissedSince
    <2> QED
      BY <1>5, <2>1, FS_EmptySet DEF StreakAfter
  <1>6. CASE x.verdict = "orphaned"
    <2>1. new = old
      BY <1>1, <1>6 DEF MissedSince
    <2> QED
      BY <1>6, <2>1 DEF StreakAfter
  <1> QED
    BY <1>4, <1>5, <1>6 DEF Judgment, Verdicts

(* The streaks of the other pools and epochs are not concerned. *)
LEMMA StreakOthers ==
    ASSUME NEW J, NEW x, NEW p, NEW e, x.pool # p \/ x.epoch # e
    PROVE  MissedSince(J \cup {x}, p, e) = MissedSince(J, p, e)
  BY DEF MissedSince

-----------------------------------------------------------------------------
(* The invariant is established and kept. *)

(* Nothing is judged, nothing is counted. *)
NoCounts ==
    /\ judged = {} /\ tally = NoTally /\ streak = NoStreak
    /\ Running => epoch \in Epochs

LEMMA NothingJudged == NoCounts => CountInv
  <1> SUFFICES ASSUME NoCounts PROVE CountInv
    OBVIOUS
  <1> USE DEF NoCounts
  <1>1. IsFiniteSet({}) /\ Cardinality({}) = 0
    BY FS_EmptySet
  <1>2. StreakExact
    <2> SUFFICES ASSUME NEW p \in Pools, NEW e \in Epochs
                 PROVE  streak[e][p] = Cardinality(MissedSince(judged, p, e))
      BY DEF StreakExact, MissedSince
    <2>1. MissedSince(judged, p, e) = {}
      BY DEF MissedSince
    <2> QED
      BY <1>1, <2>1 DEF NoStreak
  <1>3. Running => CountersExact
    <2> SUFFICES ASSUME Running, NEW p \in Pools, NEW v \in Verdicts
                 PROVE  tally[epoch][p][v] = Cardinality(Own(judged, p, epoch, v))
      BY DEF CountersExact, Own
    <2>1. Own(judged, p, epoch, v) = {}
      BY DEF Own
    <2> QED
      BY <1>1, <2>1 DEF NoTally
  <1> QED
    BY <1>1, <1>2, <1>3 DEF CountInv, EpochsInv

(* Steps that judge nothing and keep the epoch. *)
LEMMA CountKept ==
    ASSUME CountInv, UNCHANGED <<judged, metrics, epoch>>,
           Running, Running',
           \A j \in judged : Reached(j) => Reached(j)',
           pc' \in {"reschedule", "check"} => pc \in {"reschedule", "check"}
    PROVE  CountInv'
  <1>1. EpochsInv'
    BY DEF CountInv, EpochsInv, metrics
  <1>2. CountersExact' /\ StreakExact'
    BY DEF CountInv, CountersExact, StreakExact, metrics
  <1> QED
    BY <1>1, <1>2 DEF CountInv

(* One verdict: on a slot after those its pool was judged on before. *)
LEMMA ProcessPoolSlotCounts ==
    ASSUME CursorInv, CursorInv', CountInv, NEW q \in Pools,
           ProcessPoolSlot(q)
    PROVE  CountInv'
  <1>1. /\ pc = "slots" /\ q \in todo /\ Running /\ Running'
        /\ epoch' = epoch /\ slot' = slot /\ slot < cur /\ Advance(q)
        /\ pc' \in {"slots", "save"}
    BY DEF ProcessPoolSlot, Advance, Goto, memory, CursorInv, PassInv, Running, Loop
  <1>2. /\ cur \in Nat /\ slot \in Nat /\ epoch \in Epochs /\ cur \in Slots
        /\ \A j \in judged : j.slot \in Nat
        /\ judged \subseteq Judgment
    BY Numbers, SlotsAreNat DEF CursorInv, TypeOK, Judgment
  <1>3. \/ pc' = "slots" /\ cur' = cur /\ todo' = todo \ {q}
        \/ pc' = "slots" /\ cur' = cur + 1
        \/ pc' = "save" /\ cur' = cur
    BY <1>1 DEF Advance, Goto
  <1>4. \A j \in judged : Reached(j)'
    <2> SUFFICES ASSUME NEW j \in judged PROVE Reached(j)'
      OBVIOUS
    <2>1. Reached(j)
      BY <1>1 DEF CountInv
    <2> QED
      BY <1>1, <1>2, <1>3, <2>1 DEF Reached
  <1>5. CASE UNCHANGED <<metrics, judged, ever>>
    <2>1. \A j \in judged : Reached(j) => Reached(j)'
      BY <1>4
    <2> QED
      BY <1>1, <1>5, <2>1, CountKept
  <1>6. CASE isLeader(q) /\ Record(q, cur, Outcome(q, cur))
    <2>11. PICK v : v = Outcome(q, cur)
      OBVIOUS
    <2>12. PICK x : x = [pool |-> q, slot |-> cur, epoch |-> epoch, verdict |-> v]
      OBVIOUS
    <2>1. /\ x \in Judgment /\ v \in Verdicts
          /\ x.pool = q /\ x.slot = cur /\ x.epoch = epoch /\ x.verdict = v
      BY <1>2, <2>11, <2>12, OutcomeType DEF Judgment
    <2>2. /\ judged' = judged \cup {x}
          /\ tally' = [tally EXCEPT ![epoch][q][v] = @ + 1]
          /\ streak' = [streak EXCEPT ![epoch][q] = StreakAfter(v, @)]
      BY <1>6, <2>11, <2>12 DEF Record
    <2>3. \A j \in judged : j.pool = x.pool => j.slot < x.slot
      <3> SUFFICES ASSUME NEW j \in judged, j.pool = x.pool PROVE j.slot < x.slot
        OBVIOUS
      <3>1. Reached(j)
        BY <1>1 DEF CountInv
      <3> QED
        BY <1>1, <1>2, <2>1, <3>1 DEF Reached
    <2>4. x \notin judged /\ IsFiniteSet(judged)
      BY <1>2, <2>1, <2>3 DEF CountInv
    <2>5. IsFiniteSet(judged')
      <3>1. IsFiniteSet(judged \cup {x})
        BY <2>4, FS_AddElement
      <3> QED
        BY <2>2, <3>1
    <2>6. Reached(x)'
      BY <1>1, <1>2, <1>3, <2>1 DEF Reached
    <2>7. EpochsInv'
      <3>1. \A j \in judged' : j.epoch <= epoch
        BY <1>1, <1>2, <2>1, <2>2, Numbers DEF CountInv, EpochsInv, CursorInv
      <3>2. \A e \in Epochs : e > epoch => tally'[e] = tally[e]
        BY <2>2, <1>2, Numbers DEF CursorInv, TypeOK
      <3> QED
        BY <1>1, <3>1, <3>2 DEF CountInv, EpochsInv
    <2>8. CountersExact'
      <3> SUFFICES ASSUME NEW p \in Pools, NEW w \in Verdicts
                   PROVE  tally'[epoch][p][w] = Cardinality(Own(judged', p, epoch, w))
        BY <1>1 DEF CountersExact, Own
      <3>1. tally[epoch][p][w] = Cardinality(Own(judged, p, epoch, w))
        BY <1>1 DEF CountInv, CountersExact, Own
      <3>2. Cardinality(Own(judged', p, epoch, w)) =
              IF q = p /\ v = w THEN Cardinality(Own(judged, p, epoch, w)) + 1
                                ELSE Cardinality(Own(judged, p, epoch, w))
        BY <2>1, <2>2, <2>4, CountOne
      <3>3. tally'[epoch][p][w] = IF q = p /\ v = w THEN tally[epoch][p][w] + 1
                                                    ELSE tally[epoch][p][w]
        BY <1>2, <2>1, <2>2 DEF CursorInv, TypeOK
      <3> QED
        BY <3>1, <3>2, <3>3
    <2>9. StreakExact'
      <3> SUFFICES ASSUME NEW p \in Pools, NEW e \in Epochs
                   PROVE  streak'[e][p] = Cardinality(MissedSince(judged', p, e))
        BY DEF StreakExact, MissedSince
      <3>1. streak[e][p] = Cardinality(MissedSince(judged, p, e))
        BY DEF CountInv, StreakExact, MissedSince
      <3>2. CASE p = q /\ e = epoch
        <4>1. Cardinality(MissedSince(judged', p, e)) =
                StreakAfter(v, Cardinality(MissedSince(judged, p, e)))
          BY <1>2, <2>1, <2>2, <2>3, <2>4, <3>2, StreakOne
        <4>2. streak'[e][p] = StreakAfter(v, streak[e][p])
          BY <1>2, <2>2, <3>2 DEF CursorInv, TypeOK
        <4> QED
          BY <3>1, <4>1, <4>2
      <3>3. CASE ~(p = q /\ e = epoch)
        <4>1. MissedSince(judged', p, e) = MissedSince(judged, p, e)
          BY <2>1, <2>2, <3>3, StreakOthers
        <4>2. streak'[e][p] = streak[e][p]
          BY <1>2, <2>2, <3>3 DEF CursorInv, TypeOK
        <4> QED
          BY <3>1, <4>1, <4>2
      <3> QED
        BY <3>2, <3>3
    <2>10. \A j \in judged' : Reached(j)'
      <3>1. \A j \in judged' : j \in judged \/ j = x
        BY <2>2
      <3> QED
        BY <1>4, <2>6, <3>1
    <2> QED
      BY <1>1, <2>5, <2>7, <2>8, <2>9, <2>10 DEF CountInv
  <1> QED
    BY <1>5, <1>6 DEF ProcessPoolSlot

(* A new epoch has no verdict yet and its counters are zero. *)
LEMMA EnterEpochCounts ==
    ASSUME CursorInv, CountInv, EnterEpoch
    PROVE  CountInv'
  <1>1. /\ pc = "rollover" /\ pc' \in {"idle", "reschedule"}
        /\ Running /\ Running' /\ slot' = slot /\ epoch' = EpochOf(tip)
        /\ UNCHANGED <<judged, tally, streak>>
    BY DEF EnterEpoch, GetLatestEpoch, ToIdle, Goto, Running, Loop, metrics
  <1>2. /\ epoch \in Nat /\ epoch' \in Nat /\ epoch' \in Epochs /\ epoch < epoch'
        /\ \A e \in Epochs : e \in Nat
    <2>1. EpochOf(blk) > epoch /\ blk <= tip /\ blk \in Nat /\ tip \in Nat
      BY <1>1, Numbers DEF CursorInv, PassInv, KnownInv, epochTransition
    <2>2. EpochOf(blk) <= EpochOf(tip) /\ EpochOf(blk) \in Nat /\ EpochOf(tip) \in Nat
      BY <2>1, EpochMono, EpochBounds
    <2>3. EpochOf(tip) \in Epochs /\ epoch \in Nat /\ \A e \in Epochs : e \in Nat
      BY Numbers DEF CursorInv
    <2> QED
      BY <1>1, <2>1, <2>2, <2>3
  <1>3. \A j \in judged : j.epoch \in Nat /\ j.epoch < epoch'
    <2> SUFFICES ASSUME NEW j \in judged
                 PROVE  j.epoch \in Nat /\ j.epoch < epoch'
      OBVIOUS
    <2>1. j.epoch <= epoch
      BY <1>1 DEF CountInv, EpochsInv
    <2>2. j.epoch \in Nat
      BY <1>2 DEF CursorInv, TypeOK, Judgment
    <2>3. epoch \in Nat /\ epoch' \in Nat /\ epoch < epoch'
      BY <1>2
    <2> QED
      BY <2>1, <2>2, <2>3
  <1>4. EpochsInv'
    BY <1>1, <1>2, <1>3 DEF CountInv, EpochsInv
  <1>5. CountersExact'
    <2> SUFFICES ASSUME NEW p \in Pools, NEW v \in Verdicts
                 PROVE  tally[epoch'][p][v] = Cardinality(Own(judged, p, epoch', v))
      BY <1>1 DEF CountersExact, Own
    <2>1. Own(judged, p, epoch', v) = {}
      BY <1>2, <1>3 DEF Own
    <2>2. tally[epoch'] = NoTally[epoch']
      BY <1>1, <1>2 DEF CountInv, EpochsInv
    <2> QED
      BY <1>2, <2>1, <2>2, FS_EmptySet DEF NoTally
  <1>6. StreakExact'
    BY <1>1 DEF CountInv, StreakExact
  <1>7. \A j \in judged : Reached(j)'
    BY <1>1 DEF CountInv, Reached
  <1> QED
    BY <1>1, <1>4, <1>5, <1>6, <1>7 DEF CountInv

(* initMetrics: the counters are reset before the epoch's first verdict. *)
LEMMA EnsureInEpochCounts ==
    ASSUME CursorInv, CountInv, EnsureInEpoch
    PROVE  CountInv'
  <1>1. /\ pc = "check" /\ pc' = "idle" /\ Running /\ Running'
        /\ slot' = slot /\ epoch' = epoch /\ epoch \in Epochs
        /\ judged' = judged /\ tally' = NoTally /\ streak' = streak
    BY DEF EnsureInEpoch, initMetrics, ToIdle, Goto, Running, Loop, memory,
       history, CursorInv, TypeOK
  <1>2. EpochsInv'
    BY <1>1 DEF CountInv, EpochsInv
  <1>3. CountersExact'
    <2> SUFFICES ASSUME NEW p \in Pools, NEW v \in Verdicts
                 PROVE  NoTally[epoch][p][v] = Cardinality(Own(judged, p, epoch, v))
      BY <1>1 DEF CountersExact, Own
    <2>1. Own(judged, p, epoch, v) = {}
      BY <1>1 DEF CountInv, EpochsInv, Own
    <2> QED
      BY <1>1, <2>1, FS_EmptySet DEF NoTally
  <1>4. StreakExact'
    BY <1>1 DEF CountInv, StreakExact
  <1>5. \A j \in judged : Reached(j)'
    BY <1>1 DEF CountInv, Reached
  <1> QED
    BY <1>1, <1>2, <1>3, <1>4, <1>5 DEF CountInv

(* The steps of a scan other than a verdict. *)
LEMMA ScanCounts ==
    ASSUME CursorInv, CountInv,
           ScanStarts \/ ProcessPoolSlotFails \/ SaveSlot
    PROVE  CountInv'
  <1>1. /\ UNCHANGED <<judged, metrics, epoch>> /\ Running /\ Running'
        /\ pc' \in {"slots", "save", "idle", "rollover"}
    BY DEF ScanStarts, ProcessPoolSlotFails, SaveSlot, AfterSlots, ToIdle, Goto,
       history, memory, Running, Loop
  <1>2. /\ slot \in Nat /\ cur \in Nat
        /\ \A j \in judged : j.slot \in Nat
    BY Numbers, SlotsAreNat DEF CursorInv, TypeOK, Judgment
  <1>3. ASSUME NEW j \in judged, Reached(j) PROVE Reached(j)'
    <2>1. CASE ScanStarts
      <3>1. pc = "scan" /\ slot' = slot
        BY <2>1 DEF ScanStarts, memory
      <3> QED
        BY <1>3, <3>1 DEF Reached
    <2>2. CASE ProcessPoolSlotFails
      <3>1. pc = "slots" /\ pc' = "save" /\ slot' = slot /\ cur' = cur
        BY <2>2 DEF ProcessPoolSlotFails, Goto, memory, pass
      <3> QED
        BY <1>2, <1>3, <3>1 DEF Reached
    <2>3. CASE SaveSlot
      <3>1. pc = "save" /\ slot' = cur /\ slot < cur
        BY <2>3 DEF SaveSlot, SavedSlot, CursorInv, PassInv
      <3> QED
        BY <1>2, <1>3, <3>1 DEF Reached
    <2> QED
      BY <2>1, <2>2, <2>3
  <1> QED
    BY <1>1, <1>3, CountKept

(* A process that has not judged anything loads its cursor. *)
LEMMA LoadCounts ==
    ASSUME CursorInv, CursorInv', CountInv, LoadAndReconcile
    PROVE  CountInv'
  <1>1. ~Running /\ UNCHANGED <<judged, metrics>>
    BY DEF LoadAndReconcile, Running, Loop
  <1>2. judged' = {} /\ tally' = NoTally
    BY <1>1 DEF CountInv, metrics
  <1>3. streak' = NoStreak
    <2>1. \A p \in Pools, e \in Epochs : streak[e][p] = 0
      <3> SUFFICES ASSUME NEW p \in Pools, NEW e \in Epochs PROVE streak[e][p] = 0
        OBVIOUS
      <3>1. streak[e][p] = Cardinality(MissedSince(judged, p, e))
        BY DEF CountInv, StreakExact, MissedSince
      <3>2. MissedSince(judged, p, e) = {}
        BY <1>1 DEF CountInv, MissedSince
      <3> QED
        BY <3>1, <3>2, FS_EmptySet
    <2>2. streak \in [Epochs -> [Pools -> Nat]]
      BY DEF CursorInv, TypeOK
    <2>3. \A e \in Epochs : streak[e] = [p \in Pools |-> 0]
      BY <2>1, <2>2
    <2>4. streak = [e \in Epochs |-> [p \in Pools |-> 0]]
      BY <2>2, <2>3
    <2> QED
      BY <1>1, <2>4 DEF metrics, NoStreak
  <1>4. epoch' \in Epochs
    BY DEF CursorInv, TypeOK
  <1>5. NoCounts'
    BY <1>2, <1>3, <1>4 DEF NoCounts
  <1> QED
    BY <1>5, NothingJudged, PTL

(* Before the cursor is loaded nothing is judged. *)
LEMMA BootCounts ==
    ASSUME CountInv, UNCHANGED <<judged, metrics>>, ~Running, ~Running'
    PROVE  CountInv'
  BY DEF CountInv, StreakExact, metrics

LEMMA CountInit == Init => CountInv
  <1> SUFFICES ASSUME Init PROVE CountInv
    OBVIOUS
  <1>1. judged = {} /\ tally = NoTally /\ streak = NoStreak /\ ~Running
    BY DEF Init, Running, Loop
  <1> QED
    BY <1>1, NothingJudged DEF NoCounts

(* CountInv is inductive relative to CursorInv. *)
LEMMA CountStep == CursorInv /\ CursorInv' /\ CountInv /\ [Next]_vars => CountInv'
  <1> SUFFICES ASSUME CursorInv, CursorInv', CountInv, [Next]_vars
               PROVE  CountInv'
    OBVIOUS
  <1>1. ASSUME UNCHANGED <<pc, memory, cur, todo, judged, metrics>>
        PROVE  CountInv'
    <2>1. Running' = Running /\ \A j : Reached(j)' = Reached(j)
      BY <1>1 DEF Running, Reached, memory
    <2>2. CASE Running
      BY <1>1, <2>1, <2>2, CountKept DEF memory
    <2>3. CASE ~Running
      BY <1>1, <2>1, <2>3, BootCounts
    <2> QED
      BY <2>2, <2>3
  <1>2. CASE NewBlock \/ HealthChanges \/ Scheduling \/ UNCHANGED vars
    BY <1>1, <1>2 DEF NewBlock, HealthChanges, Scheduling, SchedulerTick,
       SchedulerDone, RefreshNext, vars, pass, history
  <1>3. CASE Kill \/ RefreshAtBootFails \/ BootFails \/ EnsureAtBootFails
             \/ NextSlotLeadersPanics \/ LeaderLogsFails
             \/ \E p \in Pools : ProcessPoolSlotPanics(p)
    <2>1. PICK how \in Down : Exit(how)
      BY <1>3 DEF Kill, RefreshAtBootFails, BootFails, EnsureAtBootFails,
         NextSlotLeadersPanics, LeaderLogsFails, ProcessPoolSlotPanics, Down
    <2>2. NoCounts'
      BY <2>1 DEF NoCounts, Exit, Running, Loop, Down
    <2> QED
      BY <2>2, NothingJudged, PTL
  <1>4. CASE Start \/ RefreshAtBoot \/ InitState
    <2>1. UNCHANGED <<judged, metrics>> /\ ~Running /\ ~Running'
      BY <1>4 DEF Start, RefreshAtBoot, InitState, Goto, history, Running,
         Loop, Down
    <2> QED
      BY <2>1, BootCounts
  <1>5. CASE EnsureAtBoot \/ EnsureAtBootUnread \/ Tick \/ NextSlotLeaders
             \/ NextSlotLeadersFails \/ NothingToScan \/ BlockfrostFails
             \/ RefreshCurrent \/ RefreshCurrentFails \/ EnsureInEpochFails
    <2>1. /\ UNCHANGED <<judged, metrics, memory>> /\ Running /\ Running'
          /\ pc \notin {"slots", "save"}
          /\ pc' \in {"reschedule", "check"} => pc \in {"reschedule", "check"}
      BY <1>5 DEF EnsureAtBoot, EnsureAtBootUnread, Tick, NextSlotLeaders,
         NextSlotLeadersFails, NothingToScan, AfterSlots, BlockfrostFails,
         RefreshCurrent, RefreshCurrentFails, EnsureInEpochFails, ToIdle, Goto,
         history, Running, Loop
    <2>2. \A j : Reached(j) => Reached(j)'
      BY <2>1 DEF Reached, memory
    <2> QED
      BY <2>1, <2>2, CountKept DEF memory
  <1> QED
    BY <1>2, <1>3, <1>4, <1>5, LoadCounts, ScanCounts, EnterEpochCounts,
       EnsureInEpochCounts, ProcessPoolSlotCounts
       DEF Next, Booting, Passing, Rolling

(* In every reachable state the counters count the verdicts given. *)
THEOREM CountInvariant == Spec => []CountInv
  <1> QED
    BY CountInit, CountStep, CursorInvariant, PTL DEF Spec

(* The missed, validated and orphaned counters of the current epoch are    *)
(* the numbers of the slots so judged, each once, also after a scan that   *)
(* failed half way through the pools of a slot.                            *)
THEOREM CountersCorrect == Spec => []CountersExact
  <1>1. CountInv => CountersExact
    BY DEF CountInv, CountersExact
  <1> QED
    BY <1>1, CountInvariant, PTL

(* The consecutive-missed gauge is the number of slots missed since the    *)
(* last one validated in the epoch.                                        *)
THEOREM StreakCorrect == Spec => []StreakExact
  <1>1. CountInv => StreakExact
    BY DEF CountInv
  <1> QED
    BY <1>1, CountInvariant, PTL

-----------------------------------------------------------------------------
(* Reading the watcher's state as an account. *)

(* What the watcher covers is what the account has settled. *)
LEMMA CoveredIsSettled ==
    ASSUME NEW c
    PROVE  CoveredTo(c) <=> Account!SettledTo(c)
  BY DEF CoveredTo, Accounted, Excused, Account!SettledTo, Account!Settled

LEMMA CoveredIsSettledNext == Running' =>
    (CoveredTo(slot)' <=> Account!SettledTo(IF Running THEN slot ELSE -1)')
  BY DEF CoveredTo, Accounted, Excused, Account!SettledTo, Account!Settled

(* The saved slot of a database without a row is that of NoState. *)
LEMMA SavedSlotRead ==
    ASSUME TypeOK
    PROVE  /\ db = NoState <=> db.slot = -1
           /\ db.slot \in Slots \cup {-1}
  <1>1. \A s \in Slots : s \in Nat
    BY SlotsAreNat
  <1>2. NoState.slot = -1
    BY DEF NoState
  <1>3. db # NoState => db.slot \in Slots
    BY DEF TypeOK, Cursors
  <1> QED
    BY <1>1, <1>2, <1>3

(* Two sets of verdicts are read as the same pairs when they are the same, *)
(* and one verdict more as one pair more.                                  *)
PairsOf(J) == {<<j.pool, j.slot>> : j \in J}

LEMMA OnePairMore ==
    ASSUME NEW J, NEW x
    PROVE  PairsOf(J \cup {x}) = PairsOf(J) \cup {<<x.pool, x.slot>>}
  BY DEF PairsOf

-----------------------------------------------------------------------------
(* One lemma for each group of steps. *)

LEMMA NewBlockGrows == ASSUME CursorInv, CursorInv', NewBlock PROVE Account!Grow
  <1>1. tip' \in Slots /\ tip < tip'
    BY Numbers DEF NewBlock, Extend, NextBlocks, CursorInv
  <1>2. UNCHANGED <<db, pc, slot, judged, ever, waived, origin>>
    BY DEF NewBlock, disk, memory, history
  <1> QED
    BY <1>1, <1>2 DEF Account!Grow, Running

LEMMA ExitEnds == ASSUME NEW how \in Down, Exit(how) PROVE Account!End
  <1>1. /\ ~Running' /\ judged' = {}
        /\ UNCHANGED <<tip, db, ever, waived, origin>>
    BY DEF Exit, Running, Loop, Down, ledgerVars
  <1> QED
    BY <1>1 DEF Account!End, Account!None

(* Loading the cursor opens the account, or resumes it at or ahead of what *)
(* was saved.                                                              *)
LEMMA LoadOpensOrResumes ==
    ASSUME CursorInv, CursorInv', AccountInv', LoadAndReconcile
    PROVE  Account!Open \/ Account!Resume
  <1>1. /\ pc = "load" /\ ~Running /\ Running'
        /\ slot' = Reconciled.slot
        /\ db' = IF Behind THEN Reconciled ELSE db
        /\ UNCHANGED <<tip, judged, ever>>
    BY DEF LoadAndReconcile, Goto, Running, Loop, Boot, ledgerVars
  <1>2. /\ Loaded.slot \in Nat /\ slot' \in Slots /\ slot' \in Nat
        /\ Loaded.slot <= slot' /\ slot' <= tip /\ tip \in Nat
    BY <1>1, LoadedCursor, SlotsAreNat, Numbers DEF CursorInv
  <1>3. db.slot = -1 <=> db = NoState
    BY SavedSlotRead DEF CursorInv
  <1>4. CASE db = NoState
    <2>1. ~Behind /\ Loaded.slot = tip
      BY <1>4, Numbers, EpochBounds
         DEF Behind, Loaded, GetLatestBlock, CursorInv, KnownInv
    <2>2. slot' = tip /\ db' = db /\ origin' = tip
      BY <1>1, <1>4, <2>1 DEF Reconciled, LoadAndReconcile
    <2>3. waived' = waived
      BY <2>1 DEF LoadAndReconcile
    <2> QED
      BY <1>1, <1>3, <1>4, <2>2, <2>3 DEF Account!Open, Account!None
  <1>5. CASE db # NoState
    <2>1. Loaded.slot = db.slot /\ origin' = origin
      BY <1>5 DEF Loaded, LoadAndReconcile
    <2>2. db'.slot = db.slot \/ db'.slot = slot'
      BY <1>1
    <2>3. waived \subseteq waived' /\ \A s \in waived' \ waived : s <= tip
      <3>1. \A s \in (Loaded.slot + 1) .. Reconciled.slot : s <= tip
        BY <1>1, <1>2
      <3> QED
        BY <3>1 DEF LoadAndReconcile
    <2>4. Account!SettledTo(IF Running THEN slot ELSE -1)'
      BY <1>1, CoveredIsSettledNext DEF AccountInv
    <2> QED
      BY <1>1, <1>2, <1>3, <1>5, <2>1, <2>2, <2>3, <2>4
         DEF Account!Resume, Account!None, Account!MaySave, Account!PassOver
  <1> QED
    BY <1>4, <1>5

(* Processing a slot for a pool judges it, in the order of the slots, when *)
(* the pool leads it.                                                      *)
LEMMA ProcessPoolSlotJudges ==
    ASSUME CursorInv, AccountInv, CountInv, NEW q \in Pools, ProcessPoolSlot(q)
    PROVE  (\E p \in Pools, s \in Slots : Account!Judge(p, s))
              \/ UNCHANGED Account!vars
  <1>1. /\ pc = "slots" /\ q \in todo /\ Running /\ Running'
        /\ pc' \in {"slots", "save"}
        /\ UNCHANGED <<tip, slot, db, origin, waived>>
    BY DEF ProcessPoolSlot, Advance, Goto, ledgerVars, disk, memory, Running, Loop
  <1>2. /\ cur \in Slots /\ cur \in Nat /\ slot \in Nat
        /\ slot < cur /\ cur <= tip
    BY <1>1, PassEndBehindTip, Numbers DEF CursorInv, PassInv, TypeOK
  <1>3. CASE UNCHANGED <<metrics, judged, ever>>
    BY <1>1, <1>3 DEF Account!vars
  <1>4. CASE isLeader(q) /\ Record(q, cur, Outcome(q, cur))
    <2>1. PICK x : /\ x.pool = q /\ x.slot = cur
                   /\ judged' = judged \cup {x}
      BY <1>4 DEF Record
    <2>2. cur \in Leads[q] /\ ever' = ever \cup {<<q, cur>>}
      BY <1>4 DEF isLeader, Schedule, Record
    <2>3. PairsOf(judged') = PairsOf(judged) \cup {<<q, cur>>}
      BY <2>1, OnePairMore
    <2>4. ASSUME NEW t \in Slots, <<q, t>> \in PairsOf(judged) PROVE t < cur
      <3>1. PICK j \in judged : j.pool = q /\ j.slot = t
        BY <2>4 DEF PairsOf
      <3>2. Reached(j) /\ t \in Nat
        BY <1>1, SlotsAreNat DEF CountInv
      <3> QED
        BY <1>1, <1>2, <3>1, <3>2 DEF Reached
    <2>5. PICK s \in Slots : s = cur
      BY <1>2
    <2>6. Account!Judge(q, s)
      BY <1>1, <1>2, <2>2, <2>3, <2>4, <2>5
         DEF Account!Judge, Account!None, PairsOf
    <2> QED
      BY <2>6
  <1> QED
    BY <1>3, <1>4 DEF ProcessPoolSlot

(* The end of a scan gives a slot up, or moves the cursor on. *)
LEMMA ScanMoves ==
    ASSUME CursorInv, CursorInv', AccountInv',
           ProcessPoolSlotFails \/ SaveSlot
    PROVE  (\E s \in Slots : Account!GiveUp(s)) \/ Account!Move
  <1>1. /\ pc \in {"slots", "save"} /\ Running /\ Running'
        /\ UNCHANGED <<tip, judged, ever, origin>>
    BY DEF ProcessPoolSlotFails, SaveSlot, AfterSlots, ToIdle, Goto, history,
       ledgerVars, Running, Loop
  <1>2. /\ cur \in Slots /\ cur \in Nat /\ slot \in Nat
        /\ slot < cur /\ cur <= tip
    BY <1>1, PassEndBehindTip, Numbers DEF CursorInv, PassInv, TypeOK
  <1>3. CASE ProcessPoolSlotFails
    <2>1. waived' = waived \cup {cur} /\ UNCHANGED <<slot, db>>
      BY <1>3 DEF ProcessPoolSlotFails, disk, memory
    <2>2. Account!GiveUp(cur)
      BY <1>1, <1>2, <2>1 DEF Account!GiveUp, Account!None
    <2> QED
      BY <1>2, <2>2
  <1>4. CASE SaveSlot
    <2>1. /\ slot' = cur /\ waived' = waived
          /\ db'.slot = db.slot \/ db'.slot = slot'
      BY <1>4 DEF SaveSlot, SavedSlot, SavedRow, history
    <2>2. Account!SettledTo(IF Running THEN slot ELSE -1)'
      BY <1>1, CoveredIsSettledNext DEF AccountInv
    <2>3. Account!Move
      BY <1>1, <1>2, <2>1, <2>2 DEF Account!Move, Account!None, Account!MaySave
    <2> QED
      BY <2>3
  <1> QED
    BY <1>3, <1>4

(* Entering an epoch jumps over those in between, which are over. *)
LEMMA EnterEpochJumps == ASSUME CursorInv, EnterEpoch PROVE Account!Jump
  <1>1. /\ pc = "rollover" /\ Running /\ Running' /\ slot' = slot
        /\ epoch' = EpochOf(tip)
        /\ waived' = waived \cup FirstSlot(epoch + 1) .. FirstSlot(epoch') - 1
        /\ db'.slot = db.slot \/ db'.slot = slot'
        /\ UNCHANGED <<tip, judged, ever, origin>>
    BY DEF EnterEpoch, GetLatestEpoch, ToIdle, Goto, Running, Loop, ledgerVars
  <1>2. /\ tip \in Nat /\ epoch \in Nat /\ slot \in Nat
        /\ FirstSlot(epoch + 1) \in Nat /\ FirstSlot(EpochOf(tip)) \in Nat
        /\ FirstSlot(EpochOf(tip)) <= tip
    BY Numbers, EpochBounds, FirstSlotNat DEF CursorInv
  <1>3. \A s \in waived' \ waived : s <= tip
    BY <1>1, <1>2
  <1> QED
    BY <1>1, <1>2, <1>3
       DEF Account!Jump, Account!None, Account!MaySave, Account!PassOver

(* Everything else leaves the account alone. *)
LEMMA OthersStutter ==
    ASSUME UNCHANGED <<tip, slot, db, history>>, Running' = Running
    PROVE  UNCHANGED Account!vars
  BY DEF history, Account!vars

-----------------------------------------------------------------------------
LEMMA KeepsInit == Init => Account!Init
  <1> SUFFICES ASSUME Init PROVE Account!Init
    OBVIOUS
  <1>1. tip \in Slots /\ ~Running /\ db.slot = -1
    BY DEF Init, LedgerInit, SlotsOf, Running, Loop, NoState
  <1> QED
    BY <1>1 DEF Init, Account!Init, Account!None

LEMMA KeepsStep ==
    /\ CursorInv /\ CursorInv' /\ AccountInv /\ AccountInv' /\ CountInv
    /\ [Next]_vars
    => [Account!Next]_(Account!vars)
  <1> SUFFICES ASSUME CursorInv, CursorInv', AccountInv, AccountInv', CountInv,
                      [Next]_vars
               PROVE  Account!Next \/ UNCHANGED Account!vars
    OBVIOUS
  <1>1. CASE NewBlock
    BY <1>1, NewBlockGrows DEF Account!Next
  <1>2. CASE LoadAndReconcile
    BY <1>2, LoadOpensOrResumes DEF Account!Next
  <1>3. CASE \E q \in Pools : ProcessPoolSlot(q)
    BY <1>3, ProcessPoolSlotJudges DEF Account!Next
  <1>4. CASE ProcessPoolSlotFails \/ SaveSlot
    BY <1>4, ScanMoves DEF Account!Next
  <1>5. CASE EnterEpoch
    BY <1>5, EnterEpochJumps DEF Account!Next
  <1>6. CASE Kill \/ RefreshAtBootFails \/ BootFails \/ EnsureAtBootFails
             \/ NextSlotLeadersPanics \/ LeaderLogsFails
             \/ \E p \in Pools : ProcessPoolSlotPanics(p)
    <2>1. PICK how \in Down : Exit(how)
      BY <1>6 DEF Kill, RefreshAtBootFails, BootFails, EnsureAtBootFails,
         NextSlotLeadersPanics, LeaderLogsFails, ProcessPoolSlotPanics, Down
    <2> QED
      BY <2>1, ExitEnds DEF Account!Next
  <1>7. CASE Start \/ RefreshAtBoot \/ InitState
             \/ EnsureAtBoot \/ EnsureAtBootUnread
    <2>1. UNCHANGED <<tip, slot, db, history>> /\ Running' = Running
      BY <1>7 DEF Start, RefreshAtBoot, InitState, EnsureAtBoot,
         EnsureAtBootUnread, Goto, ledgerVars, disk, memory, Running, Loop, Down
    <2> QED
      BY <2>1, OthersStutter
  <1>8. CASE Tick \/ NextSlotLeaders \/ NextSlotLeadersFails \/ ScanStarts
             \/ NothingToScan \/ BlockfrostFails
    <2>1. UNCHANGED <<tip, slot, db, history>> /\ Running' /\ Running
      BY <1>8 DEF Tick, NextSlotLeaders, NextSlotLeadersFails, ScanStarts,
         NothingToScan, BlockfrostFails, AfterSlots, ToIdle, Goto, ledgerVars,
         disk, memory, Running, Loop
    <2> QED
      BY <2>1, OthersStutter
  <1>9. CASE RefreshCurrent \/ RefreshCurrentFails \/ EnsureInEpoch
             \/ EnsureInEpochFails
    <2>1. UNCHANGED <<tip, slot, db, history>> /\ Running' /\ Running
      BY <1>9 DEF RefreshCurrent, RefreshCurrentFails, EnsureInEpoch,
         EnsureInEpochFails, ToIdle, Goto, ledgerVars, disk, memory, Running, Loop
    <2> QED
      BY <2>1, OthersStutter
  <1>10. CASE HealthChanges \/ Scheduling \/ UNCHANGED vars
    <2>1. UNCHANGED <<tip, slot, db, history, pc>>
      BY <1>10 DEF HealthChanges, Scheduling, SchedulerTick, SchedulerDone,
         RefreshNext, ledgerVars, disk, memory, vars
    <2> QED
      BY <2>1, OthersStutter DEF Running
  <1> QED
    BY <1>1, <1>2, <1>3, <1>4, <1>5, <1>6, <1>7, <1>8, <1>9, <1>10
       DEF Next, Booting, Passing, Rolling

(* The block watcher keeps the account of the slots: for every election,   *)
(* chain, length of epoch and failure, each of its steps is one that       *)
(* SlotAccount allows.                                                     *)
THEOREM ImplementsAccount == Spec => KeepsAccount
  <1> QED
    BY KeepsInit, KeepsStep, CursorInvariant, AccountInvariant, CountInvariant,
       PTL DEF Spec, KeepsAccount, Account!Spec

(* The promise, with what is proved of it. *)
Promise == INSTANCE SlotAccountProofs WITH
    Exempt <- {s \in Slots : s = FirstSlot(EpochOf(s))},
    cursor <- IF Running THEN slot ELSE -1,
    saved  <- db.slot,
    judged <- {<<j.pool, j.slot>> : j \in judged}

(* A slot that the saved cursor covers is never judged again, whatever     *)
(* crashes and restarts follow.                                            *)
THEOREM SavedSlotsFinal == Spec => Promise!Final
  <1>1. Slots \subseteq Nat
    BY SlotsAreNat
  <1>2. Account!Init => Promise!Init
    BY DEF Account!Init, Promise!Init, Account!None, Promise!None
  <1>3. [Account!Next]_(Account!vars) => [Promise!Next]_(Promise!vars)
    BY DEF Account!Next, Account!vars, Account!None, Account!Grow,
       Account!Open, Account!Resume, Account!Judge, Account!GiveUp,
       Account!Move, Account!Jump, Account!End, Account!MaySave,
       Account!PassOver, Account!SettledTo, Account!Settled,
       Promise!Next, Promise!vars, Promise!None, Promise!Grow,
       Promise!Open, Promise!Resume, Promise!Judge, Promise!GiveUp,
       Promise!Move, Promise!Jump, Promise!End, Promise!MaySave,
       Promise!PassOver, Promise!SettledTo, Promise!Settled
  <1>4. Promise!Spec => Promise!Final
    BY <1>1, Promise!SavedIsFinal
  <1> QED
    BY <1>2, <1>3, <1>4, ImplementsAccount, PTL
       DEF KeepsAccount, Account!Spec, Promise!Spec
=============================================================================
