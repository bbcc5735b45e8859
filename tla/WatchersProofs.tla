--------------------------- MODULE WatchersProofs ----------------------------
(***************************************************************************)
(* Proofs about the watchers: readiness follows the upstreams in time, for *)
(* every interval and every duration of a pass.                            *)
(***************************************************************************)
EXTENDS Watchers, Config, TLAPS

S    == Interval["status"]
P    == PassMax
Gap  == PassGap("status")
at_s == step["status"]

Wrong == healthy # AllUp

(* Time is measured from the last change of an upstream.  A pass that does *)
(* not know of it began before it; and a flag that is wrong was set by     *)
(* such a pass, or is about to be set by one that began after it.          *)
StatusInv ==
    /\ LoopTypeOK /\ bfAnswer \in BOOLEAN
    /\ "status" \in enabled
    /\ at_s \in 0..2
    /\ at_s > 0 /\ ~pending["status"] => lasts["status"] <= S - next["status"]
    /\ at_s = 2 /\ bfAnswer # ("blockfrost" \in up) => steady <= lasts["status"]
    /\ Wrong /\ at_s = 0 /\ ~pending["status"] => steady <= S - next["status"]
    /\ Wrong /\ at_s = 0 /\ pending["status"] => steady <= Gap
    /\ Wrong /\ at_s > 0 => steady <= Gap + lasts["status"]

LEMMA GapIsLarger == S \in Nat \ {0} /\ P \in Nat /\ Gap \in Nat /\ S <= Gap /\ P <= Gap
  BY LoopAssumption DEF S, P, Gap, PassGap, Larger, Loops

LEMMA StatusInitially == Init => StatusInv
<1> SUFFICES ASSUME Init PROVE StatusInv
  OBVIOUS
<1>1. enabled \subseteq Loops /\ "status" \in enabled
  BY ConfigurationsAssumption DEF Init
<1>2. pending \in [Loops -> BOOLEAN]
  BY DEF Init, LoopInit
<1>3. /\ next \in [Loops -> Nat] /\ \A l \in Loops : next[l] \in 1..Interval[l]
      /\ lasts \in [Loops -> 0..PassMax] /\ step \in [Loops -> Nat]
      /\ events \in 0..MaxEvents
  BY LoopAssumption DEF Init, LoopInit
<1>4. LoopTypeOK
  BY <1>1, <1>2, <1>3 DEF Init, LoopInit, LoopTypeOK
<1>5. at_s = 0 /\ steady = 0 /\ next["status"] = S
  BY DEF Init, LoopInit, at_s, Loops, S
<1>6. bfAnswer \in BOOLEAN
  BY DEF Init
<1> QED
  BY <1>1, <1>4, <1>5, <1>6, GapIsLarger DEF StatusInv

(* A step of another loop leaves what the status watcher has alone. *)
LEMMA ElsewhereSteps ==
  ASSUME StatusInv, LoopTypeOK',
         UNCHANGED <<enabled, up, steady, healthy, next, bfAnswer>>,
         step'["status"] = step["status"],
         pending'["status"] = pending["status"],
         lasts'["status"] = lasts["status"]
  PROVE  StatusInv'
  BY DEF StatusInv, at_s, Wrong, AllUp, S, Gap

LEMMA StatusSteps ==
  ASSUME StatusInv, Status
  PROVE  StatusInv'
<1> USE LoopAssumption, GapIsLarger DEF Loops
<1>1. /\ steady \in Nat /\ steady' = steady /\ next' = next
      /\ next["status"] \in 1..S /\ lasts["status"] \in 0..P
      /\ enabled' = enabled /\ up' = up
  BY DEF StatusInv, LoopTypeOK, Status, StatusBegins, Begins, ProbeBlockfrost,
         ProbeNode, S, P
<1>2. CASE StatusBegins
  <2>1. /\ at_s = 0 /\ pending["status"]
        /\ at_s' = 1 /\ lasts'["status"] = 0 /\ Wrong' = Wrong
    BY <1>2 DEF StatusInv, LoopTypeOK, StatusBegins, Begins, Wrong, AllUp, at_s
  <2>2. LoopTypeOK' /\ bfAnswer' \in BOOLEAN
    BY <1>2 DEF StatusInv, LoopTypeOK, StatusBegins, Begins
  <2> QED
    BY <1>1, <2>1, <2>2 DEF StatusInv, S
<1>3. CASE ProbeBlockfrost
  <2>1. /\ at_s = 1 /\ at_s' = 2 /\ Wrong' = Wrong
        /\ lasts' = lasts /\ pending' = pending
        /\ bfAnswer' = ("blockfrost" \in up')
    BY <1>3 DEF StatusInv, LoopTypeOK, ProbeBlockfrost, Goes, Wrong, AllUp, at_s
  <2>2. LoopTypeOK'
    BY <1>3 DEF StatusInv, LoopTypeOK, ProbeBlockfrost, Goes
  <2>3. bfAnswer' \in BOOLEAN
    BY <2>1
  <2> QED
    BY <1>1, <2>1, <2>2, <2>3 DEF StatusInv, S
<1>4. CASE ProbeNode
  <2>1. /\ at_s = 2 /\ at_s' = 0 /\ lasts' = lasts /\ pending' = pending
    BY <1>4 DEF StatusInv, LoopTypeOK, ProbeNode, Goes, at_s
  <2>2. Wrong' => bfAnswer # ("blockfrost" \in up)
    <3>1. AllUp <=> ("blockfrost" \in up /\ "node" \in up)
      BY DEF StatusInv, LoopTypeOK, AllUp, Upstreams
    <3>2. AllUp' = AllUp /\ healthy' = (bfAnswer /\ "node" \in up)
      BY <1>4 DEF ProbeNode, HealthOf, AllUp
    <3>3. bfAnswer \in BOOLEAN
      BY DEF StatusInv
    <3> QED
      BY <3>1, <3>2, <3>3 DEF Wrong, AllUp
  <2>3. Wrong' => steady <= lasts["status"]
    BY <2>1, <2>2 DEF StatusInv
  <2>4. LoopTypeOK' /\ bfAnswer' \in BOOLEAN
    <3>1. healthy' \in BOOLEAN
      BY <1>4 DEF ProbeNode, HealthOf, StatusInv
    <3> QED
      BY <1>4, <3>1 DEF StatusInv, LoopTypeOK, ProbeNode, Goes
  <2> QED
    BY <1>1, <2>1, <2>3, <2>4 DEF StatusInv, S, P
<1> QED
  BY <1>2, <1>3, <1>4 DEF Status

LEMMA StatusTicks ==
  ASSUME StatusInv, Tick
  PROVE  StatusInv'
<1> USE LoopAssumption, GapIsLarger DEF StatusInv, Loops
<1>1. LoopTypeOK'
  BY DEF LoopTypeOK, Tick, LoopTick, TickerTick, OnTime, Event
<1>2. /\ steady' \in Nat /\ steady' <= steady + 1
      /\ at_s' = at_s /\ Wrong' = Wrong
  BY DEF LoopTypeOK, Tick, LoopTick, Wrong, AllUp, at_s
<1>3. at_s > 0 => lasts'["status"] = lasts["status"] + 1
  BY DEF LoopTypeOK, Tick, LoopTick, at_s
<1>4. at_s = 0 => ~pending["status"]
  BY DEF Tick, LoopTick, OnTime, at_s
<1>5. /\ next["status"] = 1 => pending'["status"]
      /\ next["status"] # 1 => /\ next'["status"] = next["status"] - 1
                               /\ pending'["status"] = pending["status"]
  BY DEF LoopTypeOK, Tick, LoopTick, TickerTick
<1> QED
  BY <1>1, <1>2, <1>3, <1>4, <1>5 DEF LoopTypeOK, Tick, LoopTick, S

LEMMA StatusFlips ==
  ASSUME StatusInv, UpstreamChanges
  PROVE  StatusInv'
<1> USE LoopAssumption, GapIsLarger DEF Loops
<1>1. /\ steady' = 0 /\ calm' = 0 /\ up' \subseteq Upstreams /\ events' \in 0..MaxEvents
      /\ UNCHANGED <<enabled, healthy, step, pending, next, lasts, bfAnswer>>
  BY DEF UpstreamChanges, Flip, StatusInv, LoopTypeOK, Event
<1>2. LoopTypeOK'
  BY <1>1 DEF StatusInv, LoopTypeOK
<1>3. /\ next["status"] \in 1..S /\ lasts["status"] \in 0..P
  BY DEF StatusInv, LoopTypeOK, S, P
<1> QED
  BY <1>1, <1>2, <1>3 DEF StatusInv, at_s, S

(* The steps of the pool and of the network watcher. *)
LEMMA OtherLoops ==
  ASSUME StatusInv, Watching \/ Collecting, UNCHANGED bfAnswer
  PROVE  StatusInv'
<1> USE LoopAssumption DEF Loops
<1> DEFINE Moves(l, n) ==
             /\ n \in Nat
             /\ UNCHANGED <<enabled, up, steady, healthy, next>>
             /\ step' = [step EXCEPT ![l] = n]
             /\ \/ pending' = pending /\ lasts' = lasts
                \/ /\ pending' = [pending EXCEPT ![l] = FALSE]
                   /\ lasts' = [lasts EXCEPT ![l] = 0]
             /\ events' \in 0..MaxEvents /\ calm' \in Nat
<1>1. PICK l \in {"pool", "network"}, n \in Nat : Moves(l, n)
  <2> USE DEF StatusInv, LoopTypeOK, Goes, CallFails, Event
  <2>1. ASSUME NEW l \in {"pool", "network"}, Begins(l, healthy)
        PROVE  Moves(l, IF healthy THEN 1 ELSE 0)
    BY <2>1 DEF Begins
  <2>2. at \in Nat /\ at + 1 \in Nat
    BY DEF at
  <2>3. ASSUME Cached \/ FetchFails \/ \E isBad \in BOOLEAN : Fetched(isBad)
        PROVE  Moves("pool", 0) \/ Moves("pool", at + 1)
    BY <2>2, <2>3 DEF Cached, Uses, FetchFails, Fetched
  <2>4. ASSUME Collects \/ CollectFails
        PROVE  \/ Moves("network", 0)
               \/ Moves("network", step["network"] + 1)
    <3>1. CASE Collects
      <4>1. step["network"] \in Nat /\ step["network"] + 1 \in Nat
        OBVIOUS
      <4>2. NextCall(step["network"]) \in {0, step["network"] + 1}
        BY DEF NextCall
      <4>3. /\ UNCHANGED <<enabled, up, events, steady, calm, healthy, pending,
                           next, lasts>>
            /\ step' = [step EXCEPT !["network"] = NextCall(step["network"])]
        BY <3>1 DEF Collects
      <4> QED
        BY <4>1, <4>2, <4>3
    <3>2. CASE CollectFails
      BY <3>2 DEF CollectFails
    <3> QED
      BY <2>4, <3>1, <3>2
  <2>5. step["network"] + 1 \in Nat
    OBVIOUS
  <2> QED
    BY <2>1, <2>2, <2>3, <2>4, <2>5
       DEF Watching, Collecting, PoolBegins, NetworkBegins
<1>2. /\ step'["status"] = step["status"]
      /\ pending'["status"] = pending["status"]
      /\ lasts'["status"] = lasts["status"]
  BY <1>1 DEF StatusInv, LoopTypeOK
<1>3. LoopTypeOK'
  <2>0. /\ step \in [Loops -> Nat] /\ pending \in [Loops -> BOOLEAN]
        /\ lasts \in [Loops -> 0..PassMax] /\ 0 \in 0..PassMax
    BY DEF StatusInv, LoopTypeOK
  <2>1. step' \in [Loops -> Nat]
    BY <1>1, <2>0
  <2>3. pending' \in [Loops -> BOOLEAN]
    BY <1>1, <2>0
  <2>4. lasts' \in [Loops -> 0..PassMax]
    BY <1>1, <2>0
  <2>2. /\ UNCHANGED <<enabled, up, steady, healthy, next>>
        /\ events' \in 0..MaxEvents /\ calm' \in Nat
    BY <1>1
  <2> QED
    BY <2>1, <2>2, <2>3, <2>4 DEF StatusInv, LoopTypeOK
<1> QED
  BY <1>1, <1>2, <1>3, ElsewhereSteps

LEMMA StatusRestarts ==
  ASSUME StatusInv, PanicRestarts
  PROVE  StatusInv'
<1> USE LoopAssumption, GapIsLarger DEF Loops
<1>1. pending' \in [Loops -> BOOLEAN]
  BY DEF PanicRestarts
<1>2. /\ next' \in [Loops -> Nat] /\ \A l \in Loops : next'[l] \in 1..Interval[l]
      /\ lasts' \in [Loops -> 0..PassMax] /\ step' \in [Loops -> Nat]
  BY DEF PanicRestarts
<1>3. LoopTypeOK'
  BY <1>1, <1>2 DEF PanicRestarts, StatusInv, LoopTypeOK
<1>4. at_s' = 0 /\ steady' = 0 /\ next'["status"] = S /\ bfAnswer' \in BOOLEAN
      /\ enabled' = enabled
  BY DEF PanicRestarts, at_s, S
<1> QED
  BY <1>3, <1>4 DEF StatusInv, S

LEMMA StatusInductive == StatusInv /\ [Next]_vars => StatusInv'
<1> SUFFICES ASSUME StatusInv, [Next]_vars PROVE StatusInv'
  OBVIOUS
<1>1. CASE UNCHANGED vars
  BY <1>1 DEF vars, loopVars, StatusInv, LoopTypeOK, at_s, Wrong, AllUp, S, Gap
<1>2. CASE Next
  BY <1>2, StatusSteps, OtherLoops, StatusTicks, StatusFlips, StatusRestarts
     DEF Next
<1> QED
  BY <1>1, <1>2

LEMMA ReadyWhenCalm == StatusInv => ReadyInTime
<1> SUFFICES ASSUME StatusInv, steady >= ReadyBound
             PROVE  ReadyProbe = 200 <=> AllUp
  BY DEF ReadyInTime
<1>1. /\ steady \in Nat /\ lasts["status"] \in 0..P /\ next["status"] \in 1..S
  BY LoopAssumption DEF StatusInv, LoopTypeOK, Loops, P, S
<1>2. ReadyBound = Gap + P + 1
  BY DEF ReadyBound, Gap, P
<1>3. ~Wrong
  BY <1>1, <1>2, GapIsLarger DEF StatusInv
<1> QED
  BY <1>3 DEF Wrong, ReadyProbe, StatusInv, LoopTypeOK

-----------------------------------------------------------------------------
(* For every interval and every duration of a pass, /readyz and the health *)
(* flag contradict the upstreams for less than PassGap + PassMax + 1.      *)
THEOREM Readiness == Spec => []ReadyInTime
  BY ReadyWhenCalm, StatusInitially, StatusInductive, PTL DEF Spec

-----------------------------------------------------------------------------
n_n   == step["network"]
R     == Interval["network"]
NGap  == PassGap("network")

(* The ages are at most x, and those of epoch and block of the same pass.  *)
Good(x) ==
    /\ \A c \in CallSet : netShown[c] <= x
    /\ n_n # 5 => netShown["epoch"] - netShown["block"] \in 0..P

(* Until a pass was made with the flag known to be true, the calm has not  *)
(* lasted long; after it, ages are counted from the beginning of a pass.   *)
NetTimes ==
    /\ n_n > 0 /\ ~pending["network"] => lasts["network"] <= R - next["network"]
    /\ n_n = 0 /\ ~pending["network"] =>
          \/ calm < ReadyBound + (R - next["network"])
          \/ Good(R - next["network"])
    /\ n_n = 0 /\ pending["network"] => calm < ReadyBound + NGap \/ Good(NGap)
    /\ n_n > 0 =>
          /\ \/ calm < ReadyBound + NGap + lasts["network"]
             \/ Good(NGap + lasts["network"])
          /\ \A i \in 1..(n_n - 1) : netShown[Calls[i]] <= lasts["network"]

NetInv ==
    /\ netShown \in [CallSet -> 0..NetAgeMax]
    /\ n_n \in 0..5
    /\ calm <= steady
    /\ calm > 0 => AllUp
    /\ "network" \in enabled => NetTimes

LEMMA NetFacts ==
  /\ R \in Nat \ {0} /\ NGap \in Nat /\ R <= NGap /\ P <= NGap
  /\ ReadyBound \in Nat \ {0}
  /\ NetAgeBound = NGap + P /\ NetAgeMax = NGap + P + 1
  /\ CallSet = {"genesis", "pools", "network", "epoch", "block"}
  /\ Len(Calls) = 5
  /\ Calls[1] = "genesis" /\ Calls[2] = "pools" /\ Calls[3] = "network"
  /\ Calls[4] = "epoch" /\ Calls[5] = "block"
<1>1. /\ R \in Nat \ {0} /\ NGap \in Nat /\ R <= NGap /\ P <= NGap
      /\ NetAgeBound = NGap + P /\ NetAgeMax = NGap + P + 1
  BY LoopAssumption DEF R, P, NGap, PassGap, Larger, Loops, NetAgeBound, NetAgeMax
<1>2. ReadyBound \in Nat \ {0}
  BY GapIsLarger DEF ReadyBound, Gap, P
<1>3. Len(Calls) = 5 /\ DOMAIN Calls = 1..5
  BY DEF Calls
<1>4. /\ Calls[1] = "genesis" /\ Calls[2] = "pools" /\ Calls[3] = "network"
      /\ Calls[4] = "epoch" /\ Calls[5] = "block"
  BY DEF Calls
<1>5. CallSet = {"genesis", "pools", "network", "epoch", "block"}
  <2>1. 1..5 = {1, 2, 3, 4, 5}
    OBVIOUS
  <2>2. CallSet = {Calls[i] : i \in {1, 2, 3, 4, 5}}
    BY <1>3, <2>1 DEF CallSet
  <2> QED
    BY <2>2, <1>4
<1> QED
  BY <1>1, <1>2, <1>3, <1>4, <1>5

LEMMA NetInitially == Init => NetInv
<1> SUFFICES ASSUME Init PROVE NetInv
  OBVIOUS
<1>1. n_n = 0 /\ steady = 0 /\ calm = 0 /\ next["network"] = R
  BY DEF Init, LoopInit, n_n, R, Loops
<1>2. netShown \in [CallSet -> 0..NetAgeMax]
  BY NetFacts, GapIsLarger DEF Init, NetworkInit
<1> QED
  BY <1>1, <1>2, NetFacts DEF NetInv, NetTimes

(* The steps of the others; a call that fails makes the calm begin anew. *)
LEMMA NetElsewhere ==
  ASSUME NetInv, StatusInv,
         UNCHANGED <<enabled, up, steady, next, netShown>>,
         step'["network"] = step["network"],
         pending'["network"] = pending["network"],
         lasts'["network"] = lasts["network"],
         calm' \in {0, calm}
  PROVE  NetInv'
<1> USE NetFacts DEF NetInv
<1>1. /\ calm \in Nat /\ steady \in Nat
      /\ next["network"] \in 1..R /\ lasts["network"] \in 0..P
  BY DEF StatusInv, LoopTypeOK, Loops, R, P
<1>2. "network" \in enabled => NetTimes'
  BY <1>1 DEF NetTimes, Good, n_n
<1> QED
  BY <1>1, <1>2 DEF n_n, AllUp

LEMMA NetworkSteps ==
  ASSUME NetInv, StatusInv, Collecting
  PROVE  NetInv'
<1> USE NetFacts, LoopAssumption DEF Loops
<1>1. /\ calm \in Nat /\ steady \in Nat /\ "network" \in DOMAIN step
      /\ next["network"] \in 1..R /\ lasts["network"] \in 0..P
      /\ pending["network"] \in BOOLEAN
  BY DEF StatusInv, LoopTypeOK, R, P
<1>2. UNCHANGED <<enabled, up, steady, next>> /\ calm' \in {0, calm}
  BY DEF Collecting, NetworkBegins, Begins, Collects, CollectFails, CallFails
<1>3. CASE NetworkBegins
  <2>1. /\ n_n = 0 /\ pending["network"] /\ ~pending'["network"]
        /\ lasts'["network"] = 0 /\ UNCHANGED <<netShown, calm>>
        /\ n_n' = IF healthy THEN 1 ELSE 0
    BY <1>3 DEF NetworkBegins, Begins, StatusInv, LoopTypeOK, n_n
  <2>2. ~healthy => calm < ReadyBound
    <3>1. calm >= ReadyBound => healthy
      BY <1>1, ReadyWhenCalm DEF NetInv, ReadyInTime, ReadyProbe
    <3> QED
      BY <1>1, <3>1
  <2>3. NetTimes => NetTimes'
    BY <1>1, <1>2, <2>1, <2>2 DEF NetTimes, Good
  <2> QED
    BY <1>2, <2>1, <2>3 DEF NetInv, AllUp
<1>4. CASE Collects
  <2> DEFINE c == Calls[n_n]
  <2>1. /\ n_n \in 1..5 /\ c \in CallSet
        /\ n_n' = IF n_n = 5 THEN 0 ELSE n_n + 1
        /\ netShown' = [netShown EXCEPT ![c] = 0]
        /\ UNCHANGED <<calm, pending, lasts>>
    BY <1>4 DEF Collects, Goes, NextCall, NetInv, StatusInv, LoopTypeOK, n_n
  <2>2. netShown' \in [CallSet -> 0..NetAgeMax]
    BY <2>1, GapIsLarger DEF NetInv
  <2>3. ASSUME NetTimes, n_n # 5
        PROVE  NetTimes'
    <3>1. \A i \in 1..(n_n' - 1) : netShown'[Calls[i]] <= lasts["network"]
      BY <1>1, <2>1, <2>3 DEF NetTimes, NetInv
    <3>2. Good(NGap + lasts["network"]) => Good(NGap + lasts["network"])'
      BY <1>1, <2>1, <2>3, GapIsLarger DEF Good, NetInv
    <3> QED
      BY <1>1, <1>2, <2>1, <2>3, <3>1, <3>2 DEF NetTimes
  <2>4. ASSUME NetTimes, n_n = 5
        PROVE  NetTimes'
    <3>1. \A d \in CallSet : netShown'[d] <= lasts["network"]
      BY <1>1, <2>1, <2>4 DEF NetTimes, NetInv
    <3>2. netShown'["epoch"] - netShown'["block"] \in 0..P
      BY <1>1, <2>1, <2>2, <2>4, <3>1, GapIsLarger DEF NetInv
    <3>3. Good(lasts["network"])'
      BY <2>1, <3>1, <3>2 DEF Good
    <3>4. /\ ~pending'["network"] => Good(R - next["network"])'
          /\ pending'["network"] => Good(NGap)'
      <4>1. ~pending["network"] => lasts["network"] <= R - next["network"]
        BY <1>1, <2>1, <2>4 DEF NetTimes
      <4>2. lasts["network"] <= NGap
        BY <1>1, GapIsLarger
      <4>3. \A d \in CallSet : netShown'[d] \in Nat
        BY <2>2
      <4> QED
        BY <1>1, <1>2, <2>1, <3>1, <3>2, <4>1, <4>2, <4>3 DEF Good
    <3> QED
      BY <2>1, <2>4, <3>4 DEF NetTimes
  <2> QED
    BY <1>2, <2>1, <2>2, <2>3, <2>4 DEF NetInv, AllUp
<1>5. CASE CollectFails
  <2>1. /\ n_n' = 0 /\ calm' = 0 /\ UNCHANGED <<netShown, pending, lasts>>
    BY <1>5 DEF CollectFails, CallFails, Goes, StatusInv, LoopTypeOK, n_n
  <2> QED
    BY <1>1, <1>2, <2>1 DEF NetInv, NetTimes
<1> QED
  BY <1>3, <1>4, <1>5 DEF Collecting

LEMMA NetTicks ==
  ASSUME NetInv, StatusInv, Tick
  PROVE  NetInv'
<1> USE NetFacts, LoopAssumption, GapIsLarger DEF Loops
<1>1. /\ calm \in Nat /\ steady \in Nat
      /\ next["network"] \in 1..R /\ lasts["network"] \in 0..P
      /\ pending["network"] \in BOOLEAN
  BY DEF StatusInv, LoopTypeOK, R, P
<1>2. /\ n_n' = n_n /\ UNCHANGED <<enabled, up>>
      /\ n_n = 0 => ~pending["network"]
      /\ n_n > 0 => lasts'["network"] = lasts["network"] + 1
      /\ lasts["network"] + 1 \in Nat
  BY <1>1 DEF Tick, LoopTick, OnTime, n_n
<1>3. /\ calm' \in Nat /\ calm' <= calm + 1 /\ calm' <= steady'
      /\ calm' > 0 => AllUp'
  BY <1>1 DEF NetInv, Tick, LoopTick, AllUp
<1>4. /\ next["network"] = 1 =>
            /\ next'["network"] = R
            /\ "network" \in enabled => pending'["network"]
      /\ next["network"] # 1 => /\ next'["network"] = next["network"] - 1
                                /\ pending'["network"] = pending["network"]
      /\ pending["network"] => pending'["network"]
  BY <1>1 DEF Tick, LoopTick, TickerTick, StatusInv, LoopTypeOK, R
<1>5. /\ netShown' \in [CallSet -> 0..NetAgeMax]
      /\ \A c \in CallSet : /\ netShown'[c] <= netShown[c] + 1
                            /\ netShown'[c] = IF netShown[c] = NetAgeMax THEN NetAgeMax ELSE netShown[c] + 1
  BY DEF NetInv, Tick, NetworkTick
<1> DEFINE Aged(x) ==
             /\ \A c \in CallSet : netShown'[c] <= x
             /\ n_n' # 5 => netShown'["epoch"] - netShown'["block"] \in 0..P
<1>6. \A x \in Nat : Good(x) => Aged(x + 1)
  BY <1>2, <1>5 DEF Good, NetInv
<1>7. ASSUME NetTimes, "network" \in enabled
      PROVE  NetTimes'
  <2>1. CASE n_n = 0 /\ next["network"] = 1
    <3>1. calm < ReadyBound + (R - 1) \/ Good(R - 1)
      BY <2>1, <1>2, <1>7 DEF NetTimes
    <3>2. calm' < ReadyBound + NGap \/ Aged(R)
      BY <3>1, <1>1, <1>3, <1>6
    <3>3. calm' < ReadyBound + NGap \/ Aged(NGap)
      BY <3>2, <1>5
    <3> QED
      BY <2>1, <3>3, <1>2, <1>4, <1>7 DEF NetTimes, Good
  <2>2. CASE n_n = 0 /\ next["network"] # 1
    <3>1. /\ R - next["network"] \in Nat
          /\ R - next'["network"] = (R - next["network"]) + 1
      BY <2>2, <1>1, <1>4
    <3>2. \/ calm < ReadyBound + (R - next["network"])
          \/ Good(R - next["network"])
      BY <2>2, <1>2, <1>7 DEF NetTimes
    <3>3. \/ calm' < ReadyBound + (R - next'["network"])
          \/ Aged(R - next'["network"])
      BY <3>1, <3>2, <1>1, <1>3, <1>6
    <3>4. ~pending'["network"]
      BY <2>2, <1>2, <1>4
    <3> QED
      BY <2>2, <3>3, <3>4, <1>2 DEF NetTimes, Good
  <2>3. CASE n_n > 0
    <3>1. /\ NGap + lasts["network"] \in Nat
          /\ NGap + lasts'["network"] = (NGap + lasts["network"]) + 1
      BY <2>3, <1>1, <1>2
    <3>2. \/ calm < ReadyBound + NGap + lasts["network"]
          \/ Good(NGap + lasts["network"])
      BY <2>3, <1>7 DEF NetTimes
    <3>3. \/ calm' < ReadyBound + NGap + lasts'["network"]
          \/ Aged(NGap + lasts'["network"])
      <4>1. ReadyBound + NGap + lasts'["network"]
               = (ReadyBound + NGap + lasts["network"]) + 1
        BY <2>3, <1>1, <1>2
      <4> QED
        BY <3>1, <3>2, <4>1, <1>1, <1>3, <1>6
    <3>4. \A i \in 1..(n_n' - 1) : netShown'[Calls[i]] <= lasts'["network"]
      <4>1. \A i \in 1..(n_n - 1) : Calls[i] \in CallSet
        BY DEF NetInv
      <4>2. \A i \in 1..(n_n - 1) : netShown[Calls[i]] <= lasts["network"]
        BY <2>3, <1>7 DEF NetTimes
      <4>3. \A i \in 1..(n_n - 1) : /\ netShown[Calls[i]] \in Nat
                                    /\ netShown'[Calls[i]] \in Nat
                                    /\ netShown'[Calls[i]] <= netShown[Calls[i]] + 1
        BY <4>1, <1>5 DEF NetInv
      <4> QED
        BY <2>3, <4>2, <4>3, <1>1, <1>2
    <3>5. ~pending'["network"] => lasts'["network"] <= R - next'["network"]
      <4> SUFFICES ASSUME ~pending'["network"]
                   PROVE  lasts'["network"] <= R - next'["network"]
        OBVIOUS
      <4>1. ~pending["network"] /\ next["network"] # 1
        BY <1>1, <1>4, <1>7
      <4> QED
        BY <2>3, <4>1, <1>1, <1>2, <1>4, <1>7 DEF NetTimes
    <3> QED
      BY <2>3, <1>2, <3>3, <3>4, <3>5 DEF NetTimes, Good
  <2> QED
    BY <2>1, <2>2, <2>3 DEF NetInv
<1> QED
  BY <1>2, <1>3, <1>5, <1>7 DEF NetInv

LEMMA NetFlips ==
  ASSUME NetInv, StatusInv, UpstreamChanges
  PROVE  NetInv'
<1> USE NetFacts, LoopAssumption DEF Loops
<1>1. /\ calm' = 0 /\ steady' = 0
      /\ UNCHANGED <<enabled, netShown, step, pending, next, lasts>>
  BY DEF UpstreamChanges, Flip
<1>2. next["network"] \in 1..R /\ lasts["network"] \in 0..P
  BY DEF StatusInv, LoopTypeOK, R, P
<1>3. NetTimes => NetTimes'
  BY <1>1, <1>2, GapIsLarger DEF NetTimes, n_n
<1> QED
  BY <1>1, <1>3 DEF NetInv, n_n

LEMMA NetRestarts ==
  ASSUME NetInv, StatusInv, PanicRestarts
  PROVE  NetInv'
<1> USE NetFacts, LoopAssumption, GapIsLarger DEF Loops
<1>1. /\ calm' = 0 /\ steady' = 0 /\ n_n' = 0 /\ next'["network"] = R
      /\ netShown' \in [CallSet -> 0..NetAgeMax]
  BY DEF PanicRestarts, n_n, R
<1> QED
  BY <1>1 DEF NetInv, NetTimes

LEMMA NetInductive == NetInv /\ StatusInv /\ [Next]_vars => NetInv'
<1> SUFFICES ASSUME NetInv, StatusInv, [Next]_vars PROVE NetInv'
  OBVIOUS
<1> USE LoopAssumption DEF Loops
<1>1. CASE UNCHANGED vars
  BY <1>1, NetElsewhere DEF vars, loopVars
<1>2. CASE Status /\ UNCHANGED <<poolVars, netShown>>
  <2>1. /\ UNCHANGED <<enabled, up, steady, next, netShown, calm>>
        /\ step'["network"] = step["network"]
        /\ pending'["network"] = pending["network"]
        /\ lasts'["network"] = lasts["network"]
    BY <1>2 DEF Status, StatusBegins, Begins, ProbeBlockfrost, ProbeNode, Goes,
                StatusInv, LoopTypeOK
  <2> QED
    BY <2>1, NetElsewhere
<1>3. CASE Watching /\ UNCHANGED <<bfAnswer, netShown>>
  <2>1. /\ UNCHANGED <<enabled, up, steady, next, netShown>>
        /\ step'["network"] = step["network"]
        /\ pending'["network"] = pending["network"]
        /\ lasts'["network"] = lasts["network"]
        /\ calm' \in {0, calm}
    BY <1>3 DEF Watching, PoolBegins, Begins, Cached, Fetched, FetchFails, Uses,
                Goes, CallFails, StatusInv, LoopTypeOK
  <2> QED
    BY <2>1, NetElsewhere
<1> QED
  BY <1>1, <1>2, <1>3, NetworkSteps, NetTicks, NetFlips, NetRestarts DEF Next

(* For every interval and every duration of a pass: NetFreshBound after    *)
(* the upstreams are in order no gauge of the network is older than an     *)
(* interval (or a pass that is longer) and a pass, and the epoch and the   *)
(* slot are of the same pass.                                              *)
THEOREM NetworkRecovers == Spec => []FreshNetwork
<1>1. NetInv /\ StatusInv => FreshNetwork
  <2> SUFFICES ASSUME NetInv, StatusInv, "network" \in enabled,
                      calm >= NetFreshBound
               PROVE  /\ \A c \in CallSet : netShown[c] <= NetAgeBound
                      /\ step["network"] = 0 =>
                            netShown["epoch"] - netShown["block"] \in 0..PassMax
    BY DEF FreshNetwork
  <2> USE NetFacts, GapIsLarger
  <2>1. /\ calm \in Nat /\ NetFreshBound = ReadyBound + NGap + P
        /\ next["network"] \in 1..R /\ lasts["network"] \in 0..P
        /\ pending["network"] \in BOOLEAN
    BY LoopAssumption DEF StatusInv, LoopTypeOK, Loops, R, P, NetFreshBound, NGap
  <2>2. PICK x \in 0..(NGap + P) : Good(x)
    <3>1. CASE n_n = 0 /\ ~pending["network"]
      BY <2>1, <3>1 DEF NetInv, NetTimes
    <3>2. CASE n_n = 0 /\ pending["network"]
      BY <2>1, <3>2 DEF NetInv, NetTimes
    <3>3. CASE n_n > 0
      BY <2>1, <3>3 DEF NetInv, NetTimes
    <3> QED
      BY <3>1, <3>2, <3>3 DEF NetInv
  <2> QED
    BY <2>2 DEF Good, NetInv, n_n, P
<1> QED
  BY <1>1, StatusInitially, StatusInductive, NetInitially, NetInductive, PTL
     DEF Spec

(* The intervals that the application derives are what LoopAssumption asks *)
(* for, if the interval of the pool watcher is positive; Validate does not *)
(* look at it, and a ticker of zero would end the process.                 *)
THEOREM IntervalsArePositive ==
  ASSUME NEW c, c.poolInterval \in Nat \ {0}, c.statusInterval \in Int
  PROVE  RefreshInterval(c) \in [Loops -> Nat \ {0}]
  BY DEF RefreshInterval, DefaultRefreshInterval, Loops

-----------------------------------------------------------------------------
m_p  == step["pool"]
I    == Interval["pool"]
MGap == PassGap("pool")

(* When the flag is true and what was cached before the calm is gone. *)
W == Larger(ReadyBound, 2 * I + 1)

LookupPool(i) == ActivePools[((i - 1) \div 4) + 1]
LookupKind(i) == Kinds[((i - 1) % 4) + 1]

(* What the gauges show was stored, and was then at most x old. *)
Shows(x) ==
    /\ \A p \in Pools, g \in Gauges : shown[p][g] <= 2 * I + x
    /\ deceived = {}

(* The lookups that the pass has behind it. *)
Behind ==
    \A i \in 1..(m_p - 1) :
        /\ LookupKind(i) \in Gauges =>
              shown[LookupPool(i)][LookupKind(i)] <= 2 * I + lasts["pool"]
        /\ LookupKind(i) = "account" /\ calm >= W + lasts["pool"] =>
              LookupPool(i) \notin deceived

(* As for the network; a pass that began when W had passed is completed,   *)
(* for nothing bad is in the cache and nothing bad is fetched.             *)
PoolTimes ==
    /\ m_p > 0 /\ ~pending["pool"] => lasts["pool"] <= I - next["pool"]
    /\ m_p = 0 /\ ~pending["pool"] =>
          calm < W + (I - next["pool"]) \/ Shows(I - next["pool"])
    /\ m_p = 0 /\ pending["pool"] => calm < W + MGap \/ Shows(MGap)
    /\ m_p > 0 =>
          /\ calm < W + MGap + lasts["pool"] \/ Shows(MGap + lasts["pool"])
          /\ Behind

PoolInv ==
    /\ PoolTypeOK
    /\ \A k \in bad : calm <= cache[k]
    /\ steady <= CalmMax /\ calm <= CalmMax
    /\ "pool" \in enabled => PoolTimes

LEMMA PoolFacts ==
  /\ I \in Nat \ {0} /\ MGap \in Nat /\ I <= MGap /\ P <= MGap
  /\ W \in Nat /\ 2 * I < W /\ ReadyBound <= W
  /\ cacheTTL = 2 * I /\ AgeBound = 2 * I + MGap + P /\ AgeMax = 2 * I + MGap + P + 1
  /\ FreshBound = W + MGap + P
  /\ CalmMax \in Nat
<1>1. /\ I \in Nat \ {0} /\ MGap \in Nat /\ I <= MGap /\ P <= MGap
      /\ cacheTTL = 2 * I /\ AgeBound = 2 * I + MGap + P
      /\ AgeMax = 2 * I + MGap + P + 1
  BY LoopAssumption DEF I, P, MGap, PassGap, Larger, Loops, cacheTTL, AgeBound, AgeMax
<1>2. ReadyBound \in Nat
  BY NetFacts
<1>3. W \in Nat /\ 2 * I < W /\ ReadyBound <= W /\ FreshBound = W + MGap + P
  BY <1>1, <1>2 DEF W, Larger, FreshBound, I, MGap, P
<1>4. NetFreshBound \in Nat
  BY <1>2, NetFacts, GapIsLarger DEF NetFreshBound, NGap, P
<1>5. CalmMax \in Nat
  BY <1>1, <1>3, <1>4, GapIsLarger DEF CalmMax, Larger
<1> QED
  BY <1>1, <1>3, <1>5

(* Where the lookups of a pass are. *)
LEMMA KindsAre ==
  /\ Kinds[1] = "metadata" /\ Kinds[2] = "info" /\ Kinds[3] = "relays"
  /\ Kinds[4] = "account"
  BY DEF Kinds

LEMMA LookupsAre ==
  /\ Lookups \in Nat
  /\ \A i \in 1..Lookups :
        LookupPool(i) \in Pools /\ LookupKind(i) \in {"metadata"} \cup Gauges
  /\ \A p \in Pools, g \in Gauges :
        \E i \in 1..Lookups : LookupPool(i) = p /\ LookupKind(i) = g
<1>1. /\ Len(ActivePools) \in Nat /\ DOMAIN ActivePools = 1..Len(ActivePools)
      /\ Lookups = 4 * Len(ActivePools) /\ Lookups \in Nat
  BY PoolsAssumption DEF Lookups
<1>2. ASSUME NEW i \in 1..Lookups
      PROVE  LookupPool(i) \in Pools /\ LookupKind(i) \in {"metadata"} \cup Gauges
  <2>1. ((i - 1) \div 4) + 1 \in 1..Len(ActivePools)
    BY <1>1
  <2>2. ((i - 1) % 4) + 1 \in {1, 2, 3, 4}
    BY <1>1
  <2> QED
    BY <1>1, <2>1, <2>2, KindsAre DEF LookupPool, LookupKind, Pools, Gauges
<1>3. ASSUME NEW p \in Pools, NEW g \in Gauges
      PROVE  \E i \in 1..Lookups : LookupPool(i) = p /\ LookupKind(i) = g
  <2>1. PICK j \in 1..Len(ActivePools) : p = ActivePools[j]
    BY <1>1 DEF Pools
  <2>2. PICK c \in {2, 3, 4} : Kinds[c] = g
    BY KindsAre DEF Gauges
  <2>3. /\ 4 * (j - 1) + c \in 1..Lookups
        /\ ((4 * (j - 1) + c - 1) \div 4) + 1 = j
        /\ ((4 * (j - 1) + c - 1) % 4) + 1 = c
    BY <1>1
  <2> QED
    BY <2>1, <2>2, <2>3 DEF LookupPool, LookupKind
<1> QED
  BY <1>1, <1>2, <1>3

LEMMA HealthyWhenCalm ==
  ASSUME NetInv, StatusInv, calm >= ReadyBound
  PROVE  healthy
<1>1. calm \in Nat /\ steady \in Nat
  BY DEF StatusInv, LoopTypeOK
<1> QED
  BY <1>1, NetFacts, ReadyWhenCalm DEF NetInv, ReadyInTime, ReadyProbe

LEMMA PoolInitially == Init => PoolInv
<1> SUFFICES ASSUME Init PROVE PoolInv
  OBVIOUS
<1>1. /\ m_p = 0 /\ steady = 0 /\ calm = 0 /\ next["pool"] = I
  BY DEF Init, LoopInit, m_p, I, Loops
<1>2. PoolTypeOK
  BY <1>1, PoolFacts, GapIsLarger, LookupsAre DEF Init, PoolInit, PoolTypeOK, m_p, Missing
<1>3. bad = {}
  BY DEF Init, PoolInit
<1> QED
  BY <1>1, <1>2, <1>3, PoolFacts DEF PoolInv, PoolTimes

(* The steps of the others. *)
LEMMA PoolElsewhere ==
  ASSUME PoolInv, StatusInv,
         UNCHANGED <<enabled, up, steady, next, poolVars>>,
         step'["pool"] = step["pool"],
         pending'["pool"] = pending["pool"],
         lasts'["pool"] = lasts["pool"],
         calm' \in {0, calm}
  PROVE  PoolInv'
<1>1. /\ calm \in Nat /\ steady \in Nat
      /\ next["pool"] \in 1..I /\ lasts["pool"] \in 0..P
  BY DEF StatusInv, LoopTypeOK, Loops, I, P
<1>2. PoolTypeOK'
  BY DEF PoolInv, PoolTypeOK, poolVars
<1>3. \A k \in bad' : calm' <= cache'[k]
  BY <1>1, PoolFacts DEF PoolInv, PoolTypeOK, poolVars
<1>4. m_p' = m_p /\ shown' = shown /\ deceived' = deceived
  BY DEF m_p, poolVars
<1>5. /\ \A x : Shows(x)' <=> Shows(x)
      /\ Behind => Behind'
  BY <1>1, <1>4, PoolFacts DEF Shows, Behind
<1>6. PoolTimes => PoolTimes'
  BY <1>1, <1>4, <1>5, PoolFacts DEF PoolTimes
<1> QED
  BY <1>1, <1>2, <1>3, <1>6, PoolFacts DEF PoolInv

(* What a lookup does to the gauges, by cases. *)
LEMMA UsesFacts ==
  ASSUME PoolTypeOK, StatusInv, m_p > 0, NEW age \in 0..cacheTTL, NEW isBad \in BOOLEAN,
         Uses(age, isBad)
  PROVE  /\ m_p \in 1..Lookups /\ Pool = LookupPool(m_p) /\ Kind = LookupKind(m_p)
         /\ m_p' \in {0, m_p + 1} /\ m_p' \in 0..Lookups
         /\ m_p' = 0 => m_p = Lookups \/ isBad
         /\ shown' \in [Pools -> [Gauges -> 0..AgeMax]]
         /\ \A p \in Pools, g \in Gauges : shown'[p][g] \in {shown[p][g], age}
         /\ m_p' # 0 \/ ~isBad =>
               (Kind \in Gauges => shown'[Pool][Kind] = age)
         /\ deceived' \subseteq deceived \cup {Pool}
         /\ ~isBad => /\ deceived' \subseteq deceived
                      /\ Kind = "account" => Pool \notin deceived'
<1>1. m_p \in 1..Lookups /\ Pool = LookupPool(m_p) /\ Kind = LookupKind(m_p)
  BY LookupsAre DEF PoolTypeOK, m_p, Pool, Kind, at, LookupPool, LookupKind
<1>2. Pool \in Pools /\ Kind \in {"metadata"} \cup Gauges
  BY <1>1, LookupsAre
<1>3. m_p' = IF (isBad /\ Kind = "info") \/ m_p = Lookups THEN 0 ELSE m_p + 1
  BY DEF Uses, Goes, m_p, at, StatusInv, LoopTypeOK, Loops
<1>4. m_p' \in {0, m_p + 1} /\ m_p' \in 0..Lookups /\ (m_p' = 0 => m_p = Lookups \/ isBad)
  BY <1>1, <1>3, LookupsAre
<1>5. /\ deceived' \subseteq deceived \cup {Pool}
      /\ ~isBad => /\ deceived' \subseteq deceived
                   /\ Kind = "account" => Pool \notin deceived'
  BY DEF Uses
<1>6. age \in 0..AgeMax
  BY PoolFacts, GapIsLarger
<1>7. CASE Kind \notin Gauges
  BY <1>1, <1>4, <1>5, <1>7 DEF Uses, PoolTypeOK
<1>8. CASE Kind \in Gauges
  <2>1. shown' = [shown EXCEPT ![Pool][Kind] =
                      IF isBad /\ Kind = "info" THEN shown[Pool][Kind] ELSE age]
    BY <1>8 DEF Uses
  <2>2. shown \in [Pools -> [Gauges -> 0..AgeMax]]
    BY DEF PoolTypeOK
  <2>3. shown' \in [Pools -> [Gauges -> 0..AgeMax]]
    BY <1>2, <1>6, <1>8, <2>1, <2>2
  <2>4. \A p \in Pools, g \in Gauges : shown'[p][g] \in {shown[p][g], age}
    BY <1>2, <1>8, <2>1, <2>2
  <2>5. m_p' # 0 \/ ~isBad => shown'[Pool][Kind] = age
    BY <1>2, <1>3, <1>8, <2>1, <2>2
  <2> QED
    BY <1>1, <1>4, <1>5, <2>3, <2>4, <2>5
<1> QED
  BY <1>7, <1>8

(* A lookup that is answered, by the cache or by Blockfrost.  An answer    *)
(* that is bad comes from before the calm, or ends it.                     *)
LEMMA UsesKeep ==
  ASSUME PoolInv, StatusInv, PoolTimes, m_p > 0,
         NEW age \in 0..cacheTTL, NEW isBad \in BOOLEAN, Uses(age, isBad),
         calm' \in {0, calm}, isBad => calm' < W,
         UNCHANGED <<next, pending, lasts>>
  PROVE  PoolTimes'
<1> USE PoolFacts
<1>1. /\ calm \in Nat /\ next["pool"] \in 1..I /\ lasts["pool"] \in 0..P
      /\ pending["pool"] \in BOOLEAN
  BY DEF StatusInv, LoopTypeOK, Loops, I, P
<1>2. PoolTypeOK /\ shown \in [Pools -> [Gauges -> 0..AgeMax]]
  BY DEF PoolInv, PoolTypeOK
<1>3. /\ m_p \in 1..Lookups /\ Pool = LookupPool(m_p) /\ Kind = LookupKind(m_p)
      /\ m_p' \in {0, m_p + 1}
      /\ m_p' = 0 => m_p = Lookups \/ isBad
      /\ shown' \in [Pools -> [Gauges -> 0..AgeMax]]
      /\ \A p \in Pools, g \in Gauges : shown'[p][g] \in {shown[p][g], age}
      /\ m_p' # 0 \/ ~isBad => (Kind \in Gauges => shown'[Pool][Kind] = age)
      /\ ~isBad => /\ deceived' \subseteq deceived
                   /\ Kind = "account" => Pool \notin deceived'
  BY <1>2, UsesFacts
<1>4. ASSUME NEW x \in Nat, Shows(x), ~isBad PROVE Shows(x)'
  BY <1>2, <1>3, <1>4 DEF Shows
<1>5. ASSUME NEW i \in 1..m_p, m_p' # 0 \/ ~isBad
      PROVE  /\ LookupKind(i) \in Gauges =>
                   shown'[LookupPool(i)][LookupKind(i)] <= 2 * I + lasts["pool"]
             /\ LookupKind(i) = "account" /\ calm' >= W + lasts["pool"] =>
                   LookupPool(i) \notin deceived'
  <2>1. CASE i = m_p
    BY <1>1, <1>3, <1>5, <2>1
  <2>2. CASE i # m_p
    <3>1. i \in 1..(m_p - 1) /\ i \in 1..Lookups /\ LookupPool(i) \in Pools
      BY <1>3, <2>2, LookupsAre
    <3>2. /\ LookupKind(i) \in Gauges =>
                shown[LookupPool(i)][LookupKind(i)] <= 2 * I + lasts["pool"]
          /\ LookupKind(i) = "account" /\ calm >= W + lasts["pool"] =>
                LookupPool(i) \notin deceived
      BY <3>1 DEF PoolTimes, Behind
    <3> QED
      BY <1>1, <1>2, <1>3, <3>1, <3>2
  <2> QED
    BY <2>1, <2>2
<1>6. CASE m_p' # 0
  <2>1. m_p' = m_p + 1 /\ m_p \in Nat
    BY <1>3, <1>6
  <2>2. Behind'
    BY <1>3, <1>5, <1>6, <2>1 DEF Behind
  <2>3. calm' < W + MGap + lasts["pool"] \/ Shows(MGap + lasts["pool"])'
    <3>1. calm < W + MGap + lasts["pool"] \/ Shows(MGap + lasts["pool"])
      BY DEF PoolTimes
    <3> QED
      BY <1>1, <1>4, <3>1
  <2> QED
    BY <1>1, <2>1, <2>2, <2>3 DEF PoolTimes
<1>7. CASE m_p' = 0
  <2>1. calm' < W + lasts["pool"] \/ Shows(lasts["pool"])'
    <3> SUFFICES ASSUME calm' >= W + lasts["pool"] PROVE Shows(lasts["pool"])'
      BY <1>1
    <3>1. ~isBad /\ m_p = Lookups /\ calm' = calm
      BY <1>1, <1>3, <1>7
    <3>2. ASSUME NEW p \in Pools, NEW g \in Gauges
          PROVE  shown'[p][g] <= 2 * I + lasts["pool"] /\ p \notin deceived'
      <4>1. PICK i \in 1..Lookups : LookupPool(i) = p /\ LookupKind(i) = g
        BY LookupsAre
      <4>2. "account" \in Gauges
        BY DEF Gauges
      <4>3. PICK j \in 1..Lookups : LookupPool(j) = p /\ LookupKind(j) = "account"
        BY <4>2, LookupsAre
      <4> QED
        BY <1>5, <3>1, <4>1, <4>3
    <3>3. deceived' \subseteq Pools
      BY <1>2, <1>3, <3>1 DEF PoolTypeOK
    <3>4. "account" \in Gauges
      BY DEF Gauges
    <3> QED
      BY <3>2, <3>3, <3>4 DEF Shows
  <2>2. ASSUME NEW x \in Nat, lasts["pool"] <= x
        PROVE  calm' < W + x \/ Shows(x)'
    <3>1. Shows(lasts["pool"])' => Shows(x)'
      BY <1>1, <1>3, <2>2 DEF Shows
    <3> QED
      BY <1>1, <2>1, <2>2, <3>1
  <2>3. ~pending["pool"] => /\ lasts["pool"] <= I - next["pool"]
                            /\ I - next["pool"] \in Nat
    BY <1>1 DEF PoolTimes
  <2>4. lasts["pool"] <= MGap
    BY <1>1, GapIsLarger
  <2>5. /\ ~pending["pool"] =>
              calm' < W + (I - next["pool"]) \/ Shows(I - next["pool"])'
        /\ calm' < W + MGap \/ Shows(MGap)'
    BY <2>2, <2>3, <2>4
  <2> QED
    BY <1>1, <1>7, <2>5 DEF PoolTimes, Shows
<1> QED
  BY <1>6, <1>7

LEMMA PoolSteps ==
  ASSUME PoolInv, NetInv, StatusInv, Watching
  PROVE  PoolInv'
<1> USE PoolFacts
<1>1. /\ calm \in Nat /\ steady \in Nat /\ "pool" \in DOMAIN step
      /\ next["pool"] \in 1..I /\ lasts["pool"] \in 0..P
      /\ pending["pool"] \in BOOLEAN
  BY DEF StatusInv, LoopTypeOK, Loops, I, P
<1>2. /\ UNCHANGED <<enabled, up, steady, next>> /\ calm' \in {0, calm}
      /\ PoolTypeOK /\ m_p \in 0..Lookups
  BY DEF Watching, PoolBegins, Begins, Cached, FetchFails, Fetched, Uses, Goes,
         CallFails, PoolInv, PoolTypeOK, m_p
<1>3. CASE PoolBegins
  <2>1. /\ m_p = 0 /\ pending["pool"] /\ ~pending'["pool"] /\ lasts'["pool"] = 0
        /\ UNCHANGED <<calm, poolVars>>
        /\ m_p' = IF healthy THEN 1 ELSE 0
    BY <1>1, <1>3 DEF PoolBegins, Begins, StatusInv, LoopTypeOK, Loops, m_p
  <2>2. ~healthy => calm < W
    <3>1. calm >= ReadyBound => healthy
      BY HealthyWhenCalm
    <3> QED
      BY <1>1, <3>1, NetFacts
  <2>3. PoolTimes => PoolTimes'
    BY <1>1, <1>2, <2>1, <2>2 DEF PoolTimes, Shows, Behind, poolVars
  <2>4. PoolTypeOK'
    <3>1. Len(ActivePools) \in Nat \ {0}
      BY PoolsAssumption
    <3>2. Lookups \in Nat /\ 1 <= Lookups
      BY <3>1 DEF Lookups
    <3>3. m_p' \in 0..Lookups
      BY <2>1, <3>2
    <3> QED
      BY <1>2, <2>1, <3>3 DEF PoolTypeOK, poolVars, m_p
  <2> QED
    BY <1>2, <2>1, <2>3, <2>4 DEF PoolInv, poolVars
<1>4. ASSUME NEW age \in 0..cacheTTL, NEW isBad \in BOOLEAN, m_p > 0, Uses(age, isBad),
             isBad => calm' < W, UNCHANGED <<pending, lasts>>,
             cache' \in [Keys -> -1..cacheTTL], bad' \subseteq Keys,
             \A k \in bad' : calm' <= cache'[k]
      PROVE  PoolInv'
  <2>1. PoolTypeOK'
    <3>1. Pool \in Pools
      BY <1>2, <1>4, UsesFacts, LookupsAre
    <3> QED
      BY <1>2, <1>4, <3>1, UsesFacts DEF PoolTypeOK, m_p
  <2>2. "pool" \in enabled' => PoolTimes'
    BY <1>2, <1>4, UsesKeep DEF PoolInv
  <2> QED
    BY <1>1, <1>2, <1>4, <2>1, <2>2 DEF PoolInv
<1>5. CASE Cached
  <2>1. /\ m_p > 0 /\ Hit /\ Uses(cache[Entry], Entry \in bad)
        /\ UNCHANGED <<calm, pending, lasts, cache, bad>>
    BY <1>5 DEF Cached, m_p, at
  <2>2. cache[Entry] \in 0..cacheTTL
    <3>1. Entry \in Keys
      BY <1>2, <2>1, LookupsAre
         DEF Entry, Keys, Pool, Kind, at, m_p, LookupPool, LookupKind
    <3> QED
      BY <1>2, <2>1, <3>1 DEF PoolTypeOK, Hit, Missing
  <2>3. Entry \in bad => calm <= cache[Entry]
    BY DEF PoolInv
  <2>4. (Entry \in bad) \in BOOLEAN
    OBVIOUS
  <2>5. Entry \in bad => calm' < W
    BY <1>1, <2>1, <2>2, <2>3
  <2>6. /\ cache' \in [Keys -> -1..cacheTTL] /\ bad' \subseteq Keys
        /\ \A k \in bad' : calm' <= cache'[k]
    BY <1>2, <2>1 DEF PoolTypeOK, PoolInv
  <2> QED
    BY <1>4, <2>1, <2>2, <2>4, <2>5, <2>6
<1>6. ASSUME NEW isBad \in BOOLEAN, Fetched(isBad)
      PROVE  PoolInv'
  <2>1. /\ m_p > 0 /\ Uses(0, isBad) /\ UNCHANGED <<pending, lasts>>
        /\ cache' = [cache EXCEPT ![Entry] = 0]
        /\ bad' = IF isBad THEN bad \cup {Entry} ELSE bad \ {Entry}
        /\ isBad => calm' = 0
        /\ ~isBad => calm' = calm
    BY <1>6 DEF Fetched, CallFails, m_p, at
  <2>2. Entry \in Keys
    BY <1>2, <2>1, LookupsAre
       DEF Entry, Keys, Pool, Kind, at, m_p, LookupPool, LookupKind
  <2>3. /\ cache' \in [Keys -> -1..cacheTTL] /\ bad' \subseteq Keys
    BY <1>2, <2>1, <2>2 DEF PoolTypeOK
  <2>4. \A k \in bad' : calm' <= cache'[k]
    <3> SUFFICES ASSUME NEW k \in bad' PROVE calm' <= cache'[k]
      OBVIOUS
    <3>1. CASE isBad
      <4>1. k \in Keys /\ calm' = 0 /\ cache'[k] \in {cache[k], 0}
        BY <1>2, <2>1, <2>3, <3>1 DEF PoolTypeOK
      <4>2. k # Entry => k \in bad /\ cache'[k] = cache[k] /\ calm <= cache[k]
        BY <1>2, <2>1, <2>3, <3>1, <4>1 DEF PoolTypeOK, PoolInv
      <4>3. k = Entry => cache'[k] = 0
        BY <1>2, <2>1, <2>2 DEF PoolTypeOK
      <4>4. cache[k] \in Int
        BY <1>2, <4>1 DEF PoolTypeOK
      <4> QED
        BY <1>1, <4>1, <4>2, <4>3, <4>4
    <3>2. CASE ~isBad
      BY <1>2, <2>1, <2>2, <3>2 DEF PoolTypeOK, PoolInv
    <3> QED
      BY <3>1, <3>2
  <2>5. 0 \in 0..cacheTTL /\ (isBad => calm' < W)
    BY <2>1
  <2> QED
    BY <1>4, <2>1, <2>3, <2>4, <2>5
<1>7. CASE FetchFails
  <2>1. /\ m_p' = 0 /\ calm' = 0 /\ UNCHANGED <<poolVars, pending, lasts>>
    BY <1>1, <1>7 DEF FetchFails, CallFails, Goes, m_p
  <2>2. PoolTypeOK'
    BY <1>2, <2>1, LookupsAre DEF PoolTypeOK, poolVars, m_p
  <2>3. \A k \in bad' : calm' <= cache'[k]
    BY <1>1, <1>2, <2>1 DEF PoolInv, PoolTypeOK, poolVars
  <2> QED
    BY <1>1, <1>2, <2>1, <2>2, <2>3 DEF PoolInv, PoolTimes
<1> QED
  BY <1>3, <1>5, <1>6, <1>7 DEF Watching

LEMMA PoolTicks ==
  ASSUME PoolInv, NetInv, StatusInv, Tick
  PROVE  PoolInv'
<1> USE PoolFacts, GapIsLarger
<1>1. /\ calm \in Nat /\ steady \in Nat
      /\ next["pool"] \in 1..I /\ lasts["pool"] \in 0..P
      /\ pending["pool"] \in BOOLEAN
  BY DEF StatusInv, LoopTypeOK, Loops, I, P
<1>2. /\ m_p' = m_p /\ m_p \in Nat /\ UNCHANGED <<enabled, up, step>>
      /\ m_p = 0 /\ "pool" \in enabled => ~pending["pool"]
      /\ m_p > 0 => lasts'["pool"] = lasts["pool"] + 1
      /\ lasts["pool"] + 1 \in Nat
  BY <1>1 DEF Tick, LoopTick, OnTime, m_p, Loops, PoolInv, PoolTypeOK
<1>3. /\ calm' \in Nat /\ calm' <= calm + 1
      /\ steady' <= CalmMax /\ calm' <= CalmMax
  BY <1>1 DEF PoolInv, Tick, LoopTick
<1>4. /\ next["pool"] = 1 =>
            /\ next'["pool"] = I
            /\ "pool" \in enabled => pending'["pool"]
      /\ next["pool"] # 1 => /\ next'["pool"] = next["pool"] - 1
                             /\ pending'["pool"] = pending["pool"]
      /\ pending["pool"] => pending'["pool"]
  BY <1>1 DEF Tick, LoopTick, TickerTick, StatusInv, LoopTypeOK, Loops, I
<1>5. /\ shown' \in [Pools -> [Gauges -> 0..AgeMax]]
      /\ \A p \in Pools, g \in Gauges :
            shown'[p][g] <= shown[p][g] + 1 /\ shown[p][g] \in Nat
      /\ deceived' = deceived
  <2>1. /\ shown \in [Pools -> [Gauges -> 0..AgeMax]]
        /\ shown' = [p \in Pools |-> [g \in Gauges |-> Older(shown[p][g])]]
        /\ deceived' = deceived
    BY DEF PoolInv, PoolTypeOK, Tick, PoolTick
  <2>2. AgeMax \in Nat
    OBVIOUS
  <2>3. \A a \in 0..AgeMax : Older(a) \in 0..AgeMax /\ Older(a) <= a + 1
    BY <2>2 DEF Older
  <2>4. \A p \in Pools, g \in Gauges : shown[p][g] \in 0..AgeMax
    BY <2>1
  <2> QED
    BY <2>1, <2>2, <2>3, <2>4
<1>6. /\ cache' \in [Keys -> -1..cacheTTL] /\ bad' \subseteq Keys
      /\ \A k \in bad' : calm' <= cache'[k]
  <2>1. /\ cache' = [k \in Keys |-> IF cache[k] \in {Missing, cacheTTL}
                                    THEN Missing ELSE cache[k] + 1]
        /\ bad' = {k \in bad : cache'[k] # Missing}
    BY DEF Tick, PoolTick
  <2>2. cache \in [Keys -> -1..cacheTTL] /\ bad \subseteq Keys
    BY DEF PoolInv, PoolTypeOK
  <2>3. cache' \in [Keys -> -1..cacheTTL] /\ bad' \subseteq Keys
    BY <2>1, <2>2 DEF Missing
  <2>4. ASSUME NEW k \in bad' PROVE calm' <= cache'[k]
    <3>1. k \in bad /\ k \in Keys /\ cache'[k] = cache[k] + 1 /\ calm <= cache[k]
      BY <2>1, <2>2, <2>4 DEF PoolInv
    <3>2. cache[k] \in Int
      BY <2>2, <3>1
    <3> QED
      BY <1>1, <1>3, <3>1, <3>2
  <2> QED
    BY <2>3, <2>4
<1>7. PoolTypeOK'
  BY <1>2, <1>5, <1>6 DEF PoolInv, PoolTypeOK
<1> DEFINE Aged(x) ==
             /\ \A p \in Pools, g \in Gauges : shown'[p][g] <= 2 * I + x
             /\ deceived' = {}
<1>8. \A x \in Nat : Shows(x) => Aged(x + 1)
  BY <1>5 DEF Shows
<1>9. ASSUME PoolTimes, "pool" \in enabled
      PROVE  PoolTimes'
  <2>1. CASE m_p = 0 /\ next["pool"] = 1
    <3>1. calm < W + (I - 1) \/ Shows(I - 1)
      BY <2>1, <1>2, <1>9 DEF PoolTimes
    <3>2. calm' < W + I \/ Aged(I)
      BY <3>1, <1>1, <1>3, <1>8
    <3>3. Aged(I) => Shows(MGap)'
      BY <1>5 DEF Shows
    <3> QED
      BY <2>1, <3>2, <3>3, <1>2, <1>3, <1>4, <1>9 DEF PoolTimes
  <2>2. CASE m_p = 0 /\ next["pool"] # 1
    <3>1. /\ I - next["pool"] \in Nat
          /\ I - next'["pool"] = (I - next["pool"]) + 1
      BY <2>2, <1>1, <1>4
    <3>2. calm < W + (I - next["pool"]) \/ Shows(I - next["pool"])
      BY <2>2, <1>2, <1>9 DEF PoolTimes
    <3>3. \/ calm' < W + (I - next'["pool"])
          \/ Aged(I - next'["pool"])
      BY <3>1, <3>2, <1>1, <1>3, <1>8
    <3>4. Aged(I - next'["pool"]) => Shows(I - next["pool"])'
      BY DEF Shows
    <3>5. ~pending'["pool"]
      BY <2>2, <1>2, <1>4, <1>9
    <3> QED
      BY <2>2, <3>3, <3>4, <3>5, <1>2 DEF PoolTimes
  <2>3. CASE m_p > 0
    <3>1. /\ MGap + lasts["pool"] \in Nat
          /\ MGap + lasts'["pool"] = (MGap + lasts["pool"]) + 1
          /\ W + MGap + lasts'["pool"] = (W + MGap + lasts["pool"]) + 1
      BY <2>3, <1>1, <1>2
    <3>2. calm < W + MGap + lasts["pool"] \/ Shows(MGap + lasts["pool"])
      BY <2>3, <1>9 DEF PoolTimes
    <3>3. calm' < W + MGap + lasts'["pool"] \/ Aged(MGap + lasts'["pool"])
      BY <3>1, <3>2, <1>1, <1>3, <1>8
    <3>4. Aged(MGap + lasts'["pool"]) => Shows(MGap + lasts["pool"])'
      BY DEF Shows
    <3>5. Behind'
      <4> SUFFICES ASSUME NEW i \in 1..(m_p - 1)
                   PROVE  /\ LookupKind(i) \in Gauges =>
                                shown'[LookupPool(i)][LookupKind(i)]
                                    <= 2 * I + lasts'["pool"]
                          /\ LookupKind(i) = "account" /\ calm' >= W + lasts'["pool"] =>
                                LookupPool(i) \notin deceived'
        BY <1>2 DEF Behind
      <4>1. i \in 1..Lookups /\ LookupPool(i) \in Pools
        BY <1>2, LookupsAre DEF PoolInv, PoolTypeOK, m_p
      <4>2. /\ LookupKind(i) \in Gauges =>
                  shown[LookupPool(i)][LookupKind(i)] <= 2 * I + lasts["pool"]
            /\ LookupKind(i) = "account" /\ calm >= W + lasts["pool"] =>
                  LookupPool(i) \notin deceived
        BY <2>3, <1>9 DEF PoolTimes, Behind
      <4>3. LookupKind(i) \in Gauges =>
              /\ shown'[LookupPool(i)][LookupKind(i)]
                    <= shown[LookupPool(i)][LookupKind(i)] + 1
              /\ shown[LookupPool(i)][LookupKind(i)] \in Nat
              /\ shown'[LookupPool(i)][LookupKind(i)] \in Nat
        BY <4>1, <1>5
      <4> QED
        BY <2>3, <4>2, <4>3, <1>1, <1>2, <1>3, <1>5
    <3>6. ~pending'["pool"] => lasts'["pool"] <= I - next'["pool"]
      <4> SUFFICES ASSUME ~pending'["pool"]
                   PROVE  lasts'["pool"] <= I - next'["pool"]
        OBVIOUS
      <4>1. ~pending["pool"] /\ next["pool"] # 1
        BY <1>1, <1>4, <1>9
      <4> QED
        BY <2>3, <4>1, <1>1, <1>2, <1>4, <1>9 DEF PoolTimes
    <3> QED
      BY <2>3, <1>2, <3>3, <3>4, <3>5, <3>6 DEF PoolTimes
  <2> QED
    BY <1>2, <2>1, <2>2, <2>3
<1> QED
  BY <1>2, <1>3, <1>6, <1>7, <1>9 DEF PoolInv

LEMMA PoolFlips ==
  ASSUME PoolInv, StatusInv, UpstreamChanges
  PROVE  PoolInv'
<1> USE PoolFacts
<1>1. /\ calm' = 0 /\ steady' = 0
      /\ UNCHANGED <<enabled, poolVars, step, pending, next, lasts>>
  BY DEF UpstreamChanges, Flip
<1>2. /\ next["pool"] \in 1..I /\ lasts["pool"] \in 0..P /\ calm \in Nat
  BY DEF StatusInv, LoopTypeOK, Loops, I, P
<1>3. PoolTypeOK' /\ \A k \in bad' : calm' <= cache'[k]
  BY <1>1, <1>2 DEF PoolInv, PoolTypeOK, poolVars
<1>4. PoolTimes => PoolTimes'
  BY <1>1, <1>2 DEF PoolTimes, Shows, Behind, poolVars, m_p
<1> QED
  BY <1>1, <1>3, <1>4 DEF PoolInv

LEMMA PoolRestarts ==
  ASSUME PoolInv, StatusInv, PanicRestarts
  PROVE  PoolInv'
<1> USE PoolFacts, GapIsLarger
<1>1. /\ calm' = 0 /\ steady' = 0 /\ m_p' = 0 /\ next'["pool"] = I
      /\ bad' = {}
  BY DEF PanicRestarts, m_p, I, Loops
<1>2. PoolTypeOK'
  BY <1>1, LookupsAre DEF PanicRestarts, PoolTypeOK, Missing, m_p
<1> QED
  BY <1>1, <1>2 DEF PoolInv, PoolTimes

LEMMA PoolInductive == PoolInv /\ NetInv /\ StatusInv /\ [Next]_vars => PoolInv'
<1> SUFFICES ASSUME PoolInv, NetInv, StatusInv, [Next]_vars PROVE PoolInv'
  OBVIOUS
<1> USE LoopAssumption DEF Loops
<1>1. CASE UNCHANGED vars
  BY <1>1, PoolElsewhere DEF vars, loopVars
<1>2. CASE Status /\ UNCHANGED <<poolVars, netShown>>
  <2>1. /\ UNCHANGED <<enabled, up, steady, next, poolVars, calm>>
        /\ step'["pool"] = step["pool"]
        /\ pending'["pool"] = pending["pool"]
        /\ lasts'["pool"] = lasts["pool"]
    BY <1>2 DEF Status, StatusBegins, Begins, ProbeBlockfrost, ProbeNode, Goes,
                StatusInv, LoopTypeOK
  <2> QED
    BY <2>1, PoolElsewhere
<1>3. CASE Collecting /\ UNCHANGED <<bfAnswer, poolVars>>
  <2>1. /\ UNCHANGED <<enabled, up, steady, next, poolVars>>
        /\ step'["pool"] = step["pool"]
        /\ pending'["pool"] = pending["pool"]
        /\ lasts'["pool"] = lasts["pool"]
        /\ calm' \in {0, calm}
    BY <1>3 DEF Collecting, NetworkBegins, Begins, Collects, CollectFails,
                Goes, CallFails, StatusInv, LoopTypeOK
  <2> QED
    BY <2>1, PoolElsewhere
<1> QED
  BY <1>1, <1>2, <1>3, PoolSteps, PoolTicks, PoolFlips, PoolRestarts DEF Next

(* For every set of pools, every interval and every duration of a pass:    *)
(* FreshBound after the upstreams are in order, every pool's gauges show   *)
(* its data, no older than AgeBound, and no DRep gauge an error's zero.    *)
THEOREM PoolsRecover == Spec => []FreshGauges
<1>1. PoolInv /\ StatusInv => FreshGauges
  <2> SUFFICES ASSUME PoolInv, StatusInv, "pool" \in enabled, calm >= FreshBound
               PROVE  /\ \A p \in Pools, g \in Gauges : shown[p][g] <= AgeBound
                      /\ deceived = {}
    BY DEF FreshGauges
  <2> USE PoolFacts, GapIsLarger
  <2>1. /\ calm \in Nat /\ next["pool"] \in 1..I /\ lasts["pool"] \in 0..P
        /\ pending["pool"] \in BOOLEAN /\ m_p \in Nat
    BY LoopAssumption DEF StatusInv, LoopTypeOK, Loops, I, P, PoolInv, PoolTypeOK, m_p
  <2>2. PICK x \in 0..(MGap + P) : Shows(x)
    <3>1. CASE m_p = 0 /\ ~pending["pool"]
      BY <2>1, <3>1 DEF PoolInv, PoolTimes
    <3>2. CASE m_p = 0 /\ pending["pool"]
      BY <2>1, <3>2 DEF PoolInv, PoolTimes
    <3>3. CASE m_p > 0
      BY <2>1, <3>3 DEF PoolInv, PoolTimes
    <3> QED
      BY <2>1, <3>1, <3>2, <3>3
  <2>3. shown \in [Pools -> [Gauges -> 0..AgeMax]]
    BY DEF PoolInv, PoolTypeOK
  <2> QED
    BY <2>2, <2>3 DEF Shows
<1> QED
  BY <1>1, StatusInitially, StatusInductive, NetInitially, NetInductive,
     PoolInitially, PoolInductive, PTL DEF Spec

(* Every variable of the three watchers keeps its type, and what is capped *)
(* its bound, for every configuration, interval and duration of a pass.    *)
THEOREM TypeCorrect == Spec => []TypeOK
<1>1. PoolInv /\ NetInv /\ StatusInv => TypeOK
  BY NetFacts DEF PoolInv, NetInv, StatusInv, TypeOK, NetworkTypeOK, n_n
<1> QED
  BY <1>1, StatusInitially, StatusInductive, NetInitially, NetInductive,
     PoolInitially, PoolInductive, PTL DEF Spec
=============================================================================
