-------------------------- MODULE SocketProxyProofs -------------------------
(***************************************************************************)
(* Proofs about SocketProxy, for any number of endpoints and connections   *)
(* and any durations.                                                      *)
(***************************************************************************)
EXTENDS SocketProxy, FiniteSetTheorems, WellFoundedInduction, TLAPS

(* What makes SkippedOnlyIfFailed inductive: an unreachable endpoint has   *)
(* no steady time, and a dial that failed has lasted at least as long as   *)
(* its endpoint has been reachable since.                                  *)
FailedRecently(p) ==
    pc[p] = "mark" /\ ~reached[p] => steady[FirstOf(todo[p])] <= age[p]

FreshInv ==
    /\ \A e \in Endpoints : e \notin reach => steady[e] = 0
    /\ \A p \in Procs : age[p] <= timeout(p) /\ FailedRecently(p)

ProxyInv == TypeOK /\ FreshInv /\ SkippedOnlyIfFailed

-----------------------------------------------------------------------------
(* The endpoint of first priority of a set is in the set. *)
LEMMA FirstOfIn ==
    ASSUME NEW S, S \subseteq Endpoints, S # {}
    PROVE  FirstOf(S) \in S
  <1>1. S \subseteq Nat
    BY EndpointsAssumption DEF Endpoints
  <1>2. PICK e \in S : \A f \in S : ~ (<<f, e>> \in OpToRel(<, Nat))
    BY <1>1, NatLessThanWellFounded, WFMin
  <1>3. \A f \in S : ~ (f < e)
    BY <1>1, <1>2 DEF OpToRel
  <1>4. \A f \in S : e <= f
    BY <1>1, <1>3
  <1> QED
    BY <1>4 DEF FirstOf

(* The durations are positive, and no timeout exceeds that of a dial. *)
LEMMA Durations ==
    /\ failoverCooldown \in Nat \ {0} /\ healthProbeInterval \in Nat \ {0}
    /\ dialTimeout \in Nat \ {0} /\ probeTimeout \in Nat \ {0}
    /\ Longest \in Nat
    /\ \A p \in Procs : timeout(p) \in Nat /\ timeout(p) <= dialTimeout
  <1>1. NumEndpoints * dialTimeout \in Nat /\ NumEndpoints * probeTimeout \in Nat
    BY TimesAssumption, EndpointsAssumption
  <1> QED
    BY <1>1, TimesAssumption DEF Longest, Round, timeout

(* A proxy that has not started satisfies the invariant. *)
LEMMA ProxyInit == Init => ProxyInv
  BY Durations, EndpointsAssumption, TimesAssumption
     DEF Init, ProxyInv, TypeOK, FreshInv, FailedRecently, SkippedOnlyIfFailed,
         Endpoints, Places, DialPlaces, ShowPlaces, Dialing, isDown

(* A step that leaves endpoints, cooldowns, ages and pending results alone *)
(* keeps what is known of them.                                            *)
LEMMA QuietStep ==
    ASSUME ProxyInv, UNCHANGED <<endpoint, down, reached, age>>,
           \A p \in Procs : pc'[p] = "mark" =>
               pc[p] = "mark" /\ todo'[p] = todo[p]
    PROVE  FreshInv' /\ SkippedOnlyIfFailed'
  BY DEF ProxyInv, FreshInv, FailedRecently, SkippedOnlyIfFailed, isDown,
         endpoint

(* Accepting a connection and collecting its candidates. *)
LEMMA AcceptKeeps ==
    ASSUME ProxyInv, NEW d \in Dialers, Accept(d)
    PROVE  ProxyInv'
  <1>1. d \in Procs
    BY DEF Procs
  <1>2. TypeOK'
    <2>1. pc' \in [Procs -> Places] /\ pc'[d] = "collect"
      BY <1>1 DEF Accept, Move, ProxyInv, TypeOK, Places
    <2>2. at' \in [Procs -> 0 .. NumEndpoints] /\ at'[d] = 1
      BY <1>1, EndpointsAssumption DEF Accept, ProxyInv, TypeOK
    <2>3. \A q \in Procs : q # d => pc'[q] = pc[q] /\ at'[q] = at[q]
      BY <1>1 DEF Accept, Move, ProxyInv, TypeOK
    <2> QED
      BY <1>1, <2>1, <2>2, <2>3
         DEF Accept, ProxyInv, TypeOK, Dialing, endpoint, gauges, clock
  <1>3. FreshInv' /\ SkippedOnlyIfFailed'
    BY <1>1, QuietStep DEF Accept, Move, ProxyInv, TypeOK, endpoint
  <1> QED
    BY <1>2, <1>3 DEF ProxyInv

(* Collecting a candidate. *)
LEMMA CollectKeeps ==
    ASSUME ProxyInv, NEW d \in Dialers, Collect(d)
    PROVE  ProxyInv'
  <1> DEFINE seen == todo[d] \cup (IF isDown(at[d]) THEN {} ELSE {at[d]})
  <1>1. d \in Procs /\ todo[d] \subseteq Endpoints /\ at[d] \in Endpoints
    BY EndpointsAssumption DEF Procs, Collect, ProxyInv, TypeOK, Endpoints
  <1>2. seen \subseteq Endpoints
    BY <1>1
  <1>3. Candidates(seen) \subseteq Endpoints /\ Candidates(seen) # {}
    BY <1>2, EndpointsAssumption DEF Candidates, Endpoints
  <1>4. CASE at[d] < NumEndpoints /\ at' = [at EXCEPT ![d] = @ + 1]
             /\ todo' = [todo EXCEPT ![d] = seen] /\ pc' = pc
    <2>1. TypeOK'
      <3>1. at[d] + 1 \in 0 .. NumEndpoints /\ at[d] + 1 # 0
        BY <1>1, <1>4, EndpointsAssumption DEF Endpoints
      <3>2. /\ at' \in [Procs -> 0 .. NumEndpoints] /\ at'[d] # 0
            /\ \A q \in Procs : q # d => at'[q] = at[q]
        BY <1>1, <1>4, <3>1 DEF ProxyInv, TypeOK
      <3>3. /\ todo' \in [Procs -> SUBSET Endpoints]
            /\ \A q \in Procs : q # d => todo'[q] = todo[q]
        BY <1>1, <1>2, <1>4 DEF ProxyInv, TypeOK
      <3> QED
        BY <1>4, <3>2, <3>3 DEF Collect, ProxyInv, TypeOK, Dialing, endpoint,
           gauges, clock
    <2>2. FreshInv' /\ SkippedOnlyIfFailed'
      BY <1>1, <1>4, QuietStep DEF Collect, ProxyInv, TypeOK, endpoint
    <2> QED
      BY <2>1, <2>2 DEF ProxyInv
  <1>5. CASE at[d] = NumEndpoints /\ at' = [at EXCEPT ![d] = 0]
             /\ todo' = [todo EXCEPT ![d] = Candidates(seen)] /\ Move(d, "dial")
    <2>1. TypeOK'
      <3>1. 0 \in 0 .. NumEndpoints
        BY EndpointsAssumption
      <3>2. /\ at' \in [Procs -> 0 .. NumEndpoints]
            /\ \A q \in Procs : q # d => at'[q] = at[q]
        BY <1>1, <1>5, <3>1 DEF ProxyInv, TypeOK
      <3>3. /\ todo' \in [Procs -> SUBSET Endpoints] /\ todo'[d] # {}
            /\ \A q \in Procs : q # d => todo'[q] = todo[q]
        BY <1>1, <1>3, <1>5 DEF ProxyInv, TypeOK
      <3>4. /\ pc' \in [Procs -> Places] /\ pc'[d] = "dial"
            /\ \A q \in Procs : q # d => pc'[q] = pc[q]
        BY <1>1, <1>5 DEF Move, ProxyInv, TypeOK, Places, DialPlaces, ShowPlaces
      <3> QED
        BY <3>2, <3>3, <3>4 DEF Collect, ProxyInv, TypeOK, Dialing, endpoint,
           gauges, clock, ShowPlaces
    <2>2. FreshInv' /\ SkippedOnlyIfFailed'
      BY <1>1, <1>5, QuietStep DEF Collect, Move, ProxyInv, TypeOK, endpoint
    <2> QED
      BY <2>1, <2>2 DEF ProxyInv
  <1> QED
    BY <1>4, <1>5 DEF Collect

(* The prober starting a round. *)
LEMMA ProbeAllKeeps ==
    ASSUME ProxyInv, ProbeAll
    PROVE  ProxyInv'
  <1>1. Prober \in Procs /\ Endpoints # {}
    BY EndpointsAssumption DEF Procs, Endpoints
  <1>2. TypeOK'
    BY <1>1 DEF ProbeAll, Move, ProxyInv, TypeOK, Dialing, Places, DialPlaces, ShowPlaces,
       endpoint, gauges
  <1>3. FreshInv' /\ SkippedOnlyIfFailed'
    BY <1>1, QuietStep DEF ProbeAll, Move, ProxyInv, TypeOK, endpoint
  <1> QED
    BY <1>2, <1>3 DEF ProxyInv

(* Publishing the gauges of one endpoint: its cooldown is looked at. *)
LEMMA LookKeeps ==
    ASSUME ProxyInv, NEW p \in Procs, Look(p)
    PROVE  ProxyInv'
  <1>1. TypeOK'
    BY DEF Look, Move, ProxyInv, TypeOK, Dialing, Places, DialPlaces, ShowPlaces,
       endpoint, gauges, clock
  <1>2. /\ pc[p] = "publish" /\ pc'[p] = "show"
        /\ \A q \in Procs : q # p => pc'[q] = pc[q] /\ reached'[q] = reached[q]
    BY DEF Look, Move, ProxyInv, TypeOK
  <1>3. FreshInv' /\ SkippedOnlyIfFailed'
    BY <1>2 DEF Look, ProxyInv, FreshInv, FailedRecently, SkippedOnlyIfFailed,
       isDown, endpoint, timeout
  <1> QED
    BY <1>1, <1>3 DEF ProxyInv

(* Then they are set, and the update moves on to the next endpoint. *)
LEMMA ShowKeeps ==
    ASSUME ProxyInv, NEW p \in Procs, Show(p)
    PROVE  ProxyInv'
  <1>1. at[p] \in Endpoints
    BY EndpointsAssumption DEF Show, ProxyInv, TypeOK, Endpoints, ShowPlaces
  <1>2. TypeOK'
    <2>1. up' \in [Endpoints -> BOOLEAN] /\ active' \in [Endpoints -> BOOLEAN]
      BY <1>1 DEF Show, ProxyInv, TypeOK
    <2>2. found' \in [Procs -> BOOLEAN] /\ reached' \in [Procs -> BOOLEAN]
      BY DEF Show, ProxyInv, TypeOK
    <2>3. at[p] + 1 # 0 /\ (at[p] < NumEndpoints => at[p] + 1 \in 0 .. NumEndpoints)
      BY <1>1, EndpointsAssumption DEF Endpoints
    <2>4. 0 \in 0 .. NumEndpoints
      BY EndpointsAssumption
    <2>5. conn' \in [Procs -> 0 .. NumEndpoints]
      BY <2>4 DEF Show, ProxyInv, TypeOK
    <2>6. /\ at' \in [Procs -> 0 .. NumEndpoints]
          /\ pc' \in [Procs -> Places] /\ ~Dialing(p)'
          /\ pc'[p] \in {"collect"} \cup ShowPlaces => at'[p] # 0
          /\ \A q \in Procs : q # p => pc'[q] = pc[q] /\ at'[q] = at[q]
      BY <2>3, <2>4
         DEF Show, Move, ProxyInv, TypeOK, Places, DialPlaces, ShowPlaces, Dialing
    <2> QED
      BY <2>1, <2>2, <2>5, <2>6 DEF Show, ProxyInv, TypeOK, Dialing, endpoint, clock
  <1>3. /\ pc'[p] # "mark"
        /\ \A q \in Procs : q # p => pc'[q] = pc[q] /\ reached'[q] = reached[q]
    BY DEF Show, Move, ProxyInv, TypeOK
  <1>4. FreshInv' /\ SkippedOnlyIfFailed'
    BY <1>3 DEF Show, ProxyInv, FreshInv, FailedRecently, SkippedOnlyIfFailed,
       isDown, endpoint, timeout
  <1> QED
    BY <1>2, <1>4 DEF ProxyInv

(* A dial that fails does so on an endpoint without steady time. *)
LEMMA DialKeeps ==
    ASSUME ProxyInv, NEW p \in Procs, Dial(p)
    PROVE  ProxyInv'
  <1>1. FirstOf(todo[p]) \in Endpoints
    BY FirstOfIn DEF Dial, ProxyInv, TypeOK, Dialing
  <1>2. TypeOK'
    BY DEF Dial, Move, ProxyInv, TypeOK, Dialing, Places, DialPlaces, ShowPlaces,
       endpoint, gauges, clock
  <1>3. SkippedOnlyIfFailed'
    BY DEF Dial, ProxyInv, SkippedOnlyIfFailed, isDown, endpoint
  <1>4. FailedRecently(p)'
    <2>1. SUFFICES ASSUME ~reached'[p] PROVE steady[FirstOf(todo[p])] <= age[p]
      BY DEF FailedRecently, Dial, endpoint
    <2>2. FirstOf(todo[p]) \notin reach
      BY <2>1 DEF Dial, ProxyInv, TypeOK
    <2>3. steady[FirstOf(todo[p])] = 0 /\ age[p] \in Nat
      BY <1>1, <2>2 DEF ProxyInv, FreshInv, TypeOK
    <2> QED
      BY <2>3
  <1>5. ASSUME NEW q \in Procs, q # p PROVE FailedRecently(q)'
    BY <1>5 DEF Dial, Move, ProxyInv, TypeOK, FreshInv, FailedRecently, endpoint
  <1>6. FreshInv'
    BY <1>4, <1>5 DEF Dial, ProxyInv, FreshInv, endpoint
  <1> QED
    BY <1>2, <1>3, <1>6 DEF ProxyInv

(* Marking an endpoint down starts a cooldown within a dial's length of    *)
(* its failure; clearing it ends one.                                      *)
LEMMA MarkKeeps ==
    ASSUME ProxyInv, NEW p \in Procs, Mark(p)
    PROVE  ProxyInv'
  <1> DEFINE e    == FirstOf(todo[p])
             left == IF reached[p] /\ p # Prober THEN {} ELSE todo[p] \ {e}
  <1>1. e \in Endpoints /\ pc[p] = "mark" /\ left \subseteq Endpoints
    BY FirstOfIn DEF Mark, ProxyInv, TypeOK, Dialing
  <1>2. TypeOK'
    <2>1. /\ down' = [down EXCEPT ![e] = IF reached[p] THEN 0 ELSE failoverCooldown]
          /\ conn' = [conn EXCEPT ![p] = IF reached[p] /\ p # Prober THEN e ELSE 0]
          /\ todo' = [todo EXCEPT ![p] = left]
          /\ age' = [age EXCEPT ![p] = 0]
          /\ pc' = [pc EXCEPT ![p] = IF left = {} THEN "publish" ELSE "dial"]
          /\ at' = [at EXCEPT ![p] = IF left = {} THEN 1 ELSE 0]
          /\ reached' = [reached EXCEPT ![p] = FALSE]
          /\ UNCHANGED <<endpoint, gauges, found, clock>>
      BY DEF Mark, MarkedDown, Move
    <2>2. down' \in [Endpoints -> 0 .. failoverCooldown]
      BY <1>1, <2>1, Durations DEF ProxyInv, TypeOK
    <2>3. /\ conn' \in [Procs -> 0 .. NumEndpoints]
          /\ at' \in [Procs -> 0 .. NumEndpoints]
      <3>1. {0, 1, e} \subseteq 0 .. NumEndpoints
        BY <1>1, EndpointsAssumption DEF Endpoints
      <3>2. conn' \in [Procs -> 0 .. NumEndpoints]
        BY <2>1, <3>1 DEF ProxyInv, TypeOK
      <3>3. at' \in [Procs -> 0 .. NumEndpoints]
        BY <2>1, <3>1 DEF ProxyInv, TypeOK
      <3> QED
        BY <3>2, <3>3
    <2>4. /\ todo' \in [Procs -> SUBSET Endpoints]
          /\ age' \in [Procs -> 0 .. dialTimeout]
          /\ pc' \in [Procs -> Places]
          /\ reached' \in [Procs -> BOOLEAN]
      BY <1>1, <2>1, Durations DEF ProxyInv, TypeOK, Places, DialPlaces, ShowPlaces
    <2>5. \A q \in Procs : /\ Dialing(q)' => todo'[q] # {}
                           /\ pc'[q] \in {"collect"} \cup ShowPlaces => at'[q] # 0
      BY <2>1 DEF ProxyInv, TypeOK, Dialing, ShowPlaces
    <2> QED
      BY <2>1, <2>2, <2>3, <2>4, <2>5 DEF ProxyInv, TypeOK, endpoint, gauges, clock
  <1>3. FreshInv'
    BY <1>1, Durations DEF Mark, Move, ProxyInv, TypeOK, FreshInv, FailedRecently,
       endpoint, timeout
  <1>4. SkippedOnlyIfFailed'
    <2>1. SUFFICES ASSUME NEW f \in Endpoints, isDown(f)'
                   PROVE  steady[f] <= (failoverCooldown - down'[f]) + dialTimeout
      BY DEF SkippedOnlyIfFailed, Mark, endpoint
    <2>2. CASE f # e
      BY <2>1, <2>2 DEF Mark, ProxyInv, TypeOK, SkippedOnlyIfFailed, isDown
    <2>3. CASE f = e
      <3>1. ~reached[p] /\ down'[f] = failoverCooldown
        BY <1>1, <2>1, <2>3 DEF Mark, MarkedDown, ProxyInv, TypeOK, isDown
      <3>2. steady[f] <= age[p] /\ age[p] <= timeout(p)
        BY <1>1, <2>3, <3>1 DEF ProxyInv, FreshInv, FailedRecently
      <3>3. steady[f] \in Nat /\ age[p] \in Nat
        BY DEF ProxyInv, TypeOK
      <3> QED
        BY <3>1, <3>2, <3>3, Durations
    <2> QED
      BY <2>2, <2>3
  <1> QED
    BY <1>2, <1>3, <1>4 DEF ProxyInv

(* A node that goes down or comes back starts its steady time again. *)
LEMMA FlipKeeps ==
    ASSUME ProxyInv, NEW e \in Endpoints, Flip(e)
    PROVE  ProxyInv'
  <1>1. /\ steady' = [steady EXCEPT ![e] = 0]
        /\ steady \in [Endpoints -> Nat] /\ steady' \in [Endpoints -> 0 .. Longest]
    BY Durations DEF Flip, ProxyInv, TypeOK
  <1>2. \A f \in Endpoints : steady'[f] <= steady[f]
    BY <1>1
  <1>3. TypeOK'
    BY <1>1, TimesAssumption DEF Flip, ProxyInv, TypeOK, Dialing, gauges, clock
  <1>4. \A f \in Endpoints : f \notin reach' => steady'[f] = 0
    BY <1>1 DEF Flip, ProxyInv, FreshInv
  <1>5. ASSUME NEW p \in Procs PROVE (age[p] <= timeout(p) /\ FailedRecently(p))'
    <2>1. SUFFICES ASSUME pc[p] = "mark", ~reached[p]
                   PROVE  steady'[FirstOf(todo[p])] <= age[p]
      BY DEF Flip, ProxyInv, FreshInv, FailedRecently, timeout
    <2>2. FirstOf(todo[p]) \in Endpoints
      BY <2>1, FirstOfIn DEF ProxyInv, TypeOK, Dialing
    <2>3. steady[FirstOf(todo[p])] <= age[p] /\ age[p] \in Nat
      BY <2>1 DEF ProxyInv, TypeOK, FreshInv, FailedRecently
    <2> QED
      BY <1>1, <1>2, <2>2, <2>3
  <1>6. SkippedOnlyIfFailed'
    BY <1>1, <1>2, Durations DEF Flip, ProxyInv, TypeOK, SkippedOnlyIfFailed, isDown
  <1> QED
    BY <1>3, <1>4, <1>5, <1>6 DEF ProxyInv, FreshInv

(* A tick: a cooldown gets shorter by what a steady time gets longer. *)
LEMMA TickKeeps ==
    ASSUME ProxyInv, Tick
    PROVE  ProxyInv'
  <1>1. ASSUME NEW e \in Endpoints
        PROVE  /\ steady'[e] \in 0 .. Longest /\ steady'[e] <= steady[e] + 1
               /\ e \notin reach => steady'[e] = steady[e]
               /\ down'[e] = IF isDown(e) THEN down[e] - 1 ELSE 0
               /\ down'[e] \in 0 .. failoverCooldown
    BY Durations DEF Tick, ProxyInv, TypeOK, isDown
  <1>2. ASSUME NEW p \in Procs
        PROVE  /\ age'[p] \in 0 .. dialTimeout /\ age'[p] <= timeout(p)
               /\ Dialing(p) => age'[p] = age[p] + 1
    <2>1. Dialing(p) => age[p] < timeout(p)
      BY DEF Tick, MayWait, Dialing
    <2> QED
      BY <2>1, Durations DEF Tick, ProxyInv, TypeOK
  <1>3. TypeOK'
    <2>1. /\ down' \in [Endpoints -> 0 .. failoverCooldown]
          /\ steady' \in [Endpoints -> 0 .. Longest]
          /\ age' \in [Procs -> 0 .. dialTimeout]
      <3>1. /\ down' = [e \in Endpoints |-> down'[e]]
            /\ steady' = [e \in Endpoints |-> steady'[e]]
            /\ age' = [p \in Procs |-> age'[p]]
        BY DEF Tick
      <3> QED
        BY <1>1, <1>2, <3>1
    <2>2. ticker' \in 0 .. healthProbeInterval - 1 /\ due' \in BOOLEAN
      BY Durations DEF Tick, ProxyInv, TypeOK
    <2> QED
      BY <2>1, <2>2 DEF Tick, ProxyInv, TypeOK, Dialing, gauges
  <1>4. FreshInv'
    <2>1. ASSUME NEW p \in Procs PROVE FailedRecently(p)'
      <3>1. SUFFICES ASSUME pc[p] = "mark", ~reached[p]
                     PROVE  steady'[FirstOf(todo[p])] <= age'[p]
        BY DEF Tick, FailedRecently
      <3>2. FirstOf(todo[p]) \in Endpoints
        BY <3>1, FirstOfIn DEF ProxyInv, TypeOK, Dialing
      <3>3. steady[FirstOf(todo[p])] <= age[p]
        BY <3>1 DEF ProxyInv, FreshInv, FailedRecently
      <3>4. age'[p] = age[p] + 1 /\ age[p] \in Nat
        BY <1>2, <3>1 DEF Dialing, ProxyInv, TypeOK
      <3> QED
        BY <1>1, <3>2, <3>3, <3>4 DEF ProxyInv, TypeOK
    <2> QED
      BY <1>1, <1>2, <2>1 DEF Tick, ProxyInv, FreshInv, timeout
  <1>5. SkippedOnlyIfFailed'
    BY <1>1, Durations DEF ProxyInv, TypeOK, SkippedOnlyIfFailed, isDown
  <1> QED
    BY <1>3, <1>4, <1>5 DEF ProxyInv

(* The invariant is inductive: one case per action. *)
LEMMA ProxyStep == ProxyInv /\ [Next]_vars => ProxyInv'
  <1> SUFFICES ASSUME ProxyInv, [Next]_vars PROVE ProxyInv'
    OBVIOUS
  <1>1. \A d \in Dialers : d \in Procs
    BY DEF Procs
  <1>2. Prober \in Procs
    BY DEF Procs
  <1>3. CASE \E d \in Dialers : Accept(d) \/ Dialer(d)
    BY <1>1, <1>3, AcceptKeeps, CollectKeeps, DialKeeps, MarkKeeps, LookKeeps,
       ShowKeeps DEF Dialer, Publish
  <1>4. CASE Probing
    BY <1>2, <1>4, ProbeAllKeeps, DialKeeps, MarkKeeps, LookKeeps, ShowKeeps
       DEF Probing, Publish
  <1>5. CASE \E e \in Endpoints : Flip(e)
    BY <1>5, FlipKeeps
  <1>6. CASE Tick
    BY <1>6, TickKeeps
  <1>7. CASE UNCHANGED vars
    BY <1>7 DEF vars, ProxyInv, TypeOK, FreshInv, FailedRecently,
       SkippedOnlyIfFailed, Dialing, isDown, timeout
  <1> QED
    BY <1>3, <1>4, <1>5, <1>6, <1>7 DEF Next

(* The inductive invariant holds in every reachable state. *)
THEOREM ProxyInvariant == Spec => []ProxyInv
  BY ProxyInit, ProxyStep, PTL DEF Spec

(* Every variable has its type, for any number of endpoints. *)
THEOREM ProxyTypeCorrect == Spec => []TypeOK
  <1>1. ProxyInv => TypeOK
    BY DEF ProxyInv
  <1> QED
    BY <1>1, ProxyInvariant, PTL

(* No endpoint is skipped beyond the cooldown that followed a failed dial, *)
(* whatever goroutines mark and clear it in whatever order.                *)
THEOREM NoEndpointForgotten == Spec => []SkippedOnlyIfFailed
  <1>1. ProxyInv => SkippedOnlyIfFailed
    BY DEF ProxyInv
  <1> QED
    BY <1>1, ProxyInvariant, PTL

-----------------------------------------------------------------------------
(* For how long an endpoint can be passed over.                            *)

(* The dials of d that are over, or were not made at all. *)
Over(d) == NumEndpoints - Cardinality(todo[d])

(* An endpoint a connection has seen in cooldown, or has dialed in vain,   *)
(* has been reachable for less than the cooldown and the dials since.      *)
Bound(n) == (failoverCooldown - 1) + n * dialTimeout

PassInv(d) ==
    /\ pc[d] = "collect" =>
          \A e \in Endpoints \ todo[d] : e < at[d] => steady[e] <= Bound(1)
    /\ Dialing(d) =>
          \A e \in Endpoints \ todo[d] : steady[e] <= Bound(Over(d)) + age[d]
    /\ pc[d] \in ShowPlaces =>
          \A e \in Endpoints :
              conn[d] = 0 \/ e < conn[d] => steady[e] <= Bound(NumEndpoints)

ConnectionsInv == \A d \in Dialers : PassInv(d)

(* The arithmetic of dials that follow each other. *)
LEMMA BoundGrows ==
    ASSUME NEW n \in Nat, NEW k \in Nat
    PROVE  /\ Bound(n) \in Nat
           /\ Bound(n + 1) = Bound(n) + dialTimeout
           /\ n <= k => Bound(n) <= Bound(k)
  <1>1. dialTimeout \in Nat /\ failoverCooldown - 1 \in Nat
    BY Durations
  <1>2. /\ n * dialTimeout \in Nat /\ k * dialTimeout \in Nat
        /\ (n + 1) * dialTimeout = n * dialTimeout + dialTimeout
    BY <1>1
  <1>3. n <= k => n * dialTimeout <= k * dialTimeout
    <2>1. SUFFICES ASSUME n <= k PROVE n * dialTimeout <= k * dialTimeout
      OBVIOUS
    <2>2. PICK j \in Nat : k = n + j
      <3>1. k - n \in Nat /\ k = n + (k - n)
        BY <2>1
      <3> QED
        BY <3>1
    <2>3. k * dialTimeout = n * dialTimeout + j * dialTimeout
      BY <1>1, <2>2
    <2>4. j * dialTimeout \in Nat
      BY <1>1
    <2> QED
      BY <1>2, <2>3, <2>4
  <1> QED
    BY <1>1, <1>2, <1>3 DEF Bound

(* There are NumEndpoints endpoints, and not more left to dial. *)
LEMMA OverType ==
    ASSUME NEW S, S \subseteq Endpoints
    PROVE  /\ Cardinality(S) \in 0 .. NumEndpoints
           /\ S # Endpoints => Cardinality(S) < NumEndpoints
           /\ S # {} => Cardinality(S) > 0
           /\ \A e \in S : Cardinality(S \ {e}) = Cardinality(S) - 1
  <1>1. IsFiniteSet(Endpoints) /\ Cardinality(Endpoints) = NumEndpoints
    <2>1. NumEndpoints \in Int /\ 1 \in Int /\ 1 <= NumEndpoints
      BY EndpointsAssumption
    <2>2. IsFiniteSet(1 .. NumEndpoints)
      BY <2>1, FS_Interval
    <2>3. Cardinality(1 .. NumEndpoints) =
             IF 1 > NumEndpoints THEN 0 ELSE NumEndpoints - 1 + 1
      BY <2>1, FS_Interval
    <2> QED
      BY <2>1, <2>2, <2>3 DEF Endpoints
  <1>2. /\ IsFiniteSet(S) /\ Cardinality(S) <= Cardinality(Endpoints)
        /\ S # Endpoints => Cardinality(S) # Cardinality(Endpoints)
    <2>1. S \in SUBSET Endpoints
      OBVIOUS
    <2> QED
      BY <1>1, <2>1, FS_Subset
  <1>3. Cardinality(S) \in Nat
    BY <1>2, FS_CardinalityType
  <1>4. S # {} => Cardinality(S) # 0
    BY <1>2, FS_EmptySet
  <1>5. \A e \in S : Cardinality(S \ {e}) = Cardinality(S) - 1
    BY <1>2, FS_RemoveElement
  <1> QED
    BY <1>1, <1>2, <1>3, <1>4, <1>5, EndpointsAssumption

(* The endpoint dialed first is the first of those left. *)
LEMMA FirstOfLeast ==
    ASSUME NEW S, S \subseteq Endpoints, NEW e \in S
    PROVE  FirstOf(S) <= e
  <1>1. S \subseteq Nat
    BY EndpointsAssumption DEF Endpoints
  <1>2. PICK f \in S : \A g \in S : ~ (<<g, f>> \in OpToRel(<, Nat))
    BY <1>1, NatLessThanWellFounded, WFMin
  <1>3. \A g \in S : ~ (g < f)
    BY <1>1, <1>2 DEF OpToRel
  <1>4. \A g \in S : f <= g
    BY <1>1, <1>3
  <1>5. FirstOf(S) \in S /\ \A g \in S : FirstOf(S) <= g
    BY <1>4 DEF FirstOf
  <1> QED
    BY <1>5

(* A cooldown is over within its length and that of a dial. *)
LEMMA InCooldown ==
    ASSUME ProxyInv, NEW e \in Endpoints, isDown(e)
    PROVE  steady[e] <= Bound(1)
  <1>1. down[e] \in Nat /\ down[e] >= 1 /\ steady[e] \in Nat
    BY Durations DEF ProxyInv, TypeOK, isDown
  <1>2. steady[e] <= (failoverCooldown - down[e]) + dialTimeout
    BY DEF ProxyInv, SkippedOnlyIfFailed
  <1> QED
    BY <1>1, <1>2, Durations DEF Bound

(* A step that leaves a connection alone, and gives no endpoint steady     *)
(* time, keeps what is known of the connection.                            *)
LEMMA PassQuiet ==
    ASSUME ProxyInv, NEW d \in Dialers, PassInv(d),
           \A e \in Endpoints : steady'[e] <= steady[e] /\ steady'[e] \in Nat,
           pc'[d] = pc[d], at'[d] = at[d], todo'[d] = todo[d],
           age'[d] = age[d], conn'[d] = conn[d]
    PROVE  PassInv(d)'
  <1>1. d \in Procs /\ todo[d] \subseteq Endpoints /\ age[d] \in Nat
    BY Durations DEF Procs, ProxyInv, TypeOK
  <1>2. Over(d) \in Nat /\ Over(d)' = Over(d)
    BY <1>1, OverType, EndpointsAssumption DEF Over
  <1>3. /\ Bound(1) \in Nat /\ Bound(NumEndpoints) \in Nat
        /\ Bound(Over(d)) + age[d] \in Nat
    BY <1>1, <1>2, BoundGrows, EndpointsAssumption
  <1>4. steady \in [Endpoints -> Nat]
    BY Durations DEF ProxyInv, TypeOK
  <1>5. \A e \in Endpoints, n \in Nat : steady[e] <= n => steady'[e] <= n
    BY <1>4
  <1>6. pc[d] = "collect" =>
           \A e \in Endpoints \ todo[d] : e < at[d] => steady'[e] <= Bound(1)
    BY <1>3, <1>5 DEF PassInv
  <1>7. Dialing(d) =>
           \A e \in Endpoints \ todo[d] : steady'[e] <= Bound(Over(d)) + age[d]
    BY <1>3, <1>5 DEF PassInv
  <1>8. pc[d] \in ShowPlaces =>
           \A e \in Endpoints :
               conn[d] = 0 \/ e < conn[d] => steady'[e] <= Bound(NumEndpoints)
    BY <1>3, <1>5 DEF PassInv
  <1>9. /\ Dialing(d)' = Dialing(d) /\ Bound(Over(d))' = Bound(Over(d))
        /\ Bound(1)' = Bound(1) /\ Bound(NumEndpoints)' = Bound(NumEndpoints)
    BY <1>2 DEF Dialing, Bound, Over
  <1> QED
    BY <1>6, <1>7, <1>8, <1>9 DEF PassInv

(* A connection that comes has seen no endpoint. *)
LEMMA AcceptPasses ==
    ASSUME ProxyInv, NEW d \in Dialers, Accept(d)
    PROVE  PassInv(d)'
  <1>1. d \in Procs
    BY DEF Procs
  <1>2. pc'[d] = "collect" /\ at'[d] = 1
    BY <1>1 DEF Accept, Move, ProxyInv, TypeOK
  <1>3. \A e \in Endpoints : ~ (e < 1)
    BY EndpointsAssumption DEF Endpoints
  <1> QED
    BY <1>2, <1>3 DEF PassInv, Dialing, ShowPlaces

(* The endpoints a connection leaves out are in cooldown when it sees them. *)
LEMMA CollectPasses ==
    ASSUME ProxyInv, NEW d \in Dialers, PassInv(d), Collect(d)
    PROVE  PassInv(d)'
  <1> DEFINE seen == todo[d] \cup (IF isDown(at[d]) THEN {} ELSE {at[d]})
  <1>1. d \in Procs /\ todo[d] \subseteq Endpoints /\ at[d] \in Endpoints
    BY EndpointsAssumption DEF Procs, Collect, ProxyInv, TypeOK, Endpoints
  <1>2. seen \subseteq Endpoints /\ pc[d] = "collect"
    BY <1>1 DEF Collect
  <1>3. \A e \in Endpoints \ seen : e < at[d] + 1 => steady[e] <= Bound(1)
    <2>1. SUFFICES ASSUME NEW e \in Endpoints \ seen, e < at[d] + 1
                   PROVE  steady[e] <= Bound(1)
      OBVIOUS
    <2>2. CASE e < at[d]
      BY <1>2, <2>1, <2>2 DEF PassInv
    <2>3. CASE e = at[d]
      BY <2>1, <2>3, InCooldown
    <2> QED
      BY <1>1, <2>1, <2>2, <2>3, EndpointsAssumption DEF Endpoints
  <1>4. steady' = steady /\ age' = age
    BY DEF Collect, endpoint
  <1>5. CASE at[d] < NumEndpoints /\ at' = [at EXCEPT ![d] = @ + 1]
             /\ todo' = [todo EXCEPT ![d] = seen] /\ pc' = pc
    <2>1. at'[d] = at[d] + 1 /\ todo'[d] = seen /\ pc'[d] = "collect"
      BY <1>1, <1>2, <1>5 DEF ProxyInv, TypeOK
    <2> HIDE DEF seen
    <2> QED
      BY <1>3, <1>4, <2>1 DEF PassInv, Dialing, Bound, ShowPlaces
  <1>6. CASE at[d] = NumEndpoints /\ at' = [at EXCEPT ![d] = 0]
             /\ todo' = [todo EXCEPT ![d] = Candidates(seen)] /\ Move(d, "dial")
    <2>1. todo'[d] = Candidates(seen) /\ pc'[d] = "dial"
      BY <1>1, <1>6 DEF Move, ProxyInv, TypeOK
    <2> HIDE DEF seen
    <2>2. SUFFICES ASSUME NEW e \in Endpoints \ todo'[d]
                   PROVE  steady[e] <= Bound(Over(d)') + age[d]
      BY <1>4, <2>1 DEF PassInv, Dialing, Bound, ShowPlaces
    <2>3. todo'[d] = seen
      BY <2>1, <2>2 DEF Candidates
    <2>4. steady[e] <= Bound(1)
      BY <1>1, <1>3, <1>6, <2>2, <2>3, EndpointsAssumption DEF Endpoints
    <2>5. Cardinality(seen) \in Nat /\ Cardinality(seen) < NumEndpoints
      BY <1>2, <2>2, <2>3, OverType, EndpointsAssumption
    <2>6. Over(d)' = NumEndpoints - Cardinality(seen)
      BY <2>3 DEF Over
    <2>7. Over(d)' \in Nat /\ 1 <= Over(d)'
      BY <2>5, <2>6, EndpointsAssumption
    <2>8. Bound(1) <= Bound(Over(d)') /\ Bound(1) \in Nat /\ Bound(Over(d)') \in Nat
      BY <2>7, BoundGrows
    <2>9. age[d] \in Nat /\ steady[e] \in Nat
      BY <1>1, <2>2, Durations DEF ProxyInv, TypeOK
    <2> QED
      BY <2>4, <2>8, <2>9
  <1> QED
    BY <1>5, <1>6 DEF Collect

(* A dial that starts leaves out what it left out before. *)
LEMMA DialPasses ==
    ASSUME ProxyInv, NEW d \in Dialers, PassInv(d), Dial(d)
    PROVE  PassInv(d)'
  <1>1. d \in Procs
    BY DEF Procs
  <1>2. pc[d] = "dial" /\ pc'[d] = "mark"
    BY <1>1 DEF Dial, Move, ProxyInv, TypeOK
  <1>3. steady' = steady /\ age' = age /\ todo' = todo
    BY DEF Dial, endpoint
  <1> QED
    BY <1>2, <1>3 DEF PassInv, Dialing, Bound, ShowPlaces, Over

(* A dial that ends in vain takes its own length and passes its endpoint   *)
(* over; one that reaches its endpoint keeps it, above all those left.     *)
LEMMA MarkPasses ==
    ASSUME ProxyInv, NEW d \in Dialers, PassInv(d), Mark(d)
    PROVE  PassInv(d)'
  <1> DEFINE e    == FirstOf(todo[d])
             left == IF reached[d] THEN {} ELSE todo[d] \ {e}
  <1>1. d \in Procs /\ d # Prober /\ todo[d] \subseteq Endpoints /\ todo[d] # {}
    BY ProcsAssumption DEF Procs, Mark, ProxyInv, TypeOK, Dialing
  <1>2. e \in todo[d] /\ e \in Endpoints /\ e # 0
    BY <1>1, FirstOfIn, EndpointsAssumption DEF Endpoints
  <1>3. /\ pc[d] = "mark" /\ steady' = steady
        /\ pc'[d] = (IF left = {} THEN "publish" ELSE "dial")
        /\ conn'[d] = (IF reached[d] THEN e ELSE 0)
        /\ todo'[d] = left /\ age'[d] = 0
    BY <1>1 DEF Mark, Move, ProxyInv, TypeOK, endpoint
  <1>4. /\ Over(d) \in Nat /\ Over(d) + 1 <= NumEndpoints
        /\ Cardinality(todo[d] \ {e}) = Cardinality(todo[d]) - 1
        /\ Cardinality(todo[d]) \in Nat
    BY <1>1, <1>2, OverType, EndpointsAssumption DEF Over
  <1>5. /\ Bound(Over(d)) \in Nat /\ Bound(Over(d) + 1) \in Nat
        /\ Bound(Over(d) + 1) = Bound(Over(d)) + dialTimeout
        /\ Bound(Over(d) + 1) <= Bound(NumEndpoints)
        /\ Bound(NumEndpoints) \in Nat
        /\ dialTimeout \in Nat /\ dialTimeout <= Bound(Over(d) + 1)
    BY <1>4, BoundGrows, Durations, EndpointsAssumption
  <1>6. age[d] \in Nat /\ age[d] <= dialTimeout /\ steady \in [Endpoints -> Nat]
    BY <1>1, Durations DEF ProxyInv, TypeOK
  <1>7. \A f \in Endpoints \ todo[d] : steady[f] <= Bound(Over(d) + 1)
    <2>1. SUFFICES ASSUME NEW f \in Endpoints \ todo[d]
                   PROVE  steady[f] <= Bound(Over(d) + 1)
      OBVIOUS
    <2>2. steady[f] <= Bound(Over(d)) + age[d]
      BY <1>3, <2>1 DEF PassInv, Dialing
    <2>3. steady[f] \in Nat
      BY <1>6, <2>1
    <2> QED
      BY <1>5, <1>6, <2>2, <2>3
  <1>8. ~reached[d] => steady[e] <= Bound(Over(d) + 1)
    <2>1. ~reached[d] => steady[e] <= age[d]
      BY <1>1, <1>3 DEF ProxyInv, FreshInv, FailedRecently
    <2>2. steady[e] \in Nat
      BY <1>2, <1>6
    <2> QED
      BY <1>5, <1>6, <2>1, <2>2
  <1>9. \A f \in Endpoints : f < e => f \notin todo[d]
    <2>1. \A f \in todo[d] : e <= f
      BY <1>1, FirstOfLeast
    <2> QED
      BY <1>2, <2>1, EndpointsAssumption DEF Endpoints
  <1> HIDE DEF e
  <1>10. CASE left = {}
    <2>1. \A f \in Endpoints :
              conn'[d] = 0 \/ f < conn'[d] => steady[f] <= Bound(Over(d) + 1)
      BY <1>2, <1>3, <1>7, <1>8, <1>9, <1>10
    <2>2. \A f \in Endpoints :
              conn'[d] = 0 \/ f < conn'[d] => steady[f] <= Bound(NumEndpoints)
      BY <1>5, <1>6, <2>1
    <2> QED
      BY <1>3, <1>10, <2>2 DEF PassInv, Dialing, Bound
  <1>11. CASE left # {}
    <2>1. ~reached[d] /\ todo'[d] = todo[d] \ {e} /\ pc'[d] = "dial"
      BY <1>3, <1>11
    <2>2. Over(d)' = Over(d) + 1
      BY <1>4, <2>1, EndpointsAssumption DEF Over
    <2>3. \A f \in Endpoints \ todo'[d] : steady[f] <= Bound(Over(d)')
      BY <1>7, <1>8, <2>1, <2>2
    <2>4. \A f \in Endpoints \ todo'[d] : steady'[f] <= Bound(Over(d)') + age'[d]
      BY <1>3, <1>5, <2>2, <2>3
    <2> QED
      BY <2>1, <2>4 DEF PassInv, Dialing, Bound, ShowPlaces
  <1> QED
    BY <1>10, <1>11

(* Publishing the gauges takes no time. *)
LEMMA PublishPasses ==
    ASSUME ProxyInv, NEW d \in Dialers, PassInv(d), Publish(d)
    PROVE  PassInv(d)'
  <1>1. d \in Procs
    BY DEF Procs
  <1>2. pc[d] \in ShowPlaces /\ steady' = steady
    BY DEF Publish, Look, Show, ShowPlaces, endpoint
  <1>3. (pc'[d] \in ShowPlaces /\ conn'[d] = conn[d]) \/ pc'[d] = "idle"
    BY <1>1 DEF Publish, Look, Show, ShowPlaces, Move, ProxyInv, TypeOK
  <1> QED
    BY <1>2, <1>3 DEF PassInv, Dialing, Bound, ShowPlaces

(* A tick: a dial ages by what a steady time gets longer. *)
LEMMA TickPasses ==
    ASSUME ProxyInv, NEW d \in Dialers, PassInv(d), Tick
    PROVE  PassInv(d)'
  <1>1. d \in Procs /\ pc' = pc /\ todo' = todo
    BY DEF Procs, Tick
  <1>2. pc[d] \notin {"collect"} \cup ShowPlaces
    BY <1>1 DEF Tick, MayWait, Dialing, ShowPlaces
  <1>3. SUFFICES ASSUME Dialing(d), NEW e \in Endpoints \ todo[d]
                 PROVE  steady'[e] <= Bound(Over(d)) + age'[d]
    BY <1>1, <1>2 DEF PassInv, Dialing, Bound, Over
  <1>4. steady[e] <= Bound(Over(d)) + age[d]
    BY <1>3 DEF PassInv
  <1>5. age'[d] = age[d] + 1
    BY <1>1, <1>3 DEF Tick
  <1>6. /\ steady[e] \in Nat /\ age[d] \in Nat
        /\ steady'[e] \in {steady[e], steady[e] + 1}
    BY <1>1, <1>3, Durations DEF Tick, ProxyInv, TypeOK
  <1>7. Over(d) \in Nat
    <2>1. todo[d] \subseteq Endpoints
      BY <1>1 DEF ProxyInv, TypeOK
    <2> QED
      BY <2>1, OverType, EndpointsAssumption DEF Over
  <1>8. Bound(Over(d)) \in Nat
    BY <1>7, BoundGrows
  <1> QED
    BY <1>4, <1>5, <1>6, <1>8

(* A step of another goroutine leaves a connection alone. *)
LEMMA OthersPass ==
    ASSUME ProxyInv, NEW d \in Dialers, PassInv(d), NEW p \in Procs, p # d,
           Accept(p) \/ Dialer(p) \/ (p = Prober /\ Probing)
    PROVE  PassInv(d)'
  <1> USE DEF Dialer, Probing
  <1>1. d \in Procs /\ d # Prober
    BY ProcsAssumption DEF Procs
  <1>2. steady \in [Endpoints -> Nat]
    BY Durations DEF ProxyInv, TypeOK
  <1>3. steady' = steady
    BY DEF Accept, Collect, Dial, Mark, Publish, Look, Show, ProbeAll, endpoint
  <1>4. pc'[d] = pc[d]
    BY <1>1 DEF Accept, Collect, Dial, Mark, Publish, Look, Show, ProbeAll, Move,
       ProxyInv, TypeOK
  <1>5. at'[d] = at[d]
    BY <1>1 DEF Accept, Collect, Dial, Mark, Publish, Look, Show, ProbeAll,
       ProxyInv, TypeOK
  <1>6. todo'[d] = todo[d]
    BY <1>1 DEF Accept, Collect, Dial, Mark, Publish, Look, Show, ProbeAll,
       ProxyInv, TypeOK
  <1>7. age'[d] = age[d] /\ conn'[d] = conn[d]
    BY <1>1 DEF Accept, Collect, Dial, Mark, Publish, Look, Show, ProbeAll,
       ProxyInv, TypeOK
  <1>8. \A e \in Endpoints : steady'[e] <= steady[e] /\ steady'[e] \in Nat
    BY <1>2, <1>3
  <1> QED
    BY <1>4, <1>5, <1>6, <1>7, <1>8, PassQuiet

(* The invariant is inductive: a step is one of the connection's own, or   *)
(* leaves it alone, or lets time pass.                                     *)
LEMMA ConnectionsStep ==
    ProxyInv /\ ConnectionsInv /\ [Next]_vars => ConnectionsInv'
  <1> SUFFICES ASSUME ProxyInv, ConnectionsInv, [Next]_vars, NEW d \in Dialers
               PROVE  PassInv(d)'
    BY DEF ConnectionsInv
  <1>1. PassInv(d) /\ d \in Procs /\ d # Prober
    BY ProcsAssumption DEF ConnectionsInv, Procs
  <1>2. steady \in [Endpoints -> Nat]
    BY Durations DEF ProxyInv, TypeOK
  <1>3. CASE Accept(d) \/ Dialer(d)
    BY <1>1, <1>3, AcceptPasses, CollectPasses, DialPasses, MarkPasses,
       PublishPasses DEF Dialer
  <1>4. CASE \E p \in Dialers : Accept(p) \/ Dialer(p)
    <2>1. PICK p \in Dialers : Accept(p) \/ Dialer(p)
      BY <1>4
    <2>2. CASE p = d
      BY <1>3, <2>1, <2>2
    <2>3. CASE p # d
      <3>1. p \in Procs
        BY DEF Procs
      <3> QED
        BY <1>1, <2>1, <2>3, <3>1, OthersPass
    <2> QED
      BY <2>2, <2>3
  <1>5. CASE Probing
    BY <1>1, <1>5, OthersPass DEF Procs
  <1>6. CASE \E e \in Endpoints : Flip(e)
    <2>1. PICK f \in Endpoints : Flip(f)
      BY <1>6
    <2>2. \A e \in Endpoints : steady'[e] <= steady[e] /\ steady'[e] \in Nat
      BY <1>2, <2>1 DEF Flip
    <2>3. UNCHANGED <<pc, at, todo, age, conn>>
      BY <2>1 DEF Flip
    <2> QED
      BY <1>1, <2>2, <2>3, PassQuiet
  <1>7. CASE Tick
    BY <1>1, <1>7, TickPasses
  <1>8. CASE UNCHANGED vars
    <2>1. UNCHANGED <<steady, pc, at, todo, age, conn>>
      BY <1>8 DEF vars
    <2>2. \A e \in Endpoints : steady'[e] <= steady[e] /\ steady'[e] \in Nat
      BY <1>2, <2>1
    <2> QED
      BY <1>1, <2>1, <2>2, PassQuiet
  <1> QED
    BY <1>4, <1>5, <1>6, <1>7, <1>8 DEF Next

(* What a connection has left out or passed over holds in every state. *)
LEMMA ConnectionsInvariant == Spec => []ConnectionsInv
  <1>1. Init => ConnectionsInv
    BY DEF Init, ConnectionsInv, PassInv, Dialing, Procs, ShowPlaces
  <1> QED
    BY <1>1, ConnectionsStep, ProxyInvariant, PTL DEF Spec

(* A connection never passes over an endpoint that has been reachable for  *)
(* a cooldown and the dials of one connection, however many connections    *)
(* and whatever the prober mark and clear meanwhile.                       *)
THEOREM FailsBackInTime == Spec => []PassedOverIfFailed
  <1>1. ProxyInv /\ ConnectionsInv => PassedOverIfFailed
    <2>1. SUFFICES ASSUME ProxyInv, ConnectionsInv, NEW d \in Dialers,
                          NEW e \in Endpoints, pc[d] \in ShowPlaces,
                          conn[d] = 0 \/ e < conn[d]
                   PROVE  steady[e] < failoverCooldown + NumEndpoints * dialTimeout
      BY DEF PassedOverIfFailed
    <2>2. steady[e] <= Bound(NumEndpoints)
      BY <2>1 DEF ConnectionsInv, PassInv
    <2>3. steady[e] \in Nat /\ NumEndpoints * dialTimeout \in Nat
      BY <2>1, Durations, EndpointsAssumption DEF ProxyInv, TypeOK
    <2> QED
      BY <2>2, <2>3, Durations DEF Bound
  <1> QED
    BY <1>1, ConnectionsInvariant, ProxyInvariant, PTL

-----------------------------------------------------------------------------
(* How far the gauges can be behind.                                       *)

(* When the n-th dial of a round is over, counted from the last update of  *)
(* the round before.                                                       *)
Asked(n) == healthProbeInterval + n * probeTimeout

(* For how long at most the prober has not published the gauges of e. *)
Since(e) ==
    IF pc[Prober] = "idle" THEN IF due THEN healthProbeInterval ELSE ticker
    ELSE IF Dialing(Prober) THEN Asked(Over(Prober)) + age[Prober]
    ELSE IF at[Prober] <= e THEN Round ELSE 0

ProberPlaces == {"idle"} \cup DialPlaces \cup ShowPlaces

(* What makes GaugesInTime inductive: an endpoint was in cooldown when it  *)
(* was published as down, or when one of lower priority was as active.     *)
LateInv ==
    /\ pc[Prober] \in ProberPlaces /\ conn[Prober] = 0
    /\ \A e \in Endpoints : up[e] \/ steady[e] <= Bound(1) + Since(e)
    /\ \A e, f \in Endpoints :
           e < f /\ active[f] => steady[e] <= Bound(1) + Since(f)

(* An update that has found no endpoint up has found those before in       *)
(* cooldown.                                                               *)
FoundInv ==
    \A p \in Procs, e \in Endpoints :
        pc[p] \in ShowPlaces /\ e < at[p] => found[p] \/ steady[e] <= Bound(1)

(* What an update has seen in cooldown, and has still to show, is not in   *)
(* cooldown any more, perhaps, but was so a moment ago.                    *)
SeenInv ==
    \A p \in Procs :
        pc[p] = "show" /\ ~reached[p] => steady[at[p]] <= Bound(1)

GaugeInv == LateInv /\ FoundInv /\ SeenInv

(* The arithmetic of a round. *)
LEMMA AskedGrows ==
    ASSUME NEW n \in 0 .. NumEndpoints
    PROVE  /\ Asked(n) \in Nat /\ Asked(n) >= healthProbeInterval
           /\ Asked(n + 1) = Asked(n) + probeTimeout
           /\ Asked(n) <= Round
           /\ Asked(NumEndpoints) = Round /\ Round \in Nat
  <1>1. /\ probeTimeout \in Nat /\ healthProbeInterval \in Nat
        /\ n \in Nat /\ NumEndpoints \in Nat /\ NumEndpoints - n \in Nat
    BY Durations, EndpointsAssumption
  <1>2. /\ n * probeTimeout \in Nat
        /\ (n + 1) * probeTimeout = n * probeTimeout + probeTimeout
    BY <1>1
  <1>3. /\ NumEndpoints * probeTimeout \in Nat
        /\ (NumEndpoints - n) * probeTimeout \in Nat
    BY <1>1
  <1>4. n * probeTimeout + (NumEndpoints - n) * probeTimeout
           = NumEndpoints * probeTimeout
    BY <1>1
  <1> QED
    BY <1>1, <1>2, <1>3, <1>4 DEF Asked, Round

(* The prober has dialed a number of endpoints that is not above theirs. *)
LEMMA OverProber ==
    ASSUME ProxyInv
    PROVE  /\ Over(Prober) \in 0 .. NumEndpoints
           /\ Dialing(Prober) => Over(Prober) + 1 \in 0 .. NumEndpoints
  <1>1. todo[Prober] \subseteq Endpoints
    BY DEF ProxyInv, TypeOK, Procs
  <1>2. Dialing(Prober) => todo[Prober] # {}
    BY DEF ProxyInv, TypeOK, Procs
  <1>3. Cardinality(todo[Prober]) \in 0 .. NumEndpoints
    BY <1>1, OverType
  <1>4. Dialing(Prober) => Cardinality(todo[Prober]) > 0
    BY <1>1, <1>2, OverType
  <1> QED
    BY <1>3, <1>4, EndpointsAssumption DEF Over

(* The prober has not left an endpoint for longer than a round. *)
LEMMA SinceType ==
    ASSUME ProxyInv, NEW e \in Endpoints
    PROVE  Since(e) \in Nat /\ Since(e) <= Round
  <1>1. /\ Prober \in Procs /\ age[Prober] \in Nat /\ age[Prober] <= probeTimeout
        /\ ticker \in Nat /\ ticker < healthProbeInterval
    BY Durations DEF Procs, ProxyInv, TypeOK, FreshInv, timeout
  <1>2. healthProbeInterval \in Nat /\ probeTimeout \in Nat
    BY Durations
  <1>3. 0 \in 0 .. NumEndpoints
    BY EndpointsAssumption
  <1>4. Round \in Nat /\ healthProbeInterval <= Round
    BY <1>2, <1>3, AskedGrows
  <1>5. ASSUME Dialing(Prober)
        PROVE  /\ Asked(Over(Prober)) + age[Prober] \in Nat
               /\ Asked(Over(Prober)) + age[Prober] <= Round
    <2>1. /\ Asked(Over(Prober)) \in Nat /\ Asked(Over(Prober) + 1) <= Round
          /\ Asked(Over(Prober) + 1) = Asked(Over(Prober)) + probeTimeout
      BY <1>5, OverProber, AskedGrows
    <2> QED
      BY <1>1, <1>2, <1>4, <2>1
  <1>6. CASE pc[Prober] = "idle"
    BY <1>1, <1>2, <1>4, <1>6 DEF Since
  <1>7. CASE pc[Prober] # "idle"
    BY <1>4, <1>5, <1>7 DEF Since
  <1> QED
    BY <1>6, <1>7

(* What the prober's place, its dials and its clock keep. *)
LEMMA SinceSame ==
    ASSUME pc'[Prober] = pc[Prober], at'[Prober] = at[Prober],
           todo'[Prober] = todo[Prober], age'[Prober] = age[Prober],
           due' = due, ticker' = ticker, NEW e
    PROVE  Since(e)' = Since(e)
  BY DEF Since, Dialing, Asked, Over, Round

(* A step that publishes nothing, gives no endpoint steady time, and brings *)
(* the prober no nearer to having published, keeps what is known.           *)
LEMMA GaugeQuiet ==
    ASSUME ProxyInv, GaugeInv, UNCHANGED gauges,
           \A e \in Endpoints : steady'[e] <= steady[e] /\ steady'[e] \in Nat,
           \A e \in Endpoints : Since(e)' \in Nat /\ Since(e) <= Since(e)',
           pc'[Prober] \in ProberPlaces,
           conn'[Prober] = 0,
           \A p \in Procs, e \in Endpoints :
               pc'[p] \in ShowPlaces /\ e < at'[p] =>
                   pc[p] \in ShowPlaces /\ e < at[p] /\ found'[p] = found[p],
           \A p \in Procs :
               pc'[p] = "show" =>
                   pc[p] = "show" /\ at'[p] = at[p] /\ reached'[p] = reached[p]
    PROVE  GaugeInv'
  <1>1. Bound(1) \in Nat /\ Bound(1)' = Bound(1)
    BY BoundGrows DEF Bound
  <1>2. /\ steady \in [Endpoints -> Nat]
        /\ \A e \in Endpoints : Since(e) \in Nat
    BY Durations, SinceType DEF ProxyInv, TypeOK
  <1>3. \A e \in Endpoints, n \in Nat : steady[e] <= n => steady'[e] <= n
    BY <1>2
  <1>4. \A e, f \in Endpoints :
            steady[e] <= Bound(1) + Since(f) => steady'[e] <= Bound(1) + Since(f)'
    BY <1>1, <1>2
  <1>5. LateInv'
    <2>1. up' = up /\ active' = active
      BY DEF gauges
    <2> QED
      BY <1>1, <1>4, <2>1 DEF GaugeInv, LateInv
  <1>6. FoundInv'
    BY <1>1, <1>3 DEF GaugeInv, FoundInv
  <1>7. SeenInv'
    <2>1. SUFFICES ASSUME NEW p \in Procs, pc'[p] = "show", ~reached'[p]
                   PROVE  steady'[at'[p]] <= Bound(1)
      BY <1>1 DEF SeenInv
    <2>2. at'[p] = at[p] /\ at[p] \in Endpoints
      BY <2>1, EndpointsAssumption DEF ProxyInv, TypeOK, ShowPlaces, Endpoints
    <2>3. steady[at[p]] <= Bound(1)
      BY <2>1 DEF GaugeInv, SeenInv
    <2> QED
      BY <1>1, <1>3, <2>2, <2>3
  <1> QED
    BY <1>5, <1>6, <1>7 DEF GaugeInv

(* What a connection does, but for publishing, keeps what is known. *)
LEMMA DialerLate ==
    ASSUME ProxyInv, GaugeInv, NEW d \in Dialers,
           Accept(d) \/ Collect(d) \/ Dial(d) \/ Mark(d)
    PROVE  GaugeInv'
  <1>1. d \in Procs /\ d # Prober /\ Prober \in Procs
    BY ProcsAssumption DEF Procs
  <1>2. steady \in [Endpoints -> Nat] /\ steady' = steady
    BY Durations DEF ProxyInv, TypeOK, Accept, Collect, Dial, Mark,
       endpoint
  <1>3. /\ pc'[Prober] = pc[Prober] /\ at'[Prober] = at[Prober]
        /\ todo'[Prober] = todo[Prober]
    BY <1>1 DEF Accept, Collect, Dial, Mark, Move, ProxyInv, TypeOK
  <1>4. /\ age'[Prober] = age[Prober] /\ conn'[Prober] = conn[Prober]
        /\ due' = due /\ ticker' = ticker /\ UNCHANGED gauges /\ found' = found
    BY <1>1 DEF Accept, Collect, Dial, Mark, ProxyInv, TypeOK, clock
  <1>5. \A e \in Endpoints : Since(e)' \in Nat /\ Since(e) <= Since(e)'
    <2>1. SUFFICES ASSUME NEW e \in Endpoints
                   PROVE  Since(e)' \in Nat /\ Since(e) <= Since(e)'
      OBVIOUS
    <2>2. Since(e)' = Since(e)
      BY <1>3, <1>4, SinceSame
    <2> QED
      BY <2>1, <2>2, SinceType
  <1>6. ASSUME NEW p \in Procs, NEW e \in Endpoints, pc'[p] \in ShowPlaces,
               e < at'[p]
        PROVE  pc[p] \in ShowPlaces /\ e < at[p]
    <2>1. CASE p # d
      <3>1. pc'[p] = pc[p] /\ at'[p] = at[p]
        BY <1>1, <2>1 DEF Accept, Collect, Dial, Mark, Move, ProxyInv, TypeOK
      <3> QED
        BY <1>6, <3>1
    <2>2. CASE p = d
      <3>1. Mark(d)
        BY <1>1, <1>6, <2>2 DEF Accept, Collect, Dial, Move, ProxyInv, TypeOK,
           ShowPlaces
      <3>2. at'[d] = 1
        BY <1>1, <1>6, <2>2, <3>1 DEF Mark, Move, ProxyInv, TypeOK, ShowPlaces
      <3> QED
        BY <1>6, <2>2, <3>2, EndpointsAssumption DEF Endpoints
    <2> QED
      BY <2>1, <2>2
  <1>7. pc[Prober] \in ProberPlaces /\ conn[Prober] = 0
    BY DEF GaugeInv, LateInv
  <1>8. \A e \in Endpoints : steady'[e] <= steady[e] /\ steady'[e] \in Nat
    BY <1>2
  <1>9. \A p \in Procs : pc'[p] = "show" =>
            pc[p] = "show" /\ at'[p] = at[p] /\ reached'[p] = reached[p]
    BY <1>1 DEF Accept, Collect, Dial, Mark, Move, ProxyInv, TypeOK
  <1> QED
    BY <1>3, <1>4, <1>5, <1>6, <1>7, <1>8, <1>9, GaugeQuiet

(* A round that starts, and each dial of it, brings the prober no nearer   *)
(* to its next update than the time that has passed.                       *)
LEMMA ProberLate ==
    ASSUME ProxyInv, GaugeInv, ProbeAll \/ Dial(Prober) \/ Mark(Prober)
    PROVE  GaugeInv'
  <1>1. Prober \in Procs
    BY DEF Procs
  <1>2. /\ steady \in [Endpoints -> Nat] /\ steady' = steady
        /\ UNCHANGED gauges /\ found' = found
    BY Durations DEF ProxyInv, TypeOK, ProbeAll, Dial, Mark, endpoint
  <1>3. /\ Over(Prober) \in 0 .. NumEndpoints
        /\ age[Prober] \in Nat /\ age[Prober] <= probeTimeout
        /\ probeTimeout \in Nat /\ healthProbeInterval \in Nat /\ Round \in Nat
    <2>1. 0 \in 0 .. NumEndpoints
      BY EndpointsAssumption
    <2> QED
      BY <1>1, <2>1, OverProber, AskedGrows, Durations
         DEF ProxyInv, TypeOK, FreshInv, timeout
  <1>4. \A p \in Procs : pc'[p] = "show" =>
            pc[p] = "show" /\ at'[p] = at[p] /\ reached'[p] = reached[p]
    BY <1>1 DEF ProbeAll, Dial, Mark, Move, ProxyInv, TypeOK
  <1>5. CASE ProbeAll
    <2>1. /\ pc[Prober] = "idle" /\ due /\ pc'[Prober] = "dial"
          /\ todo'[Prober] = Endpoints /\ age' = age /\ conn' = conn
      BY <1>1, <1>5 DEF ProbeAll, Move, ProxyInv, TypeOK
    <2>2. Over(Prober)' \in 0 .. NumEndpoints
      BY <2>1, OverType, EndpointsAssumption DEF Over
    <2>3. Asked(Over(Prober)') \in Nat /\ Asked(Over(Prober)') >= healthProbeInterval
      BY <2>2, AskedGrows
    <2>4. \A e \in Endpoints : /\ Since(e) = healthProbeInterval
                               /\ Since(e)' = Asked(Over(Prober)') + age[Prober]
      BY <2>1 DEF Since, Dialing, Asked, Over
    <2>5. \A e \in Endpoints : Since(e)' \in Nat /\ Since(e) <= Since(e)'
      BY <1>3, <2>3, <2>4
    <2>6. \A p \in Procs, e \in Endpoints :
              pc'[p] \in ShowPlaces /\ e < at'[p] =>
                  pc[p] \in ShowPlaces /\ e < at[p]
      BY <1>5 DEF ProbeAll, Move, ProxyInv, TypeOK, ShowPlaces
    <2>7. \A e \in Endpoints : steady'[e] <= steady[e] /\ steady'[e] \in Nat
      BY <1>2
    <2>8. pc'[Prober] \in ProberPlaces /\ conn'[Prober] = 0
      BY <2>1 DEF GaugeInv, LateInv, DialPlaces, ProberPlaces
    <2> QED
      BY <1>2, <1>4, <2>5, <2>6, <2>7, <2>8, GaugeQuiet
  <1>6. CASE Dial(Prober)
    <2>1. /\ pc[Prober] = "dial" /\ pc'[Prober] = "mark"
          /\ todo' = todo /\ age' = age /\ conn' = conn
      BY <1>1, <1>6 DEF Dial, Move, ProxyInv, TypeOK
    <2>2. \A e \in Endpoints : Since(e)' = Since(e)
      BY <2>1 DEF Since, Dialing, Asked, Over
    <2>3. \A e \in Endpoints : Since(e)' \in Nat /\ Since(e) <= Since(e)'
      BY <2>2, SinceType
    <2>4. \A p \in Procs, e \in Endpoints :
              pc'[p] \in ShowPlaces /\ e < at'[p] =>
                  pc[p] \in ShowPlaces /\ e < at[p]
      BY <1>6 DEF Dial, Move, ProxyInv, TypeOK, ShowPlaces
    <2>5. \A e \in Endpoints : steady'[e] <= steady[e] /\ steady'[e] \in Nat
      BY <1>2
    <2>6. pc'[Prober] \in ProberPlaces /\ conn'[Prober] = 0
      BY <2>1 DEF GaugeInv, LateInv, DialPlaces, ProberPlaces
    <2> QED
      BY <1>2, <1>4, <2>3, <2>4, <2>5, <2>6, GaugeQuiet
  <1>7. CASE Mark(Prober)
    <2> DEFINE g    == FirstOf(todo[Prober])
               left == todo[Prober] \ {g}
    <2>1. /\ pc[Prober] = "mark" /\ todo[Prober] \subseteq Endpoints
          /\ todo[Prober] # {} /\ g \in todo[Prober]
      BY <1>1, <1>7, FirstOfIn DEF Mark, ProxyInv, TypeOK, Dialing
    <2>2. /\ pc'[Prober] = (IF left = {} THEN "publish" ELSE "dial")
          /\ at'[Prober] = (IF left = {} THEN 1 ELSE 0)
          /\ todo'[Prober] = left /\ age'[Prober] = 0 /\ conn'[Prober] = 0
      BY <1>1, <1>7 DEF Mark, Move, ProxyInv, TypeOK
    <2>3. Over(Prober)' = Over(Prober) + 1
      <3>1. /\ Cardinality(left) = Cardinality(todo[Prober]) - 1
            /\ Cardinality(todo[Prober]) \in Nat
        BY <2>1, OverType
      <3> QED
        BY <2>2, <3>1, EndpointsAssumption DEF Over
    <2>4. Over(Prober) + 1 \in 0 .. NumEndpoints
      BY <2>1, OverProber DEF Dialing
    <2>5. /\ Asked(Over(Prober)) \in Nat /\ Asked(Over(Prober) + 1) \in Nat
          /\ Asked(Over(Prober) + 1) = Asked(Over(Prober)) + probeTimeout
          /\ Asked(Over(Prober) + 1) <= Round
      BY <1>3, <2>4, AskedGrows
    <2>6. \A e \in Endpoints : Since(e) = Asked(Over(Prober)) + age[Prober]
      BY <2>1 DEF Since, Dialing
    <2> HIDE DEF left
    <2>7. \A e \in Endpoints : Since(e)' \in {Round, Asked(Over(Prober) + 1)}
      <3>1. CASE left = {}
        <4>1. pc'[Prober] = "publish" /\ \A e \in Endpoints : at'[Prober] <= e
          BY <2>2, <3>1, EndpointsAssumption DEF Endpoints
        <4> QED
          BY <4>1 DEF Since, Dialing, Round
      <3>2. CASE left # {}
        <4>1. pc'[Prober] = "dial" /\ age'[Prober] = 0
          BY <2>2, <3>2
        <4>2. \A e \in Endpoints : Since(e)' = Asked(Over(Prober) + 1) + 0
          BY <2>3, <4>1 DEF Since, Dialing, Asked
        <4> QED
          BY <2>5, <4>2
      <3> QED
        BY <3>1, <3>2
    <2>8. \A e \in Endpoints : Since(e)' \in Nat /\ Since(e) <= Since(e)'
      BY <1>3, <2>5, <2>6, <2>7
    <2>9. ASSUME NEW p \in Procs, NEW e \in Endpoints, pc'[p] \in ShowPlaces,
                 e < at'[p]
          PROVE  pc[p] \in ShowPlaces /\ e < at[p]
      <3>1. CASE p = Prober
        BY <2>2, <2>9, <3>1, EndpointsAssumption DEF Endpoints, ShowPlaces
      <3>2. CASE p # Prober
        <4>1. pc'[p] = pc[p] /\ at'[p] = at[p]
          BY <1>1, <1>7, <3>2 DEF Mark, Move, ProxyInv, TypeOK
        <4> QED
          BY <2>9, <4>1
      <3> QED
        BY <3>1, <3>2
    <2>10. \A e \in Endpoints : steady'[e] <= steady[e] /\ steady'[e] \in Nat
      BY <1>2
    <2>11. pc'[Prober] \in ProberPlaces /\ conn'[Prober] = 0
      BY <2>2 DEF DialPlaces, ShowPlaces, ProberPlaces
    <2> QED
      BY <1>2, <1>4, <2>8, <2>9, <2>10, <2>11, GaugeQuiet
  <1> QED
    BY <1>5, <1>6, <1>7

(* A cooldown is looked at, which keeps what is known of the others. *)
LEMMA LookLate ==
    ASSUME ProxyInv, GaugeInv, NEW p \in Procs, Look(p)
    PROVE  GaugeInv'
  <1>1. Prober \in Procs /\ at[p] \in Endpoints /\ pc[p] = "publish"
    BY EndpointsAssumption DEF Procs, Look, ProxyInv, TypeOK, Endpoints, ShowPlaces
  <1>2. /\ pc'[p] = "show" /\ reached'[p] = ~isDown(at[p])
        /\ \A q \in Procs : q # p => pc'[q] = pc[q] /\ reached'[q] = reached[q]
        /\ UNCHANGED <<steady, up, active, at, todo, age, found, conn, due, ticker>>
    BY DEF Look, Move, ProxyInv, TypeOK, endpoint, gauges, clock
  <1>3. Bound(1)' = Bound(1)
    BY DEF Bound
  <1>4. \A e \in Endpoints : Since(e)' = Since(e)
    <2>1. CASE p = Prober
      BY <1>1, <1>2, <2>1 DEF Since, Dialing, Round
    <2>2. CASE p # Prober
      BY <1>1, <1>2, <2>2, SinceSame
    <2> QED
      BY <2>1, <2>2
  <1>5. pc'[Prober] \in ProberPlaces
    BY <1>1, <1>2 DEF GaugeInv, LateInv, ProberPlaces, ShowPlaces
  <1>6. LateInv'
    BY <1>2, <1>3, <1>4, <1>5 DEF GaugeInv, LateInv
  <1>7. FoundInv'
    BY <1>1, <1>2, <1>3 DEF GaugeInv, FoundInv, ShowPlaces
  <1>8. SeenInv'
    <2>1. SUFFICES ASSUME NEW q \in Procs, pc'[q] = "show", ~reached'[q]
                   PROVE  steady[at[q]] <= Bound(1)
      BY <1>2, <1>3 DEF SeenInv
    <2>2. CASE q = p
      BY <1>1, <1>2, <2>1, <2>2, InCooldown
    <2>3. CASE q # p
      BY <1>2, <2>1, <2>3 DEF GaugeInv, SeenInv
    <2> QED
      BY <2>2, <2>3
  <1> QED
    BY <1>6, <1>7, <1>8 DEF GaugeInv

(* What is shown of an endpoint is the cooldown seen, and what the update  *)
(* found of those before; a prober that publishes starts to count again.   *)
LEMMA ShowLate ==
    ASSUME ProxyInv, GaugeInv, NEW p \in Procs, Show(p)
    PROVE  GaugeInv'
  <1> DEFINE g == at[p]
  <1>1. Prober \in Procs /\ g \in Endpoints /\ pc[p] = "show"
    BY EndpointsAssumption DEF Procs, Show, ProxyInv, TypeOK, Endpoints, ShowPlaces
  <1>2. Bound(1) \in Nat /\ Bound(1)' = Bound(1) /\ steady \in [Endpoints -> Nat]
    BY BoundGrows, Durations DEF Bound, ProxyInv, TypeOK
  <1>3. ~reached[p] => steady[g] <= Bound(1)
    BY <1>1 DEF GaugeInv, SeenInv
  <1>4. /\ steady' = steady /\ age' = age /\ todo' = todo
        /\ due' = due /\ ticker' = ticker
    BY DEF Show, endpoint, clock
  <1>5. /\ up'[g] = reached[p] /\ active'[g] = (reached[p] /\ ~found[p])
        /\ \A e \in Endpoints : e # g => up'[e] = up[e] /\ active'[e] = active[e]
    BY <1>1 DEF Show, ProxyInv, TypeOK
  <1>6. \/ /\ g < NumEndpoints /\ at'[p] = g + 1 /\ pc'[p] = "publish"
           /\ found'[p] = (found[p] \/ reached[p])
        \/ g = NumEndpoints /\ pc'[p] = "idle"
    BY <1>1 DEF Show, Move, ProxyInv, TypeOK
  <1>7. \A q \in Procs : q # p => /\ pc'[q] = pc[q] /\ at'[q] = at[q]
                                  /\ found'[q] = found[q] /\ conn'[q] = conn[q]
                                  /\ reached'[q] = reached[q]
    BY <1>1 DEF Show, Move, ProxyInv, TypeOK
  <1>8. pc'[Prober] \in ProberPlaces /\ conn'[Prober] = 0
    <2>1. pc[Prober] \in ProberPlaces /\ conn[Prober] = 0
      BY DEF GaugeInv, LateInv
    <2>2. CASE p = Prober
      BY <1>1, <2>1, <2>2 DEF Show, Move, ProxyInv, TypeOK, ProberPlaces,
         ShowPlaces
    <2>3. CASE p # Prober
      BY <1>1, <1>7, <2>1, <2>3
    <2> QED
      BY <2>2, <2>3
  <1> HIDE DEF g
  <1>9. \A e \in Endpoints : Since(e)' \in Nat /\ (e # g => Since(e) <= Since(e)')
    <2>1. CASE p # Prober
      <3>1. \A e \in Endpoints : Since(e)' = Since(e)
        BY <1>1, <1>4, <1>7, <2>1, SinceSame
      <3> QED
        BY <3>1, SinceType
    <2>2. CASE p = Prober
      <3>1. /\ \A e \in Endpoints : Since(e) = IF g <= e THEN Round ELSE 0
            /\ Round \in Nat
        <4>1. 0 \in 0 .. NumEndpoints
          BY EndpointsAssumption
        <4> QED
          BY <1>1, <2>2, <4>1, AskedGrows DEF g, Since, Dialing
      <3>2. CASE g < NumEndpoints /\ at'[p] = g + 1 /\ pc'[p] = "publish"
        <4>1. \A e \in Endpoints : Since(e)' = IF g + 1 <= e THEN Round ELSE 0
          BY <2>2, <3>2 DEF Since, Dialing, Round
        <4> QED
          BY <1>1, <3>1, <4>1, EndpointsAssumption DEF Endpoints
      <3>3. CASE g = NumEndpoints /\ pc'[p] = "idle"
        <4>1. pc'[Prober] = "idle"
          BY <1>8, <2>2, <3>3 DEF DialPlaces
        <4>2. \A e \in Endpoints : Since(e)' \in {ticker, healthProbeInterval}
          BY <1>4, <4>1 DEF Since
        <4>3. ticker \in Nat /\ healthProbeInterval \in Nat
          BY Durations DEF ProxyInv, TypeOK
        <4>4. \A e \in Endpoints : e # g => Since(e) = 0
          BY <1>1, <3>1, <3>3, EndpointsAssumption DEF Endpoints
        <4> QED
          BY <4>2, <4>3, <4>4
      <3> QED
        BY <1>6, <3>2, <3>3
    <2> QED
      BY <2>1, <2>2
  <1>10. ASSUME NEW f \in Endpoints, f # g, NEW n \in Nat, n <= Bound(1) + Since(f)
         PROVE  n <= Bound(1) + Since(f)'
    BY <1>2, <1>9, <1>10, SinceType
  <1>11. ASSUME NEW f \in Endpoints, NEW n \in Nat, n <= Bound(1)
         PROVE  n <= Bound(1) + Since(f)'
    BY <1>2, <1>9, <1>11
  <1>12. ASSUME NEW e \in Endpoints
         PROVE  up'[e] \/ steady[e] <= Bound(1) + Since(e)'
    <2>1. CASE e = g
      BY <1>2, <1>3, <1>5, <1>11, <2>1
    <2>2. CASE e # g
      <3>1. up[e] \/ steady[e] <= Bound(1) + Since(e)
        BY DEF GaugeInv, LateInv
      <3> QED
        BY <1>2, <1>5, <1>10, <2>2, <3>1
    <2> QED
      BY <2>1, <2>2
  <1>13. ASSUME NEW e \in Endpoints, NEW f \in Endpoints, e < f, active'[f]
         PROVE  steady[e] <= Bound(1) + Since(f)'
    <2>1. CASE f = g
      <3>1. ~found[p]
        BY <1>5, <1>13, <2>1
      <3>2. steady[e] <= Bound(1)
        BY <1>1, <1>13, <2>1, <3>1 DEF g, GaugeInv, FoundInv, ShowPlaces
      <3> QED
        BY <1>2, <1>11, <3>2
    <2>2. CASE f # g
      <3>1. steady[e] <= Bound(1) + Since(f)
        BY <1>5, <1>13, <2>2 DEF GaugeInv, LateInv
      <3> QED
        BY <1>2, <1>10, <2>2, <3>1
    <2> QED
      BY <2>1, <2>2
  <1>14. LateInv'
    BY <1>2, <1>4, <1>8, <1>12, <1>13 DEF LateInv
  <1>15. FoundInv'
    <2>1. SUFFICES ASSUME NEW q \in Procs, NEW e \in Endpoints,
                          pc'[q] \in ShowPlaces, e < at'[q]
                   PROVE  found'[q] \/ steady[e] <= Bound(1)
      BY <1>2, <1>4 DEF FoundInv
    <2>2. CASE q # p
      BY <1>7, <2>1, <2>2 DEF GaugeInv, FoundInv
    <2>3. CASE q = p
      <3>1. at'[p] = g + 1 /\ found'[p] = (found[p] \/ reached[p])
        BY <1>6, <2>1, <2>3 DEF ShowPlaces
      <3>2. CASE e = g
        BY <1>3, <2>3, <3>1, <3>2
      <3>3. CASE e # g
        <4>1. e < g
          BY <1>1, <2>1, <2>3, <3>1, <3>3, EndpointsAssumption DEF Endpoints
        <4>2. found[p] \/ steady[e] <= Bound(1)
          BY <1>1, <4>1 DEF g, GaugeInv, FoundInv, ShowPlaces
        <4> QED
          BY <2>3, <3>1, <4>2
      <3> QED
        BY <3>2, <3>3
    <2> QED
      BY <2>2, <2>3
  <1>16. SeenInv'
    <2>1. SUFFICES ASSUME NEW q \in Procs, pc'[q] = "show", ~reached'[q]
                   PROVE  steady[at'[q]] <= Bound(1)
      BY <1>2, <1>4 DEF SeenInv
    <2>2. q # p
      BY <1>6, <2>1
    <2> QED
      BY <1>7, <2>1, <2>2 DEF GaugeInv, SeenInv
  <1> QED
    BY <1>14, <1>15, <1>16 DEF GaugeInv

(* A tick: what an endpoint gets of steady time, the wait for the prober   *)
(* gets longer by; no update is under way.                                 *)
LEMMA TickLate ==
    ASSUME ProxyInv, GaugeInv, Tick
    PROVE  GaugeInv'
  <1>1. Prober \in Procs /\ pc' = pc /\ \A p \in Procs : pc[p] \notin ShowPlaces
    BY DEF Procs, Tick, MayWait, Dialing, ShowPlaces
  <1>2. /\ UNCHANGED gauges /\ todo' = todo /\ conn' = conn
        /\ steady \in [Endpoints -> Nat]
        /\ \A e \in Endpoints : steady'[e] \in {steady[e], steady[e] + 1}
    BY Durations DEF Tick, ProxyInv, TypeOK
  <1>3. Bound(1) \in Nat /\ Bound(1)' = Bound(1)
    BY BoundGrows DEF Bound
  <1>4. pc[Prober] \in ProberPlaces /\ conn[Prober] = 0
    BY DEF GaugeInv, LateInv
  <1>5. \A e \in Endpoints : Since(e) \in Nat /\ Since(e)' = Since(e) + 1
    <2>1. CASE pc[Prober] = "idle"
      <3>1. ~due
        BY <1>1, <2>1 DEF Tick, MayWait, Dialing
      <3>2. \A e \in Endpoints : Since(e) = ticker
        BY <2>1, <3>1 DEF Since
      <3>3. \A e \in Endpoints :
                Since(e)' = IF due' THEN healthProbeInterval ELSE ticker'
        BY <1>1, <2>1 DEF Since
      <3>4. /\ ticker \in Nat /\ ticker + 1 <= healthProbeInterval
            /\ healthProbeInterval \in Nat
            /\ ticker' = (ticker + 1) % healthProbeInterval
            /\ due' = (due \/ ticker' = 0)
        BY Durations DEF Tick, ProxyInv, TypeOK
      <3>5. CASE ticker + 1 = healthProbeInterval
        <4>1. ticker' = 0
          BY <3>4, <3>5
        <4> QED
          BY <3>2, <3>3, <3>4, <3>5, <4>1
      <3>6. CASE ticker + 1 < healthProbeInterval
        <4>1. ticker' = ticker + 1
          BY <3>4, <3>6
        <4>2. ticker' # 0
          BY <3>4, <4>1
        <4>3. ~due'
          BY <3>1, <3>4, <4>2, Zenon
        <4> QED
          BY <3>2, <3>3, <3>4, <4>1, <4>3
      <3> QED
        BY <3>4, <3>5, <3>6
    <2>2. CASE Dialing(Prober)
      <3>1. age'[Prober] = age[Prober] + 1 /\ age[Prober] \in Nat
        BY <1>1, <2>2, Durations DEF Tick, ProxyInv, TypeOK
      <3>2. \A e \in Endpoints : Since(e) = Asked(Over(Prober)) + age[Prober]
        BY <2>2 DEF Since, Dialing
      <3>3. \A e \in Endpoints : Since(e)' = Asked(Over(Prober)) + age'[Prober]
        BY <1>1, <1>2, <2>2 DEF Since, Dialing, Asked, Over
      <3>4. Asked(Over(Prober)) \in Nat
        BY OverProber, AskedGrows
      <3> QED
        BY <3>1, <3>2, <3>3, <3>4
    <2> QED
      BY <1>1, <1>4, <2>1, <2>2 DEF Dialing, DialPlaces, ProberPlaces
  <1>6. ASSUME NEW e \in Endpoints, NEW f \in Endpoints,
               steady[e] <= Bound(1) + Since(f)
        PROVE  steady'[e] <= Bound(1)' + Since(f)'
    BY <1>2, <1>3, <1>5, <1>6
  <1>7. LateInv'
    <2>1. up' = up /\ active' = active
      BY <1>2 DEF gauges
    <2>2. \A e \in Endpoints : (up[e] \/ steady[e] <= Bound(1) + Since(e))'
      BY <1>6, <2>1 DEF GaugeInv, LateInv
    <2>3. \A e, f \in Endpoints :
              e < f /\ active[f] => steady'[e] <= Bound(1)' + Since(f)'
      BY <1>6 DEF GaugeInv, LateInv
    <2> QED
      BY <1>1, <1>2, <1>4, <2>1, <2>2, <2>3 DEF LateInv
  <1>8. FoundInv' /\ SeenInv'
    BY <1>1 DEF FoundInv, SeenInv, ShowPlaces
  <1> QED
    BY <1>7, <1>8 DEF GaugeInv

(* A node that goes down or comes back starts its steady time again. *)
LEMMA FlipLate ==
    ASSUME ProxyInv, GaugeInv, NEW g \in Endpoints, Flip(g)
    PROVE  GaugeInv'
  <1>1. /\ steady \in [Endpoints -> Nat] /\ steady' = [steady EXCEPT ![g] = 0]
        /\ pc' = pc /\ at' = at /\ todo' = todo /\ age' = age /\ found' = found
        /\ reached' = reached /\ conn' = conn /\ UNCHANGED gauges
        /\ due' = due /\ ticker' = ticker
    BY Durations DEF Flip, ProxyInv, TypeOK, clock
  <1>2. \A e \in Endpoints : steady'[e] <= steady[e] /\ steady'[e] \in Nat
    BY <1>1
  <1>3. \A e \in Endpoints : Since(e)' = Since(e)
    BY <1>1, SinceSame
  <1>4. \A e \in Endpoints : Since(e)' \in Nat /\ Since(e) <= Since(e)'
    BY <1>3, SinceType
  <1>5. pc[Prober] \in ProberPlaces /\ conn[Prober] = 0
    BY DEF GaugeInv, LateInv
  <1> QED
    BY <1>1, <1>2, <1>4, <1>5, GaugeQuiet

(* The invariant of the gauges is inductive. *)
LEMMA GaugesStep ==
    ProxyInv /\ GaugeInv /\ [Next]_vars => GaugeInv'
  <1> SUFFICES ASSUME ProxyInv, GaugeInv, [Next]_vars
               PROVE  GaugeInv'
    OBVIOUS
  <1>1. CASE \E d \in Dialers : Accept(d) \/ Dialer(d)
    <2>1. PICK d \in Dialers : Accept(d) \/ Dialer(d)
      BY <1>1
    <2>2. d \in Procs
      BY DEF Procs
    <2> QED
      BY <2>1, <2>2, DialerLate, LookLate, ShowLate DEF Dialer, Publish
  <1>2. CASE Probing
    BY <1>2, ProberLate, LookLate, ShowLate DEF Probing, Publish, Procs
  <1>3. CASE \E e \in Endpoints : Flip(e)
    BY <1>3, FlipLate
  <1>4. CASE Tick
    BY <1>4, TickLate
  <1>5. CASE UNCHANGED vars
    BY <1>5 DEF vars, GaugeInv, LateInv, FoundInv, SeenInv, Since, Dialing, Asked, Over,
       Bound, Round
  <1> QED
    BY <1>1, <1>2, <1>3, <1>4, <1>5 DEF Next

(* The gauges of a proxy that has not started are behind nothing. *)
LEMMA GaugesInit == Init => GaugeInv
  <1> SUFFICES ASSUME Init PROVE GaugeInv
    OBVIOUS
  <1>1. ProxyInv
    BY ProxyInit
  <1>2. Bound(1) \in Nat /\ \A e \in Endpoints : Since(e) \in Nat
    BY <1>1, BoundGrows, SinceType
  <1>3. \A e \in Endpoints : steady[e] = 0 /\ ~active[e]
    BY DEF Init
  <1>4. \A p \in Procs : pc[p] = "idle" /\ conn[p] = 0
    BY DEF Init
  <1> QED
    BY <1>2, <1>3, <1>4 DEF GaugeInv, LateInv, FoundInv, SeenInv, Procs, ProberPlaces,
       ShowPlaces

(* A node that has been there for the rest of a failed dial, its cooldown  *)
(* and a round of the prober is shown up, and none of lower priority is    *)
(* shown active, however the updates are interleaved.                      *)
THEOREM GaugesFollow == Spec => []GaugesInTime
  <1>1. ProxyInv /\ GaugeInv => GaugesInTime
    <2>1. SUFFICES ASSUME ProxyInv, GaugeInv, NEW e \in Endpoints,
                          steady[e] >= failoverCooldown + dialTimeout + Round
                   PROVE  up[e] /\ \A f \in Endpoints : e < f => ~active[f]
      BY DEF GaugesInTime
    <2>2. /\ Bound(1) = (failoverCooldown - 1) + dialTimeout
          /\ \A f \in Endpoints : Since(f) \in Nat /\ Since(f) <= Round
      BY <2>1, SinceType, Durations DEF Bound
    <2>3. Round \in Nat /\ steady[e] \in Nat
      <3>1. 0 \in 0 .. NumEndpoints
        BY EndpointsAssumption
      <3> QED
        BY <2>1, <3>1, AskedGrows, Durations DEF ProxyInv, TypeOK
    <2>4. \A f \in Endpoints : ~ (steady[e] <= Bound(1) + Since(f))
      BY <2>1, <2>2, <2>3, Durations
    <2> QED
      BY <2>1, <2>4 DEF GaugeInv, LateInv
  <1> QED
    BY <1>1, GaugesInit, GaugesStep, ProxyInvariant, PTL DEF Spec
=============================================================================
