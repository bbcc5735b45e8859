---------------------------- MODULE SocketProxy -----------------------------
(***************************************************************************)
(* The failover of the Unix socket proxy: each connection of cardano-cli   *)
(* is a goroutine that dials the cardano-node endpoints in priority order, *)
(* skipping those in cooldown; beside them a prober dials every endpoint   *)
(* to keep the up and active gauges honest.  All of them read and write    *)
(* the endpoints' cooldowns, one lock at a time, and publish the gauges,   *)
(* one series at a time.                                                   *)
(* internal/cardano/cardanocli/socketproxy.go.                             *)
(*                                                                         *)
(* Time advances by ticks.  A dial lasts as long as its timeout allows;    *)
(* what a goroutine does on memory alone takes no time, but the others may *)
(* take steps in between.                                                  *)
(***************************************************************************)
EXTENDS Integers

CONSTANTS
    NumEndpoints,         \* the configured nodes, 1 having the first priority
    Dialers,              \* the goroutines of connections being dialed
    Prober,               \* the goroutine of runHealthProbe
    failoverCooldown,     \* all durations in ticks
    healthProbeInterval,
    dialTimeout,
    probeTimeout,
    MaxFlips              \* bound: nodes that go down or come back

VARIABLES
    reach,    \* the endpoints that accept connections
    down,     \* remoteEndpoint.downUntil: the ticks of cooldown that remain
    up,       \* the gauge cardano_node_up, of each endpoint
    active,   \* the gauge cardano_node_active
    pc,       \* what each goroutine does
    at,       \* the endpoint its loop over the endpoints is at
    todo,     \* the endpoints it has still to dial
    reached,  \* what its dial found, or isDown when it publishes
    age,      \* for how long it has been dialing
    found,    \* activeSet, of its updateMetrics
    conn,     \* the endpoint that dialRemote will return, or 0
    ticker,   \* ticks since the prober's ticker fired
    due,      \* the ticker's channel holds a tick
    steady,   \* history: for how long an endpoint has been reachable
    flips     \* how many times one went down or came back

vars == <<reach, down, up, active, pc, at, todo, reached, age, found, conn,
          ticker, due, steady, flips>>

endpoint == <<reach, steady, flips>>
gauges   == <<up, active>>
clock    == <<ticker, due>>

Endpoints == 1 .. NumEndpoints
Procs     == Dialers \cup {Prober}

(* NewSocketProxy refuses an empty list of nodes. *)
ASSUME EndpointsAssumption == NumEndpoints \in Nat \ {0}

ASSUME ProcsAssumption == Prober \notin Dialers

ASSUME TimesAssumption ==
    /\ {failoverCooldown, healthProbeInterval, dialTimeout, probeTimeout}
          \subseteq Nat \ {0}
    /\ probeTimeout <= dialTimeout
    /\ MaxFlips \in Nat

timeoutMutant(p) == dialTimeout

timeout(p) == IF p = Prober THEN probeTimeout ELSE dialTimeout

isDown(e) == down[e] > 0

Move(p, where) == pc' = [pc EXCEPT ![p] = where]

-----------------------------------------------------------------------------
(* dialRemote: the candidates are collected endpoint by endpoint.          *)

Accept(d) ==
    /\ pc[d] = "idle"
    /\ Move(d, "collect")
    /\ at' = [at EXCEPT ![d] = 1]
    /\ UNCHANGED <<endpoint, down, gauges, todo, reached, age, found, conn, clock>>

(* All in cooldown: all are retried as a last resort. *)
Candidates(S) == IF S = {} THEN Endpoints ELSE S

Collect(d) ==
    LET seen == todo[d] \cup (IF isDown(at[d]) THEN {} ELSE {at[d]})
    IN  /\ pc[d] = "collect"
        /\ \/ /\ at[d] < NumEndpoints
              /\ at' = [at EXCEPT ![d] = @ + 1]
              /\ todo' = [todo EXCEPT ![d] = seen]
              /\ pc' = pc
           \/ /\ at[d] = NumEndpoints
              /\ at' = [at EXCEPT ![d] = 0]
              /\ todo' = [todo EXCEPT ![d] = Candidates(seen)]
              /\ Move(d, "dial")
        /\ UNCHANGED <<endpoint, down, gauges, reached, age, found, conn, clock>>

(* probeAll: at once, then at each tick of the ticker, on every endpoint.  *)
ProbeAll ==
    /\ pc[Prober] = "idle"
    /\ due
    /\ due' = FALSE
    /\ todo' = [todo EXCEPT ![Prober] = Endpoints]
    /\ Move(Prober, "dial")
    /\ UNCHANGED <<endpoint, down, gauges, at, reached, age, found, conn, ticker>>

(* The endpoint a goroutine dials: the first one left, by priority.        *)
HighestMutant(S) == CHOOSE e \in S : \A f \in S : f <= e

FirstOf(S) == CHOOSE e \in S : \A f \in S : e <= f

(* The dial finds the endpoint reachable or not, at one moment of it. *)
Dial(p) ==
    /\ pc[p] = "dial"
    /\ reached' = [reached EXCEPT ![p] = FirstOf(todo[p]) \in reach]
    /\ Move(p, "mark")
    /\ UNCHANGED <<endpoint, down, gauges, at, todo, age, found, conn, clock>>

(* markDown or clearDown, once the dial has returned: the endpoint may be  *)
(* another than when the dial began, and another goroutine may have marked *)
(* it meanwhile.  A dialer keeps the first connection, the prober none.    *)
MarkedDownMutant1(e) == down[e] + failoverCooldown

MarkedDownMutant2(e) == healthProbeInterval

MarkedDown(e) == failoverCooldown

Mark(p) ==
    LET e    == FirstOf(todo[p])
        left == IF reached[p] /\ p # Prober THEN {} ELSE todo[p] \ {e}
    IN  /\ pc[p] = "mark"
        /\ down' = [down EXCEPT ![e] = IF reached[p] THEN 0 ELSE MarkedDown(e)]
        /\ conn' = [conn EXCEPT ![p] = IF reached[p] /\ p # Prober THEN e ELSE 0]
        /\ todo' = [todo EXCEPT ![p] = left]
        /\ age' = [age EXCEPT ![p] = 0]
        /\ Move(p, IF left = {} THEN "publish" ELSE "dial")
        /\ at' = [at EXCEPT ![p] = IF left = {} THEN 1 ELSE 0]
        /\ reached' = [reached EXCEPT ![p] = FALSE]
        /\ UNCHANGED <<endpoint, gauges, found, clock>>

(* updateMetrics, of one endpoint after the other: isDown, which holds the *)
(* lock no longer than it reads, and then the gauges, up before active.    *)
(* Other goroutines may take steps in between.  (The two gauges are set in *)
(* one step: each of them is written by itself, and is read by nobody      *)
(* here.)  After the last endpoint dialRemote returns: the prober waits    *)
(* for its ticker, and a connection is no longer followed here.            *)
Look(p) ==
    /\ pc[p] = "publish"
    /\ reached' = [reached EXCEPT ![p] = ~isDown(at[p])]
    /\ Move(p, "show")
    /\ UNCHANGED <<endpoint, down, gauges, at, todo, age, found, conn, clock>>

Show(p) ==
    LET e == at[p]
    IN  /\ pc[p] = "show"
        /\ up' = [up EXCEPT ![e] = reached[p]]
        /\ active' = [active EXCEPT ![e] = reached[p] /\ ~found[p]]
        /\ reached' = [reached EXCEPT ![p] = FALSE]
        /\ \/ /\ e < NumEndpoints
              /\ at' = [at EXCEPT ![p] = e + 1]
              /\ found' = [found EXCEPT ![p] = @ \/ reached[p]]
              /\ Move(p, "publish")
              /\ conn' = conn
           \/ /\ e = NumEndpoints
              /\ at' = [at EXCEPT ![p] = 0]
              /\ found' = [found EXCEPT ![p] = FALSE]
              /\ Move(p, "idle")
              /\ conn' = [conn EXCEPT ![p] = 0]
        /\ UNCHANGED <<endpoint, down, todo, age, clock>>

Publish(p) == Look(p) \/ Show(p)

-----------------------------------------------------------------------------
(* The environment.                                                        *)

Flip(e) ==
    /\ flips < MaxFlips
    /\ flips' = flips + 1
    /\ reach' = IF e \in reach THEN reach \ {e} ELSE reach \cup {e}
    /\ steady' = [steady EXCEPT ![e] = 0]
    /\ UNCHANGED <<down, gauges, pc, at, todo, reached, age, found, conn, clock>>

Dialing(p) == pc[p] \in {"dial", "mark"}

(* Time does not pass a timeout, nor a step that takes no time. *)
MayWait(p) ==
    \/ pc[p] = "idle" /\ ~(p = Prober /\ due)
    \/ Dialing(p) /\ age[p] < timeout(p)

(* Beyond this long, how long an endpoint has been reachable is the same:  *)
(* a cooldown, the dials of a connection and the wait for a whole round of *)
(* the prober.                                                             *)
Round == healthProbeInterval + NumEndpoints * probeTimeout

Longest == failoverCooldown + NumEndpoints * dialTimeout + Round

Tick ==
    /\ \A p \in Procs : MayWait(p)
    /\ down' = [e \in Endpoints |-> IF isDown(e) THEN down[e] - 1 ELSE 0]
    /\ age' = [p \in Procs |-> IF Dialing(p) THEN age[p] + 1 ELSE 0]
    /\ ticker' = (ticker + 1) % healthProbeInterval
    /\ due' = (due \/ ticker' = 0)
    /\ steady' = [e \in Endpoints |->
          IF e \in reach /\ steady[e] < Longest THEN steady[e] + 1
                                                ELSE steady[e]]
    /\ UNCHANGED <<reach, flips, gauges, pc, at, todo, reached, found, conn>>

Init ==
    /\ reach \in SUBSET Endpoints
    /\ down = [e \in Endpoints |-> 0]
    /\ up = [e \in Endpoints |-> FALSE]
    /\ active = [e \in Endpoints |-> FALSE]
    /\ pc = [p \in Procs |-> "idle"]
    /\ at = [p \in Procs |-> 0]
    /\ todo = [p \in Procs |-> {}]
    /\ reached = [p \in Procs |-> FALSE]
    /\ age = [p \in Procs |-> 0]
    /\ found = [p \in Procs |-> FALSE]
    /\ conn = [p \in Procs |-> 0]
    /\ ticker = 0
    /\ due = TRUE
    /\ steady = [e \in Endpoints |-> 0]
    /\ flips = 0

Dialer(d) == Collect(d) \/ Dial(d) \/ Mark(d) \/ Publish(d)

Probing == ProbeAll \/ Dial(Prober) \/ Mark(Prober) \/ Publish(Prober)

Next ==
    \/ \E d \in Dialers : Accept(d) \/ Dialer(d)
    \/ Probing
    \/ \E e \in Endpoints : Flip(e)
    \/ Tick

Spec == Init /\ [][Next]_vars

(***************************************************************************)
(* Goroutines run, dials end at their timeout, and time passes: strong     *)
(* fairness, since no time passes while a goroutine works on memory, and   *)
(* connections could otherwise follow each other for ever within a tick.   *)
(* Nothing says that a connection comes or ends, or that a node goes down  *)
(* or comes back.                                                          *)
(***************************************************************************)
Fairness ==
    /\ \A d \in Dialers : WF_vars(Dialer(d))
    /\ WF_vars(Probing)
    /\ SF_vars(Tick)

FairSpec == Spec /\ Fairness

-----------------------------------------------------------------------------
(***************************************************************************)
(* Properties.                                                             *)
(***************************************************************************)
DialPlaces == {"dial", "mark"}
ShowPlaces == {"publish", "show"}
Places   == {"idle", "collect"} \cup DialPlaces \cup ShowPlaces

(* Every variable has its type; a dialing goroutine has something to dial. *)
TypeOK ==
    /\ reach \subseteq Endpoints
    /\ down \in [Endpoints -> 0 .. failoverCooldown]
    /\ up \in [Endpoints -> BOOLEAN] /\ active \in [Endpoints -> BOOLEAN]
    /\ pc \in [Procs -> Places]
    /\ at \in [Procs -> 0 .. NumEndpoints]
    /\ todo \in [Procs -> SUBSET Endpoints]
    /\ reached \in [Procs -> BOOLEAN] /\ found \in [Procs -> BOOLEAN]
    /\ age \in [Procs -> 0 .. dialTimeout]
    /\ conn \in [Procs -> 0 .. NumEndpoints]
    /\ ticker \in 0 .. healthProbeInterval - 1 /\ due \in BOOLEAN
    /\ steady \in [Endpoints -> 0 .. Longest]
    /\ flips \in 0 .. MaxFlips
    /\ \A p \in Procs : /\ Dialing(p) => todo[p] # {}
                        /\ pc[p] \in {"collect"} \cup ShowPlaces => at[p] # 0

(* No endpoint is skipped for longer than the cooldown after a dial that   *)
(* failed, whatever goroutines mark and clear it in whatever order: one in *)
(* cooldown was unreachable not longer ago than the part of the cooldown   *)
(* that has passed and the length of one dial.                             *)
SkippedOnlyIfFailed ==
    \A e \in Endpoints :
        isDown(e) =>
            steady[e] <= (failoverCooldown - down[e]) + dialTimeout

(* A connection passes over an endpoint, for one of lower priority or for  *)
(* none, only if the endpoint was unreachable less than a cooldown and the *)
(* dials of one connection ago, whatever the prober and other connections  *)
(* did meanwhile: the proxy fails back within that time, and a node that   *)
(* has been there for that long is never missed.                           *)
PassedOverIfFailed ==
    \A d \in Dialers, e \in Endpoints :
        pc[d] \in ShowPlaces /\ (conn[d] = 0 \/ e < conn[d]) =>
            steady[e] < failoverCooldown + NumEndpoints * dialTimeout

(* The gauges follow within a time that is known: a node that has been     *)
(* there for the rest of a failed dial, its cooldown and a round of the    *)
(* prober is shown up, and none of lower priority is shown active, however *)
(* the updates of connections and prober are interleaved.                  *)
GaugesInTime ==
    \A e \in Endpoints :
        steady[e] >= failoverCooldown + dialTimeout + Round =>
            up[e] /\ \A f \in Endpoints : e < f => ~active[f]

(* Once the nodes stop changing, every connection ends up with the one of  *)
(* the highest priority among those that are reachable, none failing while *)
(* there is one, and the gauges become and stay what is true: the proxy    *)
(* fails over and back, whatever marks and updates were interleaved before *)
(* and however late a cooldown set by a slow dial comes.                   *)
First(e) == e \in reach /\ \A f \in reach : e <= f

Served ==
    \A d \in Dialers :
        pc[d] \in ShowPlaces => IF reach = {} THEN conn[d] = 0 ELSE First(conn[d])

Shown == \A e \in Endpoints : up[e] = (e \in reach) /\ active[e] = First(e)

Settles == <>[](Served /\ Shown)

(* "The active endpoint is the highest-priority one that is currently      *)
(* reachable, matching what dialRemote would pick": when no goroutine is   *)
(* publishing, one of the endpoints that are up is active.                 *)
OneActive ==
    (\A p \in Procs : pc[p] \notin ShowPlaces) =>
        \A e, f \in Endpoints : active[e] /\ active[f] => e = f
=============================================================================
