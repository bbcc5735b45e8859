----------------------------- MODULE HealthLoop ------------------------------
(***************************************************************************)
(* What the status, the pool and the network watcher share: the upstreams, *)
(* the health flag, and the loop that makes a pass at once and then on     *)
(* every tick of a ticker.  internal/watcher/watcher_status.go, and the    *)
(* loops of watcher_pool.go and watcher_network.go.                        *)
(*                                                                         *)
(* Time is counted in ticks of a clock.  A pass is a number of calls; it   *)
(* lasts at most PassMax ticks, the time-outs of the clients, and a loop   *)
(* that waits takes its tick at once.                                      *)
(***************************************************************************)
EXTENDS Integers, FiniteSets, Sequences

CONSTANTS
    Interval,   \* Interval[l]: the refresh interval of loop l
    PassMax,    \* bound: how long a pass may last
    MaxEvents   \* bound: how many events disturb the upstreams or the calls

Loops     == {"status", "pool", "network"}
Upstreams == {"blockfrost", "node"}

ASSUME LoopAssumption ==
    /\ Interval \in [Loops -> Nat \ {0}]
    /\ PassMax \in Nat /\ MaxEvents \in Nat

VARIABLES
    enabled,    \* the loops that the configuration enables
    up,         \* the upstreams that answer
    events,     \* how many events there have been
    steady,     \* ticks since an upstream went down or came back, capped
    calm,       \* ticks that they have been up without a failed call, capped
    healthy,    \* HealthStore.health
    step,       \* step[l]: the call the pass of loop l is at, or 0
    pending,    \* pending[l]: a tick is in the channel of the ticker of l
    next,       \* next[l]: ticks until the next one
    lasts       \* lasts[l]: how long the pass of l has lasted

loopVars == <<enabled, up, events, steady, calm, healthy, step, pending, next, lasts>>

AllUp == up = Upstreams

LoopInit ==
    /\ up \in SUBSET Upstreams
    /\ events = 0 /\ steady = 0 /\ calm = 0
    /\ healthy = FALSE
    /\ step = [l \in Loops |-> 0]
    /\ pending = [l \in Loops |-> l \in enabled]
    /\ next = Interval
    /\ lasts = [l \in Loops |-> 0]

(* The loop of a watcher: a pass, then select on the ticker.  Ready says   *)
(* whether the pass is made: the pool and the network watcher read the     *)
(* health flag, once, before it.                                           *)
Begins(l, ready) ==
    /\ step[l] = 0 /\ pending[l]
    /\ pending' = [pending EXCEPT ![l] = FALSE]
    /\ step' = [step EXCEPT ![l] = IF ready THEN 1 ELSE 0]
    /\ lasts' = [lasts EXCEPT ![l] = 0]
    /\ UNCHANGED <<enabled, up, events, steady, calm, healthy, next>>

Goes(l, n) == step' = [step EXCEPT ![l] = n]

(* An event: a change, a failure or a false answer while the upstreams are *)
(* up, or time that passes during a pass.                                  *)
Event(happens) ==
    /\ events' = IF happens THEN events + 1 ELSE events
    /\ events' <= MaxEvents

CallFails ==
    /\ calm' = 0
    /\ Event(AllUp)

(* The ticker drops a tick for which its channel has no room. *)
TickerTick ==
    /\ pending' = [l \in Loops |-> pending[l] \/ (l \in enabled /\ next[l] = 1)]
    /\ next' = [l \in Loops |-> IF next[l] = 1 THEN Interval[l] ELSE next[l] - 1]

OnTime(l) ==
    /\ ~(step[l] = 0 /\ pending[l])
    /\ step[l] > 0 => lasts[l] < PassMax

LoopTick(cap) ==
    /\ \A l \in Loops : OnTime(l)
    /\ TickerTick
    /\ lasts' = [l \in Loops |-> IF step[l] > 0 THEN lasts[l] + 1 ELSE 0]
    /\ steady' = IF steady < cap THEN steady + 1 ELSE steady
    /\ calm' = IF AllUp /\ calm < cap THEN calm + 1 ELSE calm
    /\ Event(\E l \in Loops : step[l] > 0)
    /\ UNCHANGED <<enabled, up, healthy, step>>

(* An upstream goes down or comes back. *)
Flip(u) ==
    /\ up' = IF u \in up THEN up \ {u} ELSE up \cup {u}
    /\ steady' = 0 /\ calm' = 0
    /\ Event(TRUE)
    /\ UNCHANGED <<enabled, healthy, step, pending, next, lasts>>

(* From the beginning of a pass to that of the next one, at most: a tick   *)
(* that comes during a pass is waiting when it ends.                       *)
Larger(a, b) == IF a >= b THEN a ELSE b
PassGap(l)   == Larger(Interval[l], PassMax)

(* A pass that has read an upstream before it changed may be in progress;  *)
(* the one after it tells the truth.                                       *)
ReadyBound == PassGap("status") + PassMax + 1

LoopTypeOK ==
    /\ enabled \subseteq Loops
    /\ up \subseteq Upstreams
    /\ events \in 0..MaxEvents /\ steady \in Nat /\ calm \in Nat
    /\ healthy \in BOOLEAN
    /\ step \in [Loops -> Nat]
    /\ pending \in [Loops -> BOOLEAN]
    /\ next \in [Loops -> Nat] /\ \A l \in Loops : next[l] \in 1..Interval[l]
    /\ lasts \in [Loops -> 0..PassMax]
=============================================================================
