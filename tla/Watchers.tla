----------------------------- MODULE Watchers --------------------------------
(***************************************************************************)
(* The status, the pool and the network watcher together, on one clock,    *)
(* with upstreams that come and go: what the operator reads on /readyz and *)
(* /metrics, compared with what the upstreams say.                         *)
(***************************************************************************)
EXTENDS StatusWatcher, PoolWatcher, NetworkWatcher

CONSTANT Configurations     \* the choices of watchers to enable

ASSUME ConfigurationsAssumption ==
    Configurations \subseteq {c \in SUBSET Loops : "status" \in c}

vars == <<loopVars, bfAnswer, poolVars, netShown>>

(* Where counting the calm stops. *)
CalmMax == Larger(FreshBound, NetFreshBound)

Init ==
    /\ enabled \in Configurations
    /\ LoopInit
    /\ bfAnswer = FALSE
    /\ PoolInit
    /\ NetworkInit

Tick ==
    /\ LoopTick(CalmMax)
    /\ PoolTick
    /\ NetworkTick
    /\ UNCHANGED bfAnswer

UpstreamChanges ==
    /\ \E u \in Upstreams : Flip(u)
    /\ UNCHANGED <<bfAnswer, poolVars, netShown>>

(* A metadata without a ticker ends the process by a panic; it is started  *)
(* again, with an empty cache, no gauges, and a flag that is false.        *)
PanicRestarts ==
    /\ Panics
    /\ enabled' = enabled
    /\ up' = up /\ events' = events
    /\ steady' = 0 /\ calm' = 0
    /\ healthy' = FALSE
    /\ step' = [l \in Loops |-> 0]
    /\ pending' = [l \in Loops |-> l \in enabled]
    /\ next' = Interval
    /\ lasts' = [l \in Loops |-> 0]
    /\ bfAnswer' = FALSE
    /\ cache' = [k \in Keys |-> Missing]
    /\ bad' = {}
    /\ shown' = [p \in Pools |-> [g \in Gauges |-> AgeMax]]
    /\ deceived' = {}
    /\ netShown' = [c \in CallSet |-> NetAgeMax]

Next ==
    \/ Status /\ UNCHANGED <<poolVars, netShown>>
    \/ Watching /\ UNCHANGED <<bfAnswer, netShown>>
    \/ Collecting /\ UNCHANGED <<bfAnswer, poolVars>>
    \/ Tick
    \/ UpstreamChanges
    \/ PanicRestarts

Spec == Init /\ [][Next]_vars

(* Every variable has its type. *)
TypeOK ==
    /\ LoopTypeOK
    /\ bfAnswer \in BOOLEAN
    /\ PoolTypeOK
    /\ NetworkTypeOK
    /\ steady <= CalmMax /\ calm <= CalmMax
=============================================================================
