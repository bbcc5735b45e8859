------------------------------ MODULE Config ---------------------------------
(***************************************************************************)
(* The configuration: what Validate accepts, the pools that are watched,   *)
(* and the intervals that run() hands to the watchers.                     *)
(* cmd/watcher/app/config/config.go, internal/pools/pools.go and           *)
(* cmd/watcher/app/watcher.go.  A configuration is a record; a name is any *)
(* value, and Empty is the empty string.                                   *)
(***************************************************************************)
EXTENDS Integers, Sequences, SequencesExt

Empty == ""

GetActivePools(pools)   == SelectSeq(pools, LAMBDA p : ~p.exclude)
GetExcludedPools(pools) == SelectSeq(pools, LAMBDA p : p.exclude)

GetPoolStats(pools) ==
    [Active   |-> Len(GetActivePools(pools)),
     Excluded |-> Len(GetExcludedPools(pools)),
     Total    |-> Len(pools)]

(* What Validate does not look at: the intervals, and whether two pools    *)
(* have the same id.                                                       *)
Validate(c) ==
    /\ c.network \in {"mainnet", "preprod"}
    /\ \A p \in ToSet(c.pools) :
          Empty \notin {p.instance, p.id, p.name, p.key}
    /\ GetActivePools(c.pools) # <<>>
    /\ Empty \notin {c.project, c.endpoint}
    /\ c.nodes # <<>>
    /\ \A n \in ToSet(c.nodes) : n.host # Empty /\ n.port # 0

DefaultRefreshInterval == 15

(* The network watcher is given the interval of the pool watcher; only the *)
(* status watcher has a default of its own.                                *)
RefreshInterval(c) ==
    [status  |-> IF c.statusInterval <= 0 THEN DefaultRefreshInterval
                                          ELSE c.statusInterval,
     pool    |-> c.poolInterval,
     network |-> c.poolInterval]

(* The watchers that are started beside the status watcher. *)
EnabledWatchers(c) ==
    {"status"} \cup {w \in {"pool", "block", "network"} : c.enabled[w]}
=============================================================================
