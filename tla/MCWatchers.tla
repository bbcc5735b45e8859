---------------------------- MODULE MCWatchers -------------------------------
(***************************************************************************)
(* The watchers for TLC: two active pools that share a reward account, and *)
(* an excluded one; and one of the pool and the network watcher beside the *)
(* status watcher, for they share no more than the flag.                   *)
(***************************************************************************)
EXTENDS Watchers, Config

ThePool(name, excluded) ==
    [id |-> name, instance |-> "i", name |-> name, key |-> "k", exclude |-> excluded]

Configured(w) ==
    [network |-> "preprod", project |-> "p", endpoint |-> "e",
     nodes |-> <<[host |-> "h", port |-> 1]>>,
     pools |-> <<ThePool("p1", FALSE), ThePool("p2", TRUE), ThePool("p3", FALSE)>>,
     statusInterval |-> 1, poolInterval |-> 2,
     enabled |-> [x \in {"pool", "block", "network"} |-> x = w]]

ASSUME ValidAssumption == \A w \in {"pool", "network"} : Validate(Configured(w))

(* GetPoolStats, over every list of up to three pools. *)
ASSUME StatsAssumption ==
    \A pools \in SeqOf({ThePool("p1", FALSE), ThePool("p2", TRUE)}, 3) :
        LET stats == GetPoolStats(pools)
        IN  stats.Active + stats.Excluded = stats.Total

Active == GetActivePools(Configured("pool").pools)

MCInterval       == RefreshInterval(Configured("pool"))
MCActivePools    == <<Active[1].id, Active[2].id>>
MCRewardAccount  == [p \in {"p1", "p3"} |-> "account"]
MCConfigurations == {EnabledWatchers(Configured(w)) : w \in {"pool", "network"}}
=============================================================================
