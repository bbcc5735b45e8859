---------------------------- MODULE PoolWatcher ------------------------------
(***************************************************************************)
(* The pool watcher: for each active pool four lookups through a cache,    *)
(* and the gauges set from them.  internal/watcher/watcher_pool.go, and    *)
(* GetAccountInfo of internal/blockfrost/blockfrostapi/blockfrost.go.      *)
(*                                                                         *)
(* Data are abstracted to their age, and to whether they are the pool's:   *)
(* an answer that is accepted may be something else.  For metadata this is *)
(* a pool without a ticker, for details a pledge that is no number, for an *)
(* account the body of an error, whose status is not looked at.            *)
(***************************************************************************)
EXTENDS HealthLoop

CONSTANTS
    ActivePools,    \* the sequence of the active pools
    RewardAccount   \* RewardAccount[p]: the reward account of pool p

VARIABLES
    cache,      \* cache[k]: the age of the entry of key k, or Missing
    bad,        \* the keys whose entry is not the pool's data
    shown,      \* shown[p][k]: the age of what the gauge of lookup k shows
    deceived    \* the pools whose DRep gauge comes from an error

poolVars == <<cache, bad, shown, deceived>>

Missing == -1

cacheTTLMutant == 3 * Interval["pool"]

cacheTTL == 2 * Interval["pool"]

(* What a gauge shows is as old as an entry may be, until the next pass    *)
(* has come to it; counting an age stops where it is older than that.      *)
AgeBound == 2 * Interval["pool"] + PassGap("pool") + PassMax
AgeMax   == AgeBound + 1

Kinds  == <<"metadata", "info", "relays", "account">>
Gauges == {"info", "relays", "account"}
Pools  == {ActivePools[i] : i \in DOMAIN ActivePools}

(* Validate refuses a configuration without an active pool (Config). *)
ASSUME PoolsAssumption == ActivePools \in Seq(Pools) \ {<<>>}

(* Entries are keyed by pool, and those of the accounts by account. *)
Key(p, k) == IF k = "account" THEN <<k, RewardAccount[p]>> ELSE <<k, p>>
Keys      == {Key(p, k) : p \in Pools, k \in {"metadata"} \cup Gauges}

(* The lookup that a pass is at. *)
Lookups == 4 * Len(ActivePools)
at      == step["pool"]
Pool    == ActivePools[((at - 1) \div 4) + 1]
Kind    == Kinds[((at - 1) % 4) + 1]
Entry   == Key(Pool, Kind)

PoolBegins ==
    /\ Begins("pool", healthy)
    /\ UNCHANGED poolVars

Hit == cache[Entry] # Missing

(* What a lookup that has its data does: it sets the gauges, save that the *)
(* details are of no use when they do not parse, after a first gauge.  The *)
(* ticker is used for the gauge of the relays: without it, see Panics.     *)
Uses(age, isBad) ==
    /\ shown' = IF Kind \in Gauges
                THEN [shown EXCEPT ![Pool][Kind] = IF isBad /\ Kind = "info"
                                                   THEN @ ELSE age]
                ELSE shown
    /\ deceived' = IF Kind # "account" THEN deceived
                   ELSE IF isBad THEN deceived \cup {Pool} ELSE deceived \ {Pool}
    /\ Goes("pool", IF (isBad /\ Kind = "info") \/ at = Lookups THEN 0 ELSE at + 1)

Panics == at > 0 /\ Kind = "relays" /\ Key(Pool, "metadata") \in bad

Cached ==
    /\ at > 0 /\ ~Panics
    /\ Hit
    /\ Uses(cache[Entry], Entry \in bad)
    /\ UNCHANGED <<enabled, up, events, steady, calm, healthy, pending, next, lasts,
                   cache, bad>>

(* What the client returns without an error. *)
Accepted(isBad) ==
    /\ "blockfrost" \in up \/ (isBad /\ Kind = "account")
    /\ Kind = "relays" => ~isBad

(* An answer that is accepted is stored, whatever it is. *)
Fetched(isBad) ==
    /\ at > 0 /\ ~Panics
    /\ ~Hit
    /\ Accepted(isBad)
    /\ cache' = [cache EXCEPT ![Entry] = 0]
    /\ bad' = IF isBad THEN bad \cup {Entry} ELSE bad \ {Entry}
    /\ Uses(0, isBad)
    /\ IF isBad THEN CallFails ELSE UNCHANGED <<events, calm>>
    /\ UNCHANGED <<enabled, up, steady, healthy, pending, next, lasts>>

(* The first error ends the pass: the pools after this one have to wait. *)
FetchFails ==
    /\ at > 0 /\ ~Panics
    /\ ~Hit
    /\ Goes("pool", 0)
    /\ CallFails
    /\ UNCHANGED <<enabled, up, steady, healthy, pending, next, lasts, poolVars>>

Watching ==
    \/ PoolBegins \/ Cached \/ FetchFails
    \/ \E isBad \in BOOLEAN : Fetched(isBad)

Older(age) == IF age = AgeMax THEN age ELSE age + 1

PoolTick ==
    /\ cache' = [k \in Keys |-> IF cache[k] \in {Missing, cacheTTL}
                                THEN Missing ELSE cache[k] + 1]
    /\ bad' = {k \in bad : cache'[k] # Missing}
    /\ shown' = [p \in Pools |-> [g \in Gauges |-> Older(shown[p][g])]]
    /\ UNCHANGED deceived

PoolInit ==
    /\ cache = [k \in Keys |-> Missing]
    /\ bad = {}
    /\ shown = [p \in Pools |-> [g \in Gauges |-> AgeMax]]
    /\ deceived = {}

-----------------------------------------------------------------------------
(* Upstreams that are in order make the flag true, and entries stored      *)
(* before are gone; then comes a pass, which is not given up.              *)
FreshBound ==
    Larger(ReadyBound, 2 * Interval["pool"] + 1) + PassGap("pool") + PassMax

(* Recovery, through the flag, the cache and the order of the pools: when  *)
(* the upstreams have been in order for FreshBound, whatever they answered *)
(* and whichever passes were given up before, the gauges of every pool     *)
(* show its data, not older than AgeBound, and no error's.                 *)
FreshGauges ==
    "pool" \in enabled /\ calm >= FreshBound =>
        /\ \A p \in Pools, g \in Gauges : shown[p][g] <= AgeBound
        /\ deceived = {}

PoolTypeOK ==
    /\ cache \in [Keys -> -1..cacheTTL]
    /\ bad \subseteq Keys
    /\ shown \in [Pools -> [Gauges -> 0..AgeMax]]
    /\ deceived \subseteq Pools
    /\ step["pool"] \in 0..Lookups
=============================================================================
