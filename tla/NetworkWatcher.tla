--------------------------- MODULE NetworkWatcher ----------------------------
(***************************************************************************)
(* The network watcher: five calls a pass, without a cache, of which the   *)
(* first error ends the pass.  internal/watcher/watcher_network.go.        *)
(***************************************************************************)
EXTENDS HealthLoop

VARIABLE netShown   \* netShown[c]: the age of what the gauges of call c show

Calls == <<"genesis", "pools", "network", "epoch", "block">>

CallSet == {Calls[i] : i \in DOMAIN Calls}

NetAgeBound == PassGap("network") + PassMax
NetAgeMax   == NetAgeBound + 1

NetworkBegins ==
    /\ Begins("network", healthy)
    /\ UNCHANGED netShown

NextCallMutant1(n) == IF n = Len(Calls) - 1 THEN 0 ELSE n + 1

NextCallMutant2(n) == n + 1

NextCall(n) == IF n = Len(Calls) THEN 0 ELSE n + 1

Collects ==
    /\ step["network"] > 0
    /\ "blockfrost" \in up
    /\ netShown' = [netShown EXCEPT ![Calls[step["network"]]] = 0]
    /\ Goes("network", NextCall(step["network"]))
    /\ UNCHANGED <<enabled, up, events, steady, calm, healthy, pending, next, lasts>>

(* An error of the call, or an active stake that is no number. *)
CollectFails ==
    /\ step["network"] > 0
    /\ Goes("network", 0)
    /\ CallFails
    /\ UNCHANGED <<enabled, up, steady, healthy, pending, next, lasts, netShown>>

Collecting == NetworkBegins \/ Collects \/ CollectFails

NetworkTick ==
    netShown' = [c \in CallSet |-> IF netShown[c] = NetAgeMax THEN NetAgeMax
                                   ELSE netShown[c] + 1]

NetworkInit == netShown = [c \in CallSet |-> NetAgeMax]

NetworkTypeOK ==
    /\ netShown \in [CallSet -> 0..NetAgeMax]
    /\ step["network"] \in 0..Len(Calls)

-----------------------------------------------------------------------------
NetFreshBound == ReadyBound + PassGap("network") + PassMax

(* When the upstreams have been in order for NetFreshBound, every gauge    *)
(* shows what is not older than an interval and a pass; the epoch and the  *)
(* slot, which come from two calls, are of the same pass when none is at   *)
(* work, so that they are at most the time of a pass apart.                *)
FreshNetwork ==
    "network" \in enabled /\ calm >= NetFreshBound =>
        /\ \A c \in CallSet : netShown[c] <= NetAgeBound
        /\ step["network"] = 0 =>
               netShown["epoch"] - netShown["block"] \in 0..PassMax
=============================================================================
