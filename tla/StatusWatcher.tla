--------------------------- MODULE StatusWatcher -----------------------------
(***************************************************************************)
(* The status watcher and the readiness probe of the HTTP server.          *)
(* internal/watcher/watcher_status.go, internal/server/http/handlers.go.   *)
(***************************************************************************)
EXTENDS HealthLoop

VARIABLE bfAnswer   \* checkStatus: Blockfrost's answer, held while the node
                    \* is asked

StatusBegins ==
    /\ Begins("status", TRUE)
    /\ UNCHANGED bfAnswer

(* Health: an error, or an answer that says not healthy. *)
ProbeBlockfrost ==
    /\ step["status"] = 1
    /\ bfAnswer' = ("blockfrost" \in up)
    /\ Goes("status", 2)
    /\ UNCHANGED <<enabled, up, events, steady, calm, healthy, pending, next, lasts>>

HealthOfMutant(bf, node) == bf \/ node

HealthOf(bf, node) == bf /\ node

(* Ping, then the flag. *)
ProbeNode ==
    /\ step["status"] = 2
    /\ healthy' = HealthOf(bfAnswer, "node" \in up)
    /\ Goes("status", 0)
    /\ bfAnswer' = FALSE
    /\ UNCHANGED <<enabled, up, events, steady, calm, pending, next, lasts>>

Status == StatusBegins \/ ProbeBlockfrost \/ ProbeNode

(* GET /readyz. *)
ReadyProbe == IF healthy THEN 200 ELSE 500

-----------------------------------------------------------------------------
(* Readiness and the flag follow the upstreams, down as well as up: they   *)
(* contradict them for at most ReadyBound.  In particular a flag that is   *)
(* false is not so for ever.                                               *)
ReadyInTime ==
    steady >= ReadyBound => (ReadyProbe = 200 <=> AllUp)
=============================================================================
