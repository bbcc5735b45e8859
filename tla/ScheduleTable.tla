--------------------------- MODULE ScheduleTable ----------------------------
(***************************************************************************)
(* What the slot leader service promises of the slots table, and what the  *)
(* block watcher relies on: a row is inserted once, by a refresh of its    *)
(* epoch, and is never changed or removed; a refresh that returns without  *)
(* error has left a row of its epoch for every active pool.                *)
(***************************************************************************)
EXTENDS Integers

CONSTANTS
    Epochs,
    Pools,
    Callers,    \* who refreshes: the block watcher and the scheduler
    Contents,   \* what a row may hold
    NoRow       \* there is no row

VARIABLES
    rows,       \* rows[e][p]: the row of epoch e and pool p
    target,     \* the epoch each caller is refreshing, or -1
    refreshed   \* the epochs that have been refreshed with success

Complete(e) == \A p \in Pools : rows[e][p] # NoRow

Begin(c) ==
    /\ target[c] = -1
    /\ \E e \in Epochs : target' = [target EXCEPT ![c] = e]
    /\ UNCHANGED <<rows, refreshed>>

Insert(c, p) ==
    /\ target[c] # -1
    /\ rows[target[c]][p] = NoRow
    /\ \E row \in Contents : rows' = [rows EXCEPT ![target[c]][p] = row]
    /\ UNCHANGED <<target, refreshed>>

Succeed(c) ==
    /\ target[c] # -1
    /\ Complete(target[c])
    /\ refreshed' = refreshed \cup {target[c]}
    /\ target' = [target EXCEPT ![c] = -1]
    /\ UNCHANGED rows

(* Some fail, or the process ends; what was inserted stays. *)
Fail ==
    /\ \E C \in SUBSET Callers :
          target' = [c \in Callers |-> IF c \in C THEN -1 ELSE target[c]]
    /\ UNCHANGED <<rows, refreshed>>

Init ==
    /\ rows = [e \in Epochs |-> [p \in Pools |-> NoRow]]
    /\ target = [c \in Callers |-> -1]
    /\ refreshed = {}

Next ==
    \/ \E c \in Callers : Begin(c) \/ Succeed(c)
    \/ \E c \in Callers, p \in Pools : Insert(c, p)
    \/ Fail

Spec == Init /\ [][Next]_<<rows, target, refreshed>>
=============================================================================
