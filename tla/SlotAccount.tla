---------------------------- MODULE SlotAccount -----------------------------
(***************************************************************************)
(* What the block watcher promises of the slots its pools lead, whatever   *)
(* happens to the process: no slot that is behind a cursor, in memory or   *)
(* saved, is without a verdict unless it was passed over; a verdict is on  *)
(* a slot ahead of both cursors, after all others of its pool in this life *)
(* of the process, and never before the block can be there; the cursors    *)
(* only move forward.                                                      *)
(*                                                                         *)
(* How the watcher does it is not said here: passes, epochs, schedules,    *)
(* pools taken one by one, failing calls and writes (see BlockWatcher).    *)
(***************************************************************************)
EXTENDS Integers

CONSTANTS
    Pools,
    Slots,
    Leads,      \* Leads[p]: the slots pool p is elected for
    Exempt      \* slots on which no verdict is promised

VARIABLES
    tip,        \* the slot of the latest block
    cursor,     \* the last slot processed, None when no watcher runs
    saved,      \* the last slot processed as the database has it, or None
    origin,     \* the slot after which the last watcher without a row started
    waived,     \* the slots that were passed over
    judged,     \* <<pool, slot>> judged in this life of the process
    ever        \* <<pool, slot>> judged in any

vars == <<tip, cursor, saved, origin, waived, judged, ever>>

None == -1

(* Pool p has, or is not owed, a verdict on slot s. *)
Settled(p, s) ==
    s \in Leads[p] /\ origin < s =>
        s \in Exempt \cup waived \/ <<p, s>> \in ever

SettledTo(c) == \A p \in Pools, s \in Slots : s <= c => Settled(p, s)

(* Slots are passed over, but none the chain has not reached. *)
PassOver == waived \subseteq waived' /\ \A s \in waived' \ waived : s <= tip

(* The write of the cursor may fail: memory is ahead of it then. *)
MaySave == saved' = saved \/ saved' = cursor'

-----------------------------------------------------------------------------
Grow ==
    /\ tip' \in Slots /\ tip < tip'
    /\ UNCHANGED <<cursor, saved, origin, waived, judged, ever>>

(* A watcher that finds nothing saved, since it is the first one or those  *)
(* before it died without a save, starts at the latest block: nothing is   *)
(* promised any more of the slots before that.                             *)
Open ==
    /\ cursor = None /\ saved = None
    /\ cursor' = tip /\ origin' = tip
    /\ UNCHANGED <<tip, saved, waived, judged, ever>>

(* A later one starts at the saved cursor, or ahead of it. *)
Resume ==
    /\ cursor = None /\ saved # None
    /\ cursor' \in Slots /\ saved <= cursor' /\ cursor' <= tip
    /\ MaySave /\ PassOver
    /\ SettledTo(cursor)'
    /\ UNCHANGED <<tip, origin, judged, ever>>

Judge(p, s) ==
    /\ cursor # None
    /\ s \in Leads[p] /\ cursor < s /\ s <= tip
    /\ \A t \in Slots : <<p, t>> \in judged => t < s
    /\ judged' = judged \cup {<<p, s>>}
    /\ ever' = ever \cup {<<p, s>>}
    /\ UNCHANGED <<tip, cursor, saved, origin, waived>>

(* A slot is given up when it cannot be processed. *)
GiveUp(s) ==
    /\ cursor # None
    /\ cursor < s /\ s <= tip
    /\ waived' = waived \cup {s}
    /\ UNCHANGED <<tip, cursor, saved, origin, judged, ever>>

(* The cursor moves over slots that are settled. *)
Move ==
    /\ cursor # None
    /\ cursor' \in Slots /\ cursor < cursor' /\ cursor' <= tip
    /\ MaySave
    /\ SettledTo(cursor)'
    /\ UNCHANGED <<tip, origin, waived, judged, ever>>

(* Whole epochs are jumped over. *)
Jump ==
    /\ cursor # None
    /\ MaySave /\ PassOver
    /\ UNCHANGED <<tip, cursor, origin, judged, ever>>

(* The process ends; the database stays. *)
End ==
    /\ cursor' = None
    /\ judged' = {}
    /\ UNCHANGED <<tip, saved, origin, waived, ever>>

Init ==
    /\ tip \in Slots
    /\ cursor = None /\ saved = None
    /\ origin = 0
    /\ waived = {} /\ judged = {} /\ ever = {}

Next ==
    \/ Grow \/ Open \/ Resume \/ Move \/ Jump \/ End
    \/ \E p \in Pools, s \in Slots : Judge(p, s)
    \/ \E s \in Slots : GiveUp(s)

Spec == Init /\ [][Next]_vars

-----------------------------------------------------------------------------
(* What follows from it. *)

(* Behind the cursors everything is settled, and the saved one is not      *)
(* ahead of the one in memory.                                             *)
Books ==
    /\ tip \in Slots /\ saved <= tip /\ cursor <= tip
    /\ saved \in Slots \cup {None} /\ cursor \in Slots \cup {None}
    /\ saved # None => SettledTo(saved)
    /\ cursor # None => SettledTo(cursor) /\ saved <= cursor
    /\ cursor = None => judged = {}
    /\ judged \subseteq ever

(* What the saved cursor covers is settled for good: it does not move      *)
(* back, and no slot up to it is judged again.                             *)
Final ==
    [][/\ saved <= saved'
       /\ \A p \in Pools, s \in Slots :
              s <= saved => (<<p, s>> \in ever' <=> <<p, s>> \in ever)]_vars
=============================================================================
