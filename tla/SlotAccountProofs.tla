-------------------------- MODULE SlotAccountProofs --------------------------
(***************************************************************************)
(* What follows from an account of slots, for any pools, slots, election   *)
(* and exempt slots: what it promises is what it is meant to promise.      *)
(***************************************************************************)
EXTENDS SlotAccount, TLAPS

(* What is settled stays so while the history only grows. *)
LEMMA SettledKept ==
    ASSUME ever \subseteq ever', waived \subseteq waived', origin' = origin,
           NEW c, SettledTo(c)
    PROVE  \A p \in Pools, s \in Slots : s <= c => Settled(p, s)'
  BY DEF SettledTo, Settled

(* Steps in a life of the process: verdicts, slots given up, cursors that  *)
(* move forward.                                                           *)
LEMMA LifeStep ==
    ASSUME Slots \subseteq Nat, Books, cursor # None,
           cursor' \in Slots, cursor <= cursor', cursor' <= tip, tip' = tip,
           MaySave, waived \subseteq waived', ever \subseteq ever',
           judged' \subseteq ever', origin' = origin, SettledTo(cursor)'
    PROVE  Books'
  <1>1. cursor \in Nat /\ cursor' \in Nat /\ tip \in Nat /\ cursor' # None
    BY DEF Books, None
  <1>2. saved' \in Slots \cup {None} /\ saved' <= cursor' /\ saved' <= tip
    BY <1>1 DEF Books, MaySave, None
  <1>3. saved' # None => SettledTo(saved)'
    <2>1. CASE saved' = saved
      BY <2>1, SettledKept DEF Books, SettledTo
    <2>2. CASE saved' = cursor'
      BY <2>2 DEF SettledTo
    <2> QED
      BY <2>1, <2>2 DEF MaySave
  <1> QED
    BY <1>1, <1>2, <1>3 DEF Books

(* Every step of an account keeps its books. *)
LEMMA BooksStep ==
    ASSUME Slots \subseteq Nat, Books, [Next]_vars
    PROVE  Books'
  <1> USE DEF Books
  <1>1. /\ tip \in Nat /\ None \notin Nat /\ None <= tip
        /\ None \in Slots \cup {None}
        /\ \A c \in Slots \cup {None} : c <= tip /\ c # None => c \in Nat
    BY DEF None
  <1>2. CASE Grow
    <2>1. tip' \in Nat /\ tip < tip' /\ saved <= tip' /\ cursor <= tip'
      BY <1>1, <1>2 DEF Grow, None
    <2> QED
      BY <1>2, <2>1 DEF Grow, SettledTo, Settled
  <1>3. CASE Open
    <2>1. SettledTo(cursor)'
      BY <1>1, <1>3 DEF Open, SettledTo, Settled
    <2> QED
      BY <1>1, <1>3, <2>1 DEF Open, None
  <1>4. CASE Resume
    <2>1. cursor' \in Nat /\ cursor' # None /\ saved \in Nat
      BY <1>4 DEF Resume, None
    <2>2. saved' \in Slots \cup {None} /\ saved' <= cursor' /\ saved' <= tip
      BY <1>4, <2>1 DEF Resume, MaySave
    <2>3. saved' # None => SettledTo(saved)'
      <3>1. CASE saved' = saved
        BY <1>4, <3>1, SettledKept DEF Resume, PassOver, SettledTo
      <3>2. CASE saved' = cursor'
        BY <1>4, <3>2 DEF Resume, SettledTo
      <3> QED
        BY <1>4, <3>1, <3>2 DEF Resume, MaySave
    <2> QED
      BY <1>4, <2>1, <2>2, <2>3 DEF Resume
  <1>5. CASE Move
    BY <1>5, LifeStep DEF Move, None
  <1>6. CASE Jump
    BY <1>6, LifeStep, SettledKept DEF Jump, PassOver, SettledTo, None
  <1>7. ASSUME NEW p \in Pools, NEW s \in Slots, Judge(p, s) PROVE Books'
    BY <1>7, LifeStep, SettledKept DEF Judge, MaySave, SettledTo, None
  <1>8. ASSUME NEW s \in Slots, GiveUp(s) PROVE Books'
    BY <1>8, LifeStep, SettledKept DEF GiveUp, MaySave, SettledTo, None
  <1>9. CASE End
    BY <1>1, <1>9 DEF End, SettledTo, Settled
  <1>10. CASE UNCHANGED vars
    BY <1>10 DEF vars, SettledTo, Settled
  <1> QED
    BY <1>2, <1>3, <1>4, <1>5, <1>6, <1>7, <1>8, <1>9, <1>10 DEF Next

(* The saved cursor never moves back. *)
LEMMA SavedForward ==
    ASSUME Slots \subseteq Nat, Books, [Next]_vars
    PROVE  saved <= saved'
  <1>1. saved \in Int /\ cursor \in Int /\ saved <= saved
    BY DEF Books, None
  <1>2. CASE Resume
    BY <1>1, <1>2 DEF Resume, MaySave
  <1>3. CASE Move \/ Jump
    <2>1. cursor # None /\ saved <= cursor
      BY <1>3 DEF Move, Jump, Books
    <2>2. CASE Move
      BY <1>1, <2>1, <2>2 DEF Move, MaySave
    <2>3. CASE Jump
      BY <1>1, <2>1, <2>3 DEF Jump, MaySave
    <2> QED
      BY <1>3, <2>2, <2>3
  <1>4. CASE UNCHANGED saved
    BY <1>1, <1>4
  <1> QED
    BY <1>2, <1>3, <1>4 DEF Next, Grow, Open, Judge, GiveUp, End, vars

(* A verdict is on a slot ahead of the saved cursor. *)
LEMMA JudgedAhead ==
    ASSUME Slots \subseteq Nat, Books, [Next]_vars,
           NEW p \in Pools, NEW s \in Slots, s <= saved
    PROVE  <<p, s>> \in ever' <=> <<p, s>> \in ever
  <1>1. ASSUME NEW q \in Pools, NEW t \in Slots, Judge(q, t)
        PROVE  ever' = ever \cup {<<q, t>>} /\ <<p, s>> # <<q, t>>
    <2>1. cursor # None /\ cursor < t /\ ever' = ever \cup {<<q, t>>}
      BY <1>1 DEF Judge
    <2>2. saved <= cursor /\ saved \in Int /\ cursor \in Int /\ s \in Int
      BY <2>1 DEF Books, None
    <2> QED
      BY <2>1, <2>2
  <1>2. CASE UNCHANGED ever
    BY <1>2
  <1> QED
    BY <1>1, <1>2 DEF Next, Grow, Open, Resume, Move, Jump, GiveUp, End, vars

-----------------------------------------------------------------------------
(* Behind every cursor of an account everything is settled. *)
THEOREM BooksKept ==
    ASSUME Slots \subseteq Nat
    PROVE  Spec => []Books
  <1>1. Init => Books
    BY DEF Init, Books, None
  <1>2. Books /\ [Next]_vars => Books'
    BY BooksStep
  <1> QED
    BY <1>1, <1>2, PTL DEF Spec

(* What the saved cursor covers is final: no slot up to it is ever judged  *)
(* again, by this process or a later one.                                  *)
THEOREM SavedIsFinal ==
    ASSUME Slots \subseteq Nat
    PROVE  Spec => Final
  <1>1. Books /\ [Next]_vars =>
          [/\ saved <= saved'
           /\ \A p \in Pools, s \in Slots :
                 s <= saved => (<<p, s>> \in ever' <=> <<p, s>> \in ever)]_vars
    BY SavedForward, JudgedAhead
  <1> QED
    BY <1>1, BooksKept, PTL DEF Spec, Final
=============================================================================
