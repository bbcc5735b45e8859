---------------------------- MODULE LedgerProofs ----------------------------
(***************************************************************************)
(* Facts about the arithmetic of slots and epochs and about Blockfrost's   *)
(* answers.  Division is opaque to the provers beyond the first section:   *)
(* everything else is proved from these lemmas.                            *)
(***************************************************************************)
EXTENDS Ledger, WellFoundedInduction, TLAPS

-----------------------------------------------------------------------------
(* Least and greatest elements of sets of natural numbers. *)

(* A set of naturals that is not empty has a least element. *)
LEMMA LeastExists ==
    ASSUME NEW B, B \subseteq Nat, B # {}
    PROVE  \E m \in B : \A t \in B : m <= t
  <1>1. PICK m \in B : \A t \in B : ~ (<<t, m>> \in OpToRel(<, Nat))
    BY NatLessThanWellFounded, WFMin
  <1>2. \A t \in B : ~ (t < m)
    BY <1>1 DEF OpToRel
  <1> QED
    BY <1>2

(* And a greatest one when it is bounded. *)
LEMMA GreatestExists ==
    ASSUME NEW B, B \subseteq Nat, B # {},
           NEW n \in Nat, \A t \in B : t <= n
    PROVE  \E m \in B : \A t \in B : t <= m
  <1> DEFINE C == {n - t : t \in B}
  <1>1. C \subseteq Nat /\ C # {}
    <2>1. \A t \in B : t \in Nat /\ n - t \in Nat
      OBVIOUS
    <2>2. PICK t \in B : TRUE
      OBVIOUS
    <2>3. n - t \in C
      BY <2>2
    <2> QED
      BY <2>1, <2>3
  <1>2. PICK c \in C : \A d \in C : c <= d
    BY <1>1, LeastExists
  <1>3. PICK m \in B : c = n - m
    OBVIOUS
  <1>4. ASSUME NEW t \in B PROVE t <= m
    <2>1. n - t \in C
      OBVIOUS
    <2>2. n - m <= n - t
      BY <1>2, <1>3, <2>1
    <2> QED
      BY <2>2
  <1> QED
    BY <1>4

-----------------------------------------------------------------------------
(* Slots and epochs. *)

(* Every slot is between the first slots of its epoch and of the next. *)
LEMMA EpochBounds ==
    ASSUME NEW s \in Nat
    PROVE  /\ EpochOf(s) \in Nat
           /\ FirstSlot(EpochOf(s)) <= s
           /\ s < FirstSlot(EpochOf(s) + 1)
  BY LengthAssumption DEF EpochOf, FirstSlot

(* The first slots of the epochs are naturals and increase. *)
LEMMA FirstSlotNat ==
    ASSUME NEW e \in Nat
    PROVE  FirstSlot(e) \in Nat /\ FirstSlot(e) < FirstSlot(e + 1)
  BY LengthAssumption DEF FirstSlot

(* A later epoch starts at a later slot. *)
LEMMA FirstSlotMono ==
    ASSUME NEW d \in Nat, NEW e \in Nat, d <= e
    PROVE  FirstSlot(d) <= FirstSlot(e)
  BY LengthAssumption DEF FirstSlot

(* Only slots of epoch e are between its first slot and the next one's. *)
LEMMA EpochUnique ==
    ASSUME NEW s \in Nat, NEW e \in Nat,
           FirstSlot(e) <= s, s < FirstSlot(e + 1)
    PROVE  EpochOf(s) = e
  BY LengthAssumption DEF EpochOf, FirstSlot

(* Epochs grow with slots. *)
LEMMA EpochMono ==
    ASSUME NEW s \in Nat, NEW t \in Nat, s <= t
    PROVE  EpochOf(s) <= EpochOf(t)
  <1> SUFFICES ASSUME EpochOf(t) + 1 <= EpochOf(s) PROVE FALSE
    BY EpochBounds
  <1>1. FirstSlot(EpochOf(t) + 1) <= FirstSlot(EpochOf(s))
    BY EpochBounds, FirstSlotMono
  <1> QED
    BY <1>1, EpochBounds, FirstSlotNat

(* A slot is in a later epoch exactly when it is past the first slot of    *)
(* the next epoch.                                                         *)
LEMMA LaterEpoch ==
    ASSUME NEW s \in Nat, NEW e \in Nat
    PROVE  e < EpochOf(s) <=> FirstSlot(e + 1) <= s
  <1>1. ASSUME e < EpochOf(s) PROVE FirstSlot(e + 1) <= s
    <2>1. FirstSlot(e + 1) <= FirstSlot(EpochOf(s))
      BY <1>1, EpochBounds, FirstSlotMono
    <2> QED
      BY <2>1, EpochBounds, FirstSlotNat
  <1>2. ASSUME EpochOf(s) <= e, FirstSlot(e + 1) <= s PROVE FALSE
    <2>1. FirstSlot(EpochOf(s) + 1) <= FirstSlot(e + 1)
      BY <1>2, EpochBounds, FirstSlotMono
    <2> QED
      BY <1>2, <2>1, EpochBounds, FirstSlotNat
  <1> QED
    BY <1>1, <1>2, EpochBounds

(* The slots are those of the epochs. *)
LEMMA SlotsAreNat ==
    /\ NumEpochs \in Nat \ {0}
    /\ Slots = {s \in Nat : s < FirstSlot(NumEpochs)}
    /\ Epochs = {e \in Nat : e < NumEpochs}
    /\ 0 \in Slots
    /\ 0 \in Epochs
  <1>1. NumEpochs * maxSlotPerEpoch \in Nat \ {0}
    BY LengthAssumption, ElectionAssumption
  <1> QED
    BY <1>1, ElectionAssumption DEF Slots, Epochs, FirstSlot

(* A slot between the first slots of two consecutive epochs is of the earlier one. *)
LEMMA EpochOfSlot ==
    ASSUME NEW s \in Slots
    PROVE  EpochOf(s) \in Epochs
  <1>1. s \in Nat /\ s < FirstSlot(NumEpochs) /\ NumEpochs \in Nat
    BY SlotsAreNat
  <1> SUFFICES ASSUME NumEpochs <= EpochOf(s) PROVE FALSE
    BY <1>1, EpochBounds, SlotsAreNat
  <1>2. FirstSlot(NumEpochs) <= FirstSlot(EpochOf(s))
    BY <1>1, EpochBounds, FirstSlotMono
  <1> QED
    BY <1>1, <1>2, EpochBounds, FirstSlotNat

-----------------------------------------------------------------------------
(* Blockfrost's answers. *)

(* The first and the last block of an epoch that has one are in it. *)
LEMMA EpochBlocks ==
    ASSUME NEW e, BlocksIn(e) # {}
    PROVE  /\ GetFirstBlockInEpoch(e) \in BlocksIn(e)
           /\ GetLastBlockFromPreviousEpoch(e) \in BlocksIn(e)
  <1>1. BlocksIn(e) \subseteq Nat
    BY SlotsAreNat DEF BlocksIn, SlotsOf
  <1>2. /\ FirstSlot(NumEpochs) \in Nat
        /\ \A t \in BlocksIn(e) : t <= FirstSlot(NumEpochs)
    BY SlotsAreNat, FirstSlotNat DEF BlocksIn, SlotsOf
  <1>3. GetFirstBlockInEpoch(e) \in BlocksIn(e)
    BY <1>1, LeastExists DEF GetFirstBlockInEpoch
  <1>4. GetLastBlockFromPreviousEpoch(e) \in BlocksIn(e)
    <2>1. \E m \in BlocksIn(e) : \A t \in BlocksIn(e) : t <= m
      BY <1>1, <1>2, GreatestExists
    <2> QED
      BY <2>1 DEF GetLastBlockFromPreviousEpoch
  <1> QED
    BY <1>3, <1>4

(* Every epoch up to the latest block's has a block. *)
LEMMA EpochHasBlocks ==
    ASSUME chain \in Chains, tip \in Slots, chain[tip] # NoBlock,
           NEW e \in Nat, e <= EpochOf(tip)
    PROVE  BlocksIn(e) # {}
  <1>1. tip \in Nat /\ EpochOf(tip) \in Epochs
    BY SlotsAreNat, EpochOfSlot
  <1>2. e \in Epochs
    BY <1>1, SlotsAreNat
  <1>3. CASE e = EpochOf(tip)
    BY <1>1, <1>3 DEF BlocksIn, SlotsOf
  <1>4. CASE e < EpochOf(tip)
    <2>1. PICK s \in SlotsOf(e) : chain[s] # NoBlock
      BY <1>2, ChainAssumption
    <2>2. s \in Nat /\ EpochOf(s) = e
      BY SlotsAreNat DEF SlotsOf
    <2>3. s <= tip
      BY <1>1, <1>4, <2>2, EpochMono, SlotsAreNat
    <2> QED
      BY <2>1, <2>3 DEF BlocksIn
  <1> QED
    BY <1>1, <1>3, <1>4, SlotsAreNat
=============================================================================
