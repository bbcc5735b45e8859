------------------------------- MODULE Ledger -------------------------------
(***************************************************************************)
(* The chain the watcher observes, as Blockfrost shows it.  Blockfrost is  *)
(* not under src/: it is modelled from how src/internal/blockfrost uses    *)
(* it.  The chain is append only (no rollback): `chain' is the complete    *)
(* history, of which the blocks up to the slot `tip' exist already, and    *)
(* Extend adds the next block.                                             *)
(*                                                                         *)
(* Slots and epochs are numbered from 0: epoch e is made of the slots      *)
(* FirstSlot(e) .. FirstSlot(e + 1) - 1.                                   *)
(***************************************************************************)
EXTENDS Integers

CONSTANTS
    maxSlotPerEpoch,  \* slots of an epoch (432000 in the code)
    NumEpochs,        \* bound: the epochs that are ever reached
    Pools,            \* the active pools of the configuration
    AllowEmpty,       \* the pools configured with allow-empty-slots
    Other,            \* a block producer that is not one of Pools
    NoBlock,          \* the content of a slot without a block
    Leads,            \* Leads[p]: the slots pool p is elected for
    Chains            \* the chains that may be produced

VARIABLES
    chain,            \* chain[s]: the producer of slot s, or NoBlock
    tip               \* the slot of the latest block

ledgerVars == <<chain, tip>>

Slots  == 0 .. NumEpochs * maxSlotPerEpoch - 1
Epochs == 0 .. NumEpochs - 1

EpochOf(s)   == s \div maxSlotPerEpoch
FirstSlot(e) == e * maxSlotPerEpoch
EpochSlot(s) == s - FirstSlot(EpochOf(s))
SlotsOf(e)   == {s \in Slots : EpochOf(s) = e}

ASSUME LengthAssumption == maxSlotPerEpoch \in Nat \ {0}

ASSUME ElectionAssumption ==
    /\ NumEpochs \in Nat \ {0}
    /\ Pools # {}
    /\ AllowEmpty \subseteq Pools
    /\ Leads \in [Pools -> SUBSET Slots]

(* No epoch is without a block: Cardano epochs last five days. *)
ASSUME ChainAssumption ==
    /\ Other \notin Pools
    /\ NoBlock \notin Pools \cup {Other}
    /\ \A c \in Chains :
          /\ c \in [Slots -> Pools \cup {Other, NoBlock}]
          /\ \A e \in Epochs : \E s \in SlotsOf(e) : c[s] # NoBlock

(* The slots epoch e's schedule assigns to pool p. *)
Schedule(p, e) == {s \in Leads[p] : EpochOf(s) = e}

(***************************************************************************)
(* Blockfrost's answers.                                                   *)
(***************************************************************************)
GetLatestBlock == tip
GetLatestEpoch == EpochOf(tip)

BlocksIn(e) == {s \in SlotsOf(e) : s <= tip /\ chain[s] # NoBlock}

GetFirstBlockInEpoch(e) ==
    CHOOSE s \in BlocksIn(e) : \A t \in BlocksIn(e) : s <= t

GetLastBlockFromPreviousEpoch(e) ==
    CHOOSE s \in BlocksIn(e) : \A t \in BlocksIn(e) : t <= s

(* The producer of slot s, NoBlock standing for a "not found" answer. *)
GetBlockBySlot(s) == IF s <= tip THEN chain[s] ELSE NoBlock

(***************************************************************************)
(* The chain grows by one block.                                           *)
(***************************************************************************)
NextBlocks == {s \in Slots : s > tip /\ chain[s] # NoBlock}

Extend ==
    /\ \E s \in NextBlocks :
          /\ \A t \in NextBlocks : s <= t
          /\ tip' = s
    /\ chain' = chain

(* Observation starts at the first block of epoch 0. *)
LedgerInit ==
    /\ chain \in Chains
    /\ tip \in {s \in SlotsOf(0) : chain[s] # NoBlock}
    /\ \A s \in SlotsOf(0) : chain[s] # NoBlock => tip <= s
=============================================================================
