------------------------------ MODULE DbcBlocks ------------------------------
(***************************************************************************)
(* Blocks and transactions of Digital British Coin (types/dbc_types.rs),   *)
(* shared by every module of the project.                                  *)
(*                                                                         *)
(* A block or a transaction is named by its hash: an element of Blocks or  *)
(* Txs.  Body and Tx give the content a hash stands for, so two different  *)
(* contents never share a name (BLAKE3 is taken as collision free; of two  *)
(* lists of transactions that differ in a repeated tail only, which have   *)
(* one merkle root, a universe holds one).  Scripts, signatures, merkle    *)
(* roots, proof of work, sizes and timestamps are left out: every block    *)
(* and transaction of the universe carries valid ones.  What stays is what *)
(* acceptance depends on the node's state for: parent, height, coins spent *)
(* and created, uncle references.                                          *)
(***************************************************************************)
EXTENDS Integers, FiniteSets, Sequences, Functions

CONSTANTS
    Blocks,        \* hashes of the blocks that exist anywhere
    Txs,           \* hashes of the transactions that exist anywhere
    Coins,         \* outpoints (txid, vout)
    NullCoin,      \* OutPoint::COINBASE, what the input of a coinbase names
    NoBlock,       \* Hash::ZERO, and the absent value of an Option<Hash>
    Genesis,       \* consensus::expected_genesis_hash()
    Body,          \* block hash -> content
    Tx,            \* transaction hash -> content
    MaxHeight      \* greatest height in the universe (a bound of the model)

Heights == 0..MaxHeight

TxBody == [inputs  : Seq(Coins),                 \* inputs[..].previous_output
           outputs : Seq(Coins),                 \* the outpoints (txid, 0), (txid, 1), ...
           optsIn  : BOOLEAN]                    \* some sequence < 0xfffffffe

BlockBody == [prev     : Blocks \cup {NoBlock},  \* header.previous_block_hash
              height   : Heights,                \* header.height
              coinbase : Txs,                    \* transactions[0]
              txs      : Seq(Txs),               \* transactions[1..]
              uncles   : Seq(Blocks)]            \* uncle_blocks / header.uncle_hashes

ASSUME BlockAssumption ==
    /\ NoBlock \notin Blocks
    /\ Genesis \in Blocks
    /\ MaxHeight \in Nat
    /\ NullCoin \in Coins
    /\ Body \in [Blocks -> BlockBody]
    /\ Tx \in [Txs -> TxBody]

-----------------------------------------------------------------------------

\* The outpoints a transaction consumes and creates.
Inputs(t) == Range(Tx[t].inputs)
Makes(t) == Range(Tx[t].outputs)

\* Transaction::is_coinbase: one input, the null outpoint.
IsCoinbase(t) == Tx[t].inputs = <<NullCoin>>

\* What hashing gives: an outpoint names the transaction that creates it and the
\* output's place in it, and no transaction hashes to zero.
ASSUME OutpointAssumption ==
    /\ \A s, t \in Txs : s # t => Makes(s) \cap Makes(t) = {}
    /\ \A t \in Txs : IsInjective(Tx[t].outputs) /\ NullCoin \notin Makes(t)

\* A hash has 32 bytes, and an outpoint is a hash with a 32-bit index.
ASSUME FiniteAssumption == IsFiniteSet(Blocks) /\ IsFiniteSet(Txs) /\ IsFiniteSet(Coins)

\* The transactions of a block after the first.
Regular(b) == Range(Body[b].txs)

\* The outpoints the regular transactions of a block consume, and create.
Spends(b) == UNION {Inputs(t) : t \in Regular(b)}
Outputs(b) == UNION {Makes(t) : t \in Regular(b)}

\* All outpoints a block creates.
Creates(b) == Outputs(b) \cup Makes(Body[b].coinbase)

Uncles(b) == Range(Body[b].uncles)

-----------------------------------------------------------------------------
(* How Chain::accept_block sorts a block that is not stored yet, at tip t.  *)

\* Mutant: a block is placed by its height, whatever its parent.
ConnectsByHeight(t, b) ==
    IF t = NoBlock
      THEN Body[b].height = 0 /\ Body[b].prev = NoBlock /\ b = Genesis
      ELSE Body[b].height = Body[t].height + 1

\* Mutant: a sibling of the tip replaces it, and nothing is reverted.
ConnectsToSibling(t, b) ==
    IF t = NoBlock
      THEN Body[b].height = 0 /\ Body[b].prev = NoBlock /\ b = Genesis
      ELSE Body[b].prev \in {t, Body[t].prev}

\* Mutant: any block without a parent starts the chain.
ConnectsAnyRoot(t, b) ==
    IF t = NoBlock
      THEN Body[b].height = 0 /\ Body[b].prev = NoBlock
      ELSE Body[b].prev = t /\ Body[b].height = Body[t].height + 1

\* The block goes on to apply_block: the one genesis on an empty chain, a child
\* of the tip at the next height otherwise.
Connects(t, b) ==
    IF t = NoBlock
      THEN Body[b].height = 0 /\ Body[b].prev = NoBlock /\ b = Genesis
      ELSE Body[b].prev = t /\ Body[b].height = Body[t].height + 1

\* Mutant: a child of the tip may end in the orphan pool.
UnlinkedAlways(t, b) == Body[b].prev # NoBlock

\* The block is handed to try_orphan.
Unlinked(t, b) ==
    IF t = NoBlock
      THEN Body[b].height # 0 \/ Body[b].prev # NoBlock
      ELSE Body[b].prev # t
=============================================================================
