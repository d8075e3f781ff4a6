------------------------------- MODULE DbcUtxo -------------------------------
(***************************************************************************)
(* The UTXO set (types/utxo.rs) and the transaction rules that read it     *)
(* (node/validation.rs): pure operators on a total function from outpoints *)
(* to entries, Missing where the RocksDB key is absent.                    *)
(***************************************************************************)
EXTENDS DbcSupply

CONSTANTS
    Missing,       \* no entry under this outpoint
    Maturity       \* COINBASE_MATURITY_BLOCKS

UtxoEntry == [height : Heights, is_coinbase : BOOLEAN]

UtxoSet == [Coins -> UtxoEntry \cup {Missing}]

EmptyUtxo == [c \in Coins |-> Missing]

ASSUME UtxoAssumption ==
    /\ Missing \notin UtxoEntry
    /\ Maturity \in Nat \ {0}

-----------------------------------------------------------------------------
(* Transaction validity against the set.                                   *)

\* Utxo::is_mature; saturating_sub makes a younger chain simply immature.
IsMature(entry, currentHeight) ==
    entry.is_coinbase => currentHeight - entry.height >= Maturity

\* validate_transaction.  A transaction of the shape of a coinbase passes as it is;
\* any other names no null outpoint, finds every input in the set and mature, and
\* creates no value.
ValidTransaction(utxo, t, currentHeight) ==
    ~IsCoinbase(t) =>
        /\ NullCoin \notin Inputs(t)
        /\ \A c \in Inputs(t) : utxo[c] # Missing /\ IsMature(utxo[c], currentHeight)
        /\ InputSum(t) >= OutputSum(t)

-----------------------------------------------------------------------------
(* Applying and reverting a block.                                         *)

\* The read-only pass of apply_block and its duplicate check, which covers the
\* outputs of regular transactions but not the coinbase outputs.
CanApply(utxo, b) ==
    /\ \A c \in Spends(b) : utxo[c] # Missing
    /\ \A c \in Outputs(b) : utxo[c] = Missing

\* The entry of an output that block b creates.
NewEntry(b, isCoinbase) == [height |-> Body[b].height, is_coinbase |-> isCoinbase]

\* Mutant: the batch forgets to delete the spent entries.
ApplyKeepingSpent(utxo, b) ==
    [c \in Coins |->
        IF c \in Outputs(b) THEN NewEntry(b, FALSE)
        ELSE IF c \in Creates(b) THEN NewEntry(b, TRUE)
        ELSE utxo[c]]

\* The WriteBatch of apply_block: deletes, then the coinbase outputs, then the
\* other outputs; a later entry of the batch wins over an earlier one.
Apply(utxo, b) ==
    [c \in Coins |->
        IF c \in Outputs(b) THEN NewEntry(b, FALSE)
        ELSE IF c \in Creates(b) THEN NewEntry(b, TRUE)
        ELSE IF c \in Spends(b) THEN Missing
        ELSE utxo[c]]

\* The UndoBlock apply_block returns: every consumed entry.
Undo(utxo, b) == [c \in Spends(b) |-> utxo[c]]

\* The WriteBatch of revert_block: outputs removed, then spent entries restored.
Revert(utxo, b, undo) ==
    [c \in Coins |->
        IF c \in Spends(b) THEN undo[c]
        ELSE IF c \in Creates(b) THEN Missing
        ELSE utxo[c]]
=============================================================================
