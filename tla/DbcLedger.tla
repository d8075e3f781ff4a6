------------------------------ MODULE DbcLedger ------------------------------
(***************************************************************************)
(* What a node's chain promises, free of how it is stored: one ledger of   *)
(* blocks that only ever grows at its top, and a coin set that moves with  *)
(* it in the same step.  DbcChain implements it (node/chain.rs over        *)
(* storage/chaindb.rs and types/utxo.rs) as long as no write fails and the *)
(* process is not killed between two writes.                               *)
(***************************************************************************)
EXTENDS DbcUtxo

VARIABLES
    ledger,        \* the blocks of the chain
    top,           \* its last block, or NoBlock
    coins          \* the unspent outputs after that block

ledgerVars == <<ledger, top, coins>>

LedgerTypeOK ==
    /\ ledger \subseteq Blocks
    /\ top \in Blocks \cup {NoBlock}
    /\ coins \in UtxoSet

LedgerInit ==
    /\ ledger = {}
    /\ top = NoBlock
    /\ coins = EmptyUtxo

\* b continues a chain that ends in block t.
Continues(t, b) ==
    IF t = NoBlock
      THEN b = Genesis /\ Body[b].height = 0 /\ Body[b].prev = NoBlock
      ELSE Body[b].prev = t /\ Body[b].height = Body[t].height + 1

Append1(b) ==
    /\ Continues(top, b)
    /\ IsCoinbase(Body[b].coinbase)
    /\ \A t \in Regular(b) : ValidTransaction(coins, t, Body[b].height)
    /\ CoinbaseInBounds(b)
    /\ CanApply(coins, b)
    /\ ledger' = ledger \cup {b}
    /\ top' = b
    /\ coins' = Apply(coins, b)

LedgerNext == \E b \in Blocks : Append1(b)

LedgerSpec == LedgerInit /\ [][LedgerNext]_ledgerVars

-----------------------------------------------------------------------------

\* A coin that two blocks of the ledger consume was created anew in between, by a
\* coinbase that repeats an older one (chain.rs apply_block validates each block
\* against the coins its predecessors left; utxo.rs:441 puts the outputs of a coinbase
\* whether they exist or not).
NoDoubleSpend ==
    \A a, b \in ledger : \A c \in Spends(a) \cap Spends(b) :
        Body[a].height < Body[b].height =>
            \E k \in ledger : /\ Body[k].height \in Body[a].height..Body[b].height - 1
                              /\ c \in Creates(k)

\* No transaction of the block is there twice, no coin is named twice by its inputs,
\* and no sum of outputs leaves the 64-bit word.  The blocks a node mines are ordinary
\* (node/miner.rs takes the entries of a mempool without conflicts); validate_block
\* does not ask for it.
Ordinary(b) ==
    /\ IsInjective(Body[b].txs)
    /\ \A t \in Regular(b) : IsInjective(Tx[t].inputs)
    /\ \A s, t \in Regular(b) : s # t => Inputs(s) \cap Inputs(t) = {}
    /\ \A t \in Regular(b) \cup {Body[b].coinbase} : Worth(Makes(t)) < WordSize

\* The subsidies and uncle bonuses of a set of blocks.
Issued(S) == MapThenSumSet(LAMBDA b : Subsidy(Body[b].height) + UncleReward(b), S)

\* What the unspent coins are worth.
Supply == Worth({c \in Coins : coins[c] # Missing})

\* While every block is ordinary, the unspent coins are worth no more than the
\* subsidies and uncle bonuses of the blocks issued: fees move value and never make
\* any (validation.rs, the value rule of validate_transaction and the coinbase bound
\* of validate_block).
SupplyIsIssued == (\A b \in ledger : Ordinary(b)) => Supply <= Issued(ledger)
=============================================================================
