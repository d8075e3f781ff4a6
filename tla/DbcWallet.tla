------------------------------ MODULE DbcWallet ------------------------------
(***************************************************************************)
(* What a user is told of an address (node/wallet_query.rs, and the copy   *)
(* of its balance in api/http.rs): the balance comes from the UTXO         *)
(* database, the history from the blocks of the chain database.  The two   *)
(* are read by a process that runs nothing else.                           *)
(***************************************************************************)
EXTENDS DbcChain

CONSTANTS
    Addresses,
    Owner          \* outpoint -> the address its script pays

ASSUME WalletAssumption == Owner \in [Coins -> Addresses]

\* script_pays_address.
Paying(a, S) == {c \in S : Owner[c] = a}

\* The entries of the UTXO database that pay the address.
Held(a) == {c \in Paying(a, Coins) : utxo[c] # Missing}

\* balance_for_address and balance_json.
Balance(a) ==
    [confirmed |-> Saturated(Worth(Held(a))),
     spendable |-> Saturated(Worth({c \in Held(a) : IsMature(utxo[c], TipHeight)}))]

\* The rows for the outputs of transaction t, at place n of the block at height h: the
\* coinbase is at place 0, and its first output has a kind of its own.
Rows(a, h, n, t) ==
    {[height |-> h, tx |-> n,
      kind   |-> IF n # 0 THEN "received" ELSE IF k = 1 THEN "coinbase" ELSE "output",
      coin   |-> Tx[t].outputs[k]] : k \in {i \in DOMAIN Tx[t].outputs : Owner[Tx[t].outputs[i]] = a}}

\* What one block of the history shows: its coinbase first, then what its other
\* transactions pay, each output of each transaction in the block's list.
Entries(a, h) ==
    LET block == Body[index[h]]
    IN  Rows(a, h, 0, block.coinbase) \cup
            UNION {Rows(a, h, n, block.txs[n]) : n \in DOMAIN block.txs}

\* Mutant: the scan starts below the tip.
ScannedBelowTip(a, limit) ==
    {h \in Heights :
        h < TipHeight /\ Cardinality(UNION {Entries(a, k) : k \in h + 1..TipHeight}) < limit}

\* The heights history_for_address gets to, from the tip down: it looks at the limit
\* before each block, and shows whole blocks.
Scanned(a, limit) ==
    {h \in Heights :
        OnChain(h) /\ Cardinality(UNION {Entries(a, k) : k \in h + 1..TipHeight}) < limit}

\* history_for_address.
History(a, limit) == UNION {Entries(a, h) : h \in Scanned(a, limit)}

-----------------------------------------------------------------------------

\* A limit no history reaches.
NoLimit == Cardinality(Coins) + 1

Credits(entries) == MapThenSumSet(LAMBDA e : Value[e.coin], entries)

Debits(a) == Worth(Paying(a, UNION {Spends(b) : b \in CanonicalChain}))

Immature(entry) ==
    entry.kind \in {"coinbase", "output"} /\ entry.height > TipHeight - Maturity

\* The transactions of the chain, each with its height and its place in the block.
Places(h) == 0..Len(Body[index[h]].txs)

TxAt(h, n) == IF n = 0 THEN Body[index[h]].coinbase ELSE Body[index[h]].txs[n]

\* No transaction is there twice.  Only a coinbase made to repeat an older one can
\* break it, and then a coin that was spent comes back.
TxsOnce ==
    \A g, h \in {i \in Heights : OnChain(i)} : \A m \in Places(g), n \in Places(h) :
        TxAt(g, m) = TxAt(h, n) => g = h /\ m = n

\* The two sources agree, whatever blocks arrived and in which order, while no
\* transaction of the chain repeats another and the money of the address fits in a
\* word: the confirmed balance is every credit of the history less what the chain spent
\* of it, and all of it is spendable but the rewards of the newest blocks ("Coinbase
\* rewards need 100 blocks (~25 h) to mature", wallet_query.rs:123).
BalanceIsHistory ==
    stage = "idle" /\ tip # NoBlock /\ TxsOnce =>
        \A a \in Addresses :
            LET shown == History(a, NoLimit) IN
            Worth(Held(a)) < WordSize =>
                /\ Balance(a).confirmed = Credits(shown) - Debits(a)
                /\ Balance(a).spendable = Balance(a).confirmed
                                            - Credits({e \in shown : Immature(e)})
=============================================================================
