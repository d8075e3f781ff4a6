------------------------------ MODULE DbcChain -------------------------------
(***************************************************************************)
(* One node's chain: node/chain.rs over the chain database                 *)
(* (storage/chaindb.rs), the UTXO database (types/utxo.rs), the mempool    *)
(* (node/mempool.rs) and the in-memory orphan pool.                        *)
(*                                                                         *)
(* The node's event loop calls the chain from one thread, so calls do not  *)
(* interleave with each other.  What does interleave with a call is the    *)
(* end of the process: accept_block makes four separate writes to two      *)
(* databases, and only the first one is synced to disk.  Each write is a   *)
(* step here, and a write error, a kill or a loss of power can fall        *)
(* between any two.                                                        *)
(***************************************************************************)
EXTENDS DbcUtxo, DbcUncles

CONSTANTS
    Offered,       \* transactions peers send for the mempool (a bound of the model)
    MaxFaults      \* faults explored in one behaviour (a bound of the model)

ASSUME OfferAssumption == Offered \subseteq Txs
ASSUME FaultAssumption == MaxFaults \in Nat

VARIABLES
    \* Chain database: keys "b:" hash, "h:" height and "tip".
    blocks, index, tip,
    \* The part of it that a loss of power cannot take back.
    synced,
    \* UTXO database, written with set_sync(true).
    utxo,
    \* Memory of the process.
    mempool, orphans,
    \* Progress of accept_block: the last write made, and the block it is for.
    stage, job,
    \* Faults so far.
    faults

chainDb == <<blocks, index, tip>>
vars == <<blocks, index, tip, synced, utxo, mempool, orphans, stage, job, faults>>

\* "idle": outside accept_block.  "utxo", "block", "height": inside apply_block,
\* after the UTXO batch, the "b:" put and the "h:" put.  "tip": in process_orphans.
Stages == {"idle", "utxo", "block", "height", "tip"}

ChainDbType == [blocks : SUBSET Blocks,
                index  : [Heights -> Blocks \cup {NoBlock}],
                tip    : Blocks \cup {NoBlock}]

\* The type invariant.
TypeOK ==
    /\ blocks \in SUBSET Blocks
    /\ index \in [Heights -> Blocks \cup {NoBlock}]
    /\ tip \in Blocks \cup {NoBlock}
    /\ synced \in ChainDbType
    /\ utxo \in UtxoSet
    /\ mempool \subseteq Txs
    /\ orphans \subseteq Blocks
    /\ stage \in Stages
    /\ job \in Blocks \cup {NoBlock}
    /\ (stage = "idle") <=> (job = NoBlock)
    /\ faults \in 0..MaxFaults

\* Chain::open on an empty data directory.
Init ==
    /\ blocks = {}
    /\ index = [h \in Heights |-> NoBlock]
    /\ tip = NoBlock
    /\ synced = [blocks |-> blocks, index |-> index, tip |-> tip]
    /\ utxo = EmptyUtxo
    /\ mempool = {}
    /\ orphans = {}
    /\ stage = "idle"
    /\ job = NoBlock
    /\ faults = 0

-----------------------------------------------------------------------------
(* accept_block.                                                           *)

\* What process_orphans looks for under its lock.
Candidates == {b \in orphans : tip # NoBlock /\ Connects(tip, b)}

\* validate_block: the rules that read the chain and the UTXO set.
ValidBlock(b) ==
    /\ ValidUncles(blocks, index, b)
    /\ IsCoinbase(Body[b].coinbase)
    /\ \A t \in Regular(b) : ValidTransaction(utxo, t, Body[b].height)
    /\ CoinbaseInBounds(b)

\* A block apply_block may be called with: one received and unknown, or an orphan
\* that became connectable.
Ready ==
    CASE stage = "idle" -> {b \in Blocks \ blocks : Connects(tip, b)}
      [] stage = "tip"  -> Candidates
      [] OTHER          -> {}

\* apply_block up to the atomic, synced commit of the UTXO batch.
CommitUtxo(b) ==
    /\ b \in Ready
    /\ ValidBlock(b)
    /\ CanApply(utxo, b)
    /\ utxo' = Apply(utxo, b)
    /\ stage' = "utxo"
    /\ job' = b
    /\ UNCHANGED <<chainDb, synced, mempool, orphans, faults>>

\* put_block, first write: "b:" hash -> block.
PutBlock ==
    /\ stage = "utxo"
    /\ blocks' = blocks \cup {job}
    /\ stage' = "block"
    /\ UNCHANGED <<index, tip, synced, utxo, mempool, orphans, job, faults>>

\* put_block, second write: "h:" height -> hash.
PutHeight ==
    /\ stage = "block"
    /\ index' = [index EXCEPT ![Body[job].height] = job]
    /\ stage' = "height"
    /\ UNCHANGED <<blocks, tip, synced, utxo, mempool, orphans, job, faults>>

\* put_block, third write: "tip"; then the pools forget what was confirmed.
PutTip ==
    /\ stage = "height"
    /\ tip' = job
    /\ mempool' = mempool \ Regular(job)
    /\ orphans' = orphans \ {job}
    /\ stage' = "tip"
    /\ UNCHANGED <<blocks, index, synced, utxo, job, faults>>

\* Mutant: the block in hand is not forgotten when accept_block returns.
FinishKeepingJob ==
    /\ stage = "tip"
    /\ stage' = "idle"
    /\ UNCHANGED <<chainDb, synced, utxo, mempool, orphans, job, faults>>

\* process_orphans ends: no orphan connects to the tip, or the one found is
\* refused, and accept_block returns.
FinishAccept ==
    /\ stage = "tip"
    /\ (\A b \in Candidates : ValidBlock(b) /\ CanApply(utxo, b)) => Candidates = {}
    /\ stage' = "idle"
    /\ job' = NoBlock
    /\ UNCHANGED <<chainDb, synced, utxo, mempool, orphans, faults>>

\* Mutant: the orphan also goes to the chain database.
AddOrphanStored(b) ==
    /\ stage = "idle"
    /\ b \notin blocks
    /\ Unlinked(tip, b)
    /\ Body[b].prev \in blocks
    /\ orphans' = orphans \cup {b}
    /\ blocks' = blocks \cup {b}
    /\ UNCHANGED <<index, tip, synced, utxo, mempool, stage, job, faults>>

\* try_orphan: the parent is stored, so the block is kept in memory.
AddOrphan(b) ==
    /\ stage = "idle"
    /\ b \notin blocks
    /\ Unlinked(tip, b)
    /\ Body[b].prev \in blocks
    /\ orphans' = orphans \cup {b}
    /\ UNCHANGED <<chainDb, synced, utxo, mempool, stage, job, faults>>

-----------------------------------------------------------------------------
(* add_mempool_tx.                                                         *)

TipHeight == IF tip = NoBlock THEN 0 ELSE Body[tip].height

\* Mutant: only an entry that spends exactly the same coins is a conflict.
ConflictsAllInputs(t) == {o \in mempool : Inputs(o) = Inputs(t)}

\* Mempool::find_conflicts.
Conflicts(t) == {o \in mempool : Inputs(o) \cap Inputs(t) # {}}

Fees(S) == MapThenSumSet(Fee, S)

\* Mutant: the fee is compared with each replaced entry, not with their sum.
OutbidsEach(t) ==
    Conflicts(t) # {} => Tx[t].optsIn /\ \A o \in Conflicts(t) : Fee(t) > Fee(o)

\* The replacement test of Mempool::insert.  It reads the sequence numbers of the
\* NEW transaction, and adds the replaced fees in a word that wraps.
Replaces(t) ==
    Conflicts(t) # {} => Tx[t].optsIn /\ Fee(t) > Fees(Conflicts(t)) % WordSize

\* Mutant: the transaction is not validated.
AddMempoolTxUnchecked(t) ==
    /\ stage = "idle"
    /\ Replaces(t)
    /\ mempool' = (mempool \ Conflicts(t)) \cup {t}
    /\ UNCHANGED <<chainDb, synced, utxo, orphans, stage, job, faults>>

\* add_mempool_tx with Mempool::insert.
AddMempoolTx(t) ==
    /\ stage = "idle"
    /\ ValidTransaction(utxo, t, TipHeight)
    /\ Replaces(t)
    /\ mempool' = (mempool \ Conflicts(t)) \cup {t}
    /\ UNCHANGED <<chainDb, synced, utxo, orphans, stage, job, faults>>

-----------------------------------------------------------------------------
(* Faults.                                                                 *)

\* The next put of put_block fails: apply_block returns the error through `?`, the
\* writes made before it stay, and the process goes on.
WriteError ==
    /\ stage \in {"utxo", "block", "height"}
    /\ faults < MaxFaults
    /\ faults' = faults + 1
    /\ stage' = "idle"
    /\ job' = NoBlock
    /\ UNCHANGED <<chainDb, synced, utxo, mempool, orphans>>

\* Everything the process held in memory is gone, and Chain::open starts it again.
ForgetMemory ==
    /\ mempool' = {}
    /\ orphans' = {}
    /\ stage' = "idle"
    /\ job' = NoBlock
    /\ faults' = faults + 1

\* The process is killed (dbc-ui stops the node with child.kill()): both
\* databases keep every write made.
Kill ==
    /\ faults < MaxFaults
    /\ ForgetMemory
    /\ UNCHANGED <<chainDb, synced, utxo>>

\* The machine stops: puts of the chain database made since the last write-back
\* are lost, the synced UTXO batch is not.
PowerLoss ==
    /\ faults < MaxFaults
    /\ ForgetMemory
    /\ blocks' = synced.blocks
    /\ index' = synced.index
    /\ tip' = synced.tip
    /\ UNCHANGED <<synced, utxo>>

\* The operating system writes the pending puts back, at any moment.
WriteBack ==
    /\ faults < MaxFaults
    /\ synced' = [blocks |-> blocks, index |-> index, tip |-> tip]
    /\ UNCHANGED <<chainDb, utxo, mempool, orphans, stage, job, faults>>

-----------------------------------------------------------------------------

Operation ==
    \/ \E b \in Blocks : CommitUtxo(b)
    \/ PutBlock
    \/ PutHeight
    \/ PutTip
    \/ FinishAccept
    \/ \E b \in Blocks : AddOrphan(b)
    \/ \E t \in Offered : AddMempoolTx(t)

Fault == WriteError \/ Kill \/ PowerLoss \/ WriteBack

Next == Operation \/ Fault

\* The node as it runs.
Spec == Init /\ [][Next]_vars

\* The node while nothing fails.
ReliableSpec == Init /\ [][Operation]_vars

-----------------------------------------------------------------------------
(* What other parts read.                                                  *)

OnChain(h) == tip # NoBlock /\ h <= Body[tip].height

\* The blocks get_block_at_height returns up to the tip.
CanonicalChain == {index[h] : h \in {i \in Heights : OnChain(i)}}

\* Mutant: the miner forgets the uncles already included by recent blocks.
EligibleByHeight ==
    {o \in orphans : /\ Body[o].height >= TipHeight + 1 - Lookback
                     /\ Body[o].height < TipHeight + 1}

\* select_uncles: any MaxUncles of these (the pool is a HashMap: no order).
EligibleUncles ==
    {o \in orphans : /\ Body[o].height >= TipHeight + 1 - Lookback
                     /\ Body[o].height < TipHeight + 1
                     /\ ~InRecentWindow(index, TipHeight + 1, o)}

-----------------------------------------------------------------------------
(* Properties that survive every fault.                                    *)

\* The height index is one linked chain from genesis to the tip.
Linked(db) ==
    db.tip # NoBlock =>
        LET top == Body[db.tip].height IN
        /\ db.index[top] = db.tip
        /\ \A h \in 0..top :
              /\ db.index[h] \in db.blocks
              /\ Body[db.index[h]].height = h
              /\ Body[db.index[h]].prev = IF h = 0 THEN NoBlock ELSE db.index[h - 1]

\* At every moment, also between the three puts of put_block and after any fault,
\* what get_block_at_height serves up to the tip is a linked chain.
ChainLinked == Linked([blocks |-> blocks, index |-> index, tip |-> tip])

\* What a step may do to the chain up to the tip.
HistoryStep ==
    PowerLoss \/ \A h \in Heights : OnChain(h) => OnChain(h)' /\ index'[h] = index[h]

\* There is no reorganisation: a height at or below the tip keeps its block and
\* stays below the tip, whatever blocks arrive (accept_block connects to the tip
\* only; revert_block has no caller).  Only a loss of power shortens the chain.
HistoryFixed == [][HistoryStep]_vars

\* The orphan pool never holds a block of the chain nor a child of the tip, so
\* the loop of process_orphans never finds anything to connect.
OrphansStayOff ==
    \A o \in orphans : o \notin blocks /\ Body[o].prev # tip

\* No two mempool entries spend the same coin.  validate_block tests each
\* transaction against the coins before the block, so this alone keeps a block the
\* node mines from spending a coin twice; it says nothing of a peer's block.
MempoolConflictFree ==
    \A s, t \in mempool : s # t => Inputs(s) \cap Inputs(t) = {}

\* A header is an uncle of at most one block of the chain, hence rewarded once:
\* the seven-block duplicate window and the seven-block depth limit are enough.
UncleOnce ==
    \A g, h \in Heights :
        g < h /\ OnChain(h) => Uncles(index[g]) \cap Uncles(index[h]) = {}

\* Whatever uncles select_uncles picks from the orphan pool, validate_uncles
\* accepts them in the next block.
SelectedUnclesValid ==
    stage = "idle" /\ tip # NoBlock =>
        \A o \in EligibleUncles : ValidUncle(blocks, index, TipHeight + 1, o)

\* A step that drops a mempool entry without confirming a block or ending the
\* process leaves strictly more fees, as long as all fees of the pool fit in a word:
\* replacement never pays the miner less.
FeesOnlyGrow ==
    [][(mempool \ mempool' # {} /\ stage' = stage /\ faults' = faults /\ Fees(mempool) < WordSize)
         => Fees(mempool') > Fees(mempool)]_vars

-----------------------------------------------------------------------------
(* Properties of a node that suffers no fault (ReliableSpec).               *)

Ledger == INSTANCE DbcLedger WITH
    ledger <- CanonicalChain \cup ({job} \ {NoBlock}),
    top    <- IF job = NoBlock THEN tip ELSE job,
    coins  <- utxo

\* The two databases together behave as the abstract ledger: the step from one
\* block to the next is the UTXO commit.
ImplementsLedger == Ledger!LedgerSpec

\* Between two blocks of the chain that consume the same coin, the one being stored
\* included, a coinbase created it anew.
ChainNoDoubleSpend == Ledger!NoDoubleSpend

\* While every block is ordinary, the coins of the UTXO database are worth no more
\* than the subsidies and uncle bonuses of the chain's blocks, the one being stored
\* included.
ChainSupply == Ledger!SupplyIsIssued

\* "Already known" means "on the chain": get_block succeeds in accept_block only
\* for blocks that need no further work.
StoredIsCanonical ==
    stage \in {"idle", "tip"} => blocks = CanonicalChain

\* The coin set after the first n + 1 blocks of a height index.
CoinsAfter(idx, n) ==
    LET after[h \in -1..n] == IF h = -1 THEN EmptyUtxo ELSE Apply(after[h - 1], idx[h])
    IN  after[n]

\* The UTXO database is what replaying the chain up to the tip gives: "all
\* spendable coins right now" (types/utxo.rs:7).
UtxoIsTipView ==
    stage \in {"idle", "tip"} =>
        utxo = CoinsAfter(index, IF tip = NoBlock THEN -1 ELSE Body[tip].height)

\* The next block may hold the transaction.
Includable(t) ==
    /\ ValidTransaction(utxo, t, TipHeight + 1)
    /\ \A c \in Inputs(t) : utxo[c] # Missing
    /\ \A c \in Makes(t) : utxo[c] = Missing

\* Two blocks of the chain create one of these coins.
MadeTwice(S) ==
    \E a, b \in CanonicalChain : a # b /\ S \cap Creates(a) \cap Creates(b) # {}

\* A mempool entry that no block can include any more has the shape of a coinbase, or
\* is already in the chain, or lost a coin to a block of the chain, or spends one that a
\* repeated coinbase made young again: nothing else (maturity, a replaced parent,
\* another entry) makes a waiting transaction unspendable.
StaleOnlyByConflict ==
    stage = "idle" =>
        \A t \in mempool :
            \/ Includable(t)
            \/ IsCoinbase(t)
            \/ \E b \in CanonicalChain : t \in Regular(b) \/ Inputs(t) \cap Spends(b) # {}
            \/ MadeTwice(Inputs(t))

-----------------------------------------------------------------------------
(* What the repository says and the code does not keep: a run finds it     *)
(* violated.                                                               *)

\* The transactions of a block create no value out of the coins they consume: "The sum
\* of output values must not exceed the sum of input values" (types/dbc_types.rs:320).
ValueKept == \A b \in CanonicalChain : Worth(Outputs(b)) <= Worth(Spends(b))
=============================================================================
