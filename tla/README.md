# Digital British Coin: TLA+ models, checks and proofs

These modules model the node of Digital British Coin (Rust, `src/src/`): how it decides
which block extends its chain, how it writes that decision to two databases, what its
mempool and orphan pool hold, what its coins are worth and what its wallet tells of them, how
the event loop relays, requests and mines blocks, and how the desktop launcher runs it.
Paths below are relative to the repository (`src/` is its root, `src/src/` its crate).

Contents: [parts](#the-system) · [modules](#modules) · [runs](#runs) ·
[assumptions](#faults-fairness-and-abstractions) · [proofs](#what-is-proved) ·
[what the code does differently from its documentation](#divergences) ·
[not modelled](#not-modelled) · [plan](#plan).

## The system

One process, `digitalbritishpound run`, is a node. A launcher (`bin/dbc-ui.rs`) starts and
kills it and calls the same binary for wallet operations.

| Part | Code | State it keeps | Operations | What makes it correct |
|---|---|---|---|---|
| Blocks and transactions | `types/dbc_types.rs` | none (data) | hashing, merkle root, targets | a hash names one content |
| UTXO database | `types/utxo.rs` | RocksDB: outpoint → entry | `apply_block`, `revert_block` | it is the replay of the chain; revert undoes apply; what is spent is gone |
| Validation | `node/validation.rs` | none | `validate_block`, `validate_transaction` | coins exist and are mature, amounts add up |
| Uncle rules | `node/uncles.rs` | none | `validate_uncles`, window tests | a header is rewarded once; offered uncles are valid |
| Chain database | `storage/chaindb.rs` | RocksDB: `b:`hash, `h:`height, `tip` | `put_block` (three puts), lookups | the height index is one linked chain up to the tip |
| Chain state machine | `node/chain.rs` | the two databases, mempool, orphan pool | `accept_block`, `try_orphan`, `process_orphans`, `add_mempool_tx`, `select_uncles` | the databases move together; stored means on the chain |
| Mempool | `node/mempool.rs` | map of transactions | `insert` with replace-by-fee, `remove_confirmed` | no two entries share a coin; fees only grow; entries stay includable |
| Network event loop | `network/p2p.rs`, `network/protocol.rs` | connections, timers, queue | one `select!` arm per event | nodes end on one chain; no message ends a node |
| Mining loop | `network/p2p.rs`, `node/miner.rs` | task handle, wake-up channel, `mine_ctl` file | template, grind, abort | no job that counts is below the tip; the miner wakes up; few grinders are left behind |
| Peer registry | `network/peer_registry.rs` | `peers.enc` | merge, record, dial order | merging converges; nothing reachable is lost |
| Difficulty, time, subsidy | `consensus.rs` | none | retarget, median time past, subsidy | target stays in range; time moves; supply is capped |
| Launcher | `bin/dbc-ui.rs` | child process, text box, files | start, stop, send, balance, history, wallet, repaint | its own node is never in the way; the node comes back after a send; the phrase is not kept |
| Command line, genesis | `main.rs`, `node/genesis.rs` | none | run, send, info, balance, history, import-genesis, serve | one process per data directory |
| Proof of work, wallet keys | `crypto/` | none | hash, sign | taken as ideal |
| Wallet queries, HTTP API | `node/wallet_query.rs`, `api/` | `status.json` | balance, history, status | balance and history tell one story |

How they interact: the event loop owns the `Chain` and calls it from one thread, so chain
calls never interleave with each other. Messages arrive from the gossip mesh in any order;
timers and the result of the mining task are other arms of the same `select!`. The grinder
runs on a blocking thread and shares nothing with the loop but its template and result. The
ticker task and the gossip arm share the wake-up channel. The launcher shares three files
(`mine_ctl.txt`, `status.json`, `wallet_address.txt`) and the data directory with the node; RocksDB
lets one process at a time open that directory, so the launcher stops its node for every
command that reads the chain, and starts it again.

What is hard here: the end of the process between any two of the four database writes of
`accept_block`; blocks of competing branches in any order; pools filled at one tip and used
at another; missed gossip; a block arriving while a grinder works on its sibling; errors
that leave the event loop; processes that end by themselves or outlive the launcher; files
that outlive both. `PROJECT.json` lists each hazard at its line with the
properties that would catch it.

## Modules

`DbcBlocks` ← `DbcSupply` ← `DbcUtxo`, `DbcUncles` ← `DbcChain` (a node) and `DbcLedger` (what it promises);
`DbcChain` ← `DbcWallet` (what its user is told); `DbcBlocks` ← `DbcNet` (several nodes); `DbcTarget` (time and
difficulty), `DbcPeers` (the peer pool) and `DbcLauncher` (the desktop application) stand alone. `MC…` modules
give TLC a universe; `…Proofs` hold theorems, over the sums of `DbcSums`.

* **DbcBlocks**: a block or transaction is its hash, and `Body`/`Tx` give the content: parent,
  height, the coinbase transaction, the list of the others, uncles; lists of inputs and outputs, RBF opt-in. Also
  the two tests of `accept_block`, `Connects` (go on to `apply_block`) and `Unlinked`
  (go to `try_orphan`). Its assumptions state what hashing gives: an outpoint belongs to one transaction. Nothing says that a
  block is one a miner would make: a transaction may name a coin twice, two transactions of a block may name the same one, a
  coinbase may have several outputs or repeat that of an older block.
* **DbcSupply**: amounts, as 64-bit words (`WordSize`). `Value` gives each outpoint its units; `Subsidy`, `UncleReward`, `Fee` and `BlockFees` are the
  terms of what `validate_block` lets a coinbase claim (`CoinbaseInBounds`). Inputs and fees are added up one place of the list at a time and
  saturate (`Saturated`); outputs wrap (`OutputSum`), as `total_output_value` is a plain sum.
* **DbcUtxo**: the coin set as a function from outpoints to entries; `CanApply`, `Apply`,
  `Undo`, `Revert` follow the read-only pass and the write batches, including the order of
  writes within a batch and the missing duplicate check on coinbase outputs. `ValidTransaction` is `validate_transaction`: what has the shape of a coinbase passes.
* **DbcUncles**: `validate_uncles` with the lookback window read through the height index.
* **DbcChain**: one node. `CommitUtxo`, `PutBlock`, `PutHeight`, `PutTip` are the four
  writes of one accepted block, `FinishAccept` the return; `AddOrphan` and `AddMempoolTx` the
  other operations. `stage` and `job` record how far a call has come. `Ready` holds the blocks
  `apply_block` may be called with: a received one, or an orphan in `process_orphans`. Refused blocks and
  transactions change nothing and are not steps. `WriteError`, `Kill`, `PowerLoss` and `WriteBack` are
  the faults; `synced` is the part of the chain database that a power loss keeps.
* **DbcLedger**: the abstract promise. One ledger that grows at its top, and coins that move
  with it in the same step. `DbcChain` maps to it with the block in hand counted as the top from the
  UTXO commit on, which is the abstract step; the three puts stutter.
* **DbcWallet**: `Balance` (both copies, `wallet_query.rs` and `http.rs`) reads the UTXO database, `History` scans the
  blocks from the tip down to a limit of entries; `Rows` are the entries of one transaction, with the three kinds the code gives them.
  They are functions of a node's state, so the module adds no variables to `DbcChain`.
* **DbcNet**: nodes on a gossip mesh, one action per arm of the `select!` and per kind of
  message (`AcceptFromNetwork`, `DropFromNetwork`, `EndOnReply`, `AnswerGetBlock`; `StatusTick`,
  `PeerSearch`, `Connect`; `MiningTick`, `StartMining`, `FindBlock`, `FailJob`, `GrinderEnds`, `Toggle`), with
  loss, disconnection, kill and restart. A node's two databases are four variables, since a kill in `accept_block` sets them apart: the blocks under "b:"
  (`stored`), those of the index up to the tip (`chain`, `tip`), one indexed above the tip (`served`: a `GetBlock` finds it), and the blocks that went
  into the coin set, in order (`coins`). `Applies` asks `validate_block` and the read-only pass of `apply_block` about the coins after these, so a block whose coins were
  taken by a write that a kill cut short is refused. `StopInAccept` and `StopInFind` are the kills between two of the four writes, or right after them. `Stop` falls anywhere else.
  The orphan pool is left out because it never feeds the chain under any fault (`OrphansStayOff`). Failed writes, power losses, uncles and the mempool stay in
  `DbcChain`; what a stale entry of the mempool or a late clock does to a job, its block being refused, is `FailJob`.
  Tokens of the wake-up channel and `searched` are kept for miners only, as nobody else reads them. `Leave` is the end of `run_p2p` by `?`: a refused `BlockReply`, an answer or a request published
  with no peer left, or an answer `TooLarge` for a gossip message (64 KiB, where a block may have 2 MB). The process then waits for its grinders, as dropping
  the runtime does, and the next one starts when they are done.
* **DbcTarget**: `stamps` is the chain reduced to its timestamps, `target` the tip's compact target.
  Powers of the base are the recursive function `Pow`, which the proofs can unfold.
  `AcceptBlock` takes any timestamp `validate_block` lets through, from an honest miner or not, and
  `NextTarget` is `next_difficulty_target` with the conversions of `consensus.rs`: targets have `2 * Half`
  digits in base `Base`, the word of the arithmetic `Half` (32 and 16 bytes in the code). `ahead` is a history variable:
  the heights stamped ahead of the clock.
* **DbcPeers**: a registry is a function from addresses to the time they were added, `Never` for unknown ones, so
  that merging is the earlier of two times. `StartSave` empties `peers.enc` and `FinishSave` fills it, since
  `std::fs::write` does one after the other; `todo` is what the handler does after that. `Established`,
  `Identify`, `UpnpAddr` record addresses, `HandleList` is the `PeerList` arm, `Search` and `PeerSearch` the two
  branches of the timer, `Start` everything `run_p2p` does before its loop.
* **DbcLauncher**: the launcher has one thread, so a button handler is a program, and `todo` holds the steps it
  has left: `StartSteps` is `start_online` with `spawn_node`, `StopSteps` is `stop_online` with `stop_node`, and `Around`
  puts them about a body that needs the databases. Each step (`Save`, `Genesis`, `Height`, `Spawn`, `Kill`, `Reap`, `Phrase`, `Send`,
  `Sent`, `Query`, `Wallet`) is an action that may fail where the code's step may (no `genesis.json`, a file that cannot be written), between which the processes act: the own node (`own`), a node that an earlier launcher left behind
  (`stray`), a `serve` that somebody runs. `holder` is the process that has the databases; `refused` is who kept the last command from them.
  `Frame` is the repaint between handlers; it reads the node's log and a `status.json` that may be half
  written. `SpawnFails` and `Crash` are the faults, `Close` the end of the window, which leaves the node running.

* **Proof modules.** `DbcSums` (induction over finite sets, and what a sum over one is), `DbcLedgerProofs`, `DbcChainProofs` (every fault
  included; the uncles are in it), `DbcReliableProofs` (no fault: the refinement and what follows from it, the mempool, the replay, the wallet),
  `DbcNetProofs`, `DbcTargetProofs`, `DbcPeersProofs`, `DbcLauncherProofs`.

Operators named *mutant* in a comment are deliberately wrong versions of the definition below
them. No specification uses them. They show that a property can fail: with the wrong version in place of the
right one, its run reports the property violated.

## Runs

`tlc -config <cfg> <module>`; sizes are distinct states.

| Run | Specification, instance | Properties | Shows |
|---|---|---|---|
| `chain` (`Chain.cfg`) | `ReliableSpec`; 19 blocks in six branches, 8 transactions offered to the mempool, heights 0–4, two addresses (80 000) | `TypeOK`, `ImplementsLedger`, `ChainNoDoubleSpend`, `ChainSupply`, `StoredIsCanonical`, `UtxoIsTipView`, `BalanceIsHistory`, `MempoolConflictFree`, `FeesOnlyGrow`, `StaleOnlyByConflict`, `SelectedUnclesValid` | without faults, the databases move together, a coin is spent again only after it was made again, ordinary blocks make no money beyond what is issued, the wallet's two sources agree and the pools stay usable, in every order of arrival |
| `faults` (`ChainFaults.cfg`) | `Spec`, two faults (447 000) | `ChainLinked`, `HistoryFixed`, `OrphansStayOff`, `UncleOnce` | what survives faults between any two writes |
| `killed` | `Spec`, one fault | `UtxoIsTipView` **violated** | the coin set and the tip can disagree after a kill |
| `counted_twice` (`ChainRespend.cfg`) | `ReliableSpec`; the three kinds of block that create value | `ValueKept` **violated** | a coin named twice counts twice, and output sums wrap |
| `net_pair` (`NetPair.cfg`) | `FairSpec`; nodes a (mines, starts empty, its second block is too large for gossip) and b; one fault (129 000) | `TypeOK`, `OneMinerNoFork`, `EndsOnlyAlone`, `SyncConverges` | one miner forks only after a kill left it a block it stored and does not have on its chain; nothing but such a kill, a block too large or a lost last peer ends a node; sync makes up for lost gossip up to the first block too large to publish, unless a node stays down or was killed inside `accept_block` |
| `net_race` (`NetRace.cfg`) | `Spec`; both nodes mine, b starts empty (621 000) | `MinesOnTip`, `LeftoversBounded`, `AbortWakes` | the abort-and-restart logic of the miner, and how many aborted grinders can run on |
| `net_late` | `FairSpec`, three nodes | `LateNodeSyncs` **violated** | a reply meant for another node ends a syncing node |
| `net_fork` | `FairSpec`, both nodes mine | `HeavierForkWins` **violated** | no reorganisation |
| `target` (`Target.cfg`) | `Spec`; 12 digits in base 4, retarget every 3 blocks over 2, 7 blocks, clock to 5 (300 000) | `TypeOK`, `StaysMinable`, `HonestStampAccepted`, `MedianNeverFalls` | two retargets under every allowed choice of timestamps |
| `target_slow` | same | `SlowBlocksEase` **violated** | the first retarget makes the target smaller after slow blocks |
| `peers` (`Peers.cfg`) | `FairSpec`; nodes a and b, the bootstrap names b; clock to 1, one fault (47 000) | `TypeOK`, `EntriesSaved`, `PoolsConverge` | nodes find each other and agree on the pool; what is learned is saved |
| `launcher` (`Launcher.cfg`) | `FairSpec`; two addresses, one height above genesis, one fault, deadlock checked (406 000) | `TypeOK`, `RefusedOnlyByOthers`, `OnlineMinesForWallet`, `PhraseNotKept`, `NodeComesBack`, `ShownCatchesUp` | the launcher's own node is never in its way, mines for the saved address, comes back after a send, and the window catches up |

**Bounds.** `MaxHeight` 4 with `Maturity` 1 and `Lookback` 2 gives, at a small size, coinbases that are
immature, mature and spent, uncles inside, at the edge of and below the window, and a branch that leaves
the window. (The code has maturity 100 and lookback 7; only the comparison with the height matters, and
the theorems hold for every value.) The plain universe of thirteen blocks contains four that the rules must refuse: a
repeated uncle, an uncle below the window, a coin spent twice, and a coinbase that claims the old subsidy at the halving (height 4 of the
instance). Some pay less than they may, with fees and an uncle bonus among them, and one coinbase has two outputs. The full universe adds six that the rules accept although
no honest miner makes them: a coin spent by two transactions of a block, a coin listed twice in one transaction, outputs whose sum wraps a word of `WordSize` 128, the coinbase of genesis again, and a
coinbase repeated after its coin was spent, which is then spent again: what `ChainNoDoubleSpend`, `ChainSupply` and `BalanceIsHistory` except is thus reached by their run. (`StaleOnlyByConflict` excepts a coin made young
again as well; with `Maturity` 1 a coin is mature in the next block whatever happens, so that case is the proof's alone.)
`Offered` bounds what peers send for the mempool, with two transactions of the shape of a coinbase and of a doubled input. Two faults let a
power loss follow a write error or a write-back. `net_pair` needs a false
genesis for a node that mines on nothing; its second block is the large one, and the first spends the
coin of genesis, so that it cannot be applied twice. (Every block of the miner may be given away and forgotten by a kill; a sibling that it then mines
is what `OneMinerNoFork` excepts.) `net_race` needs a fork (`B1` beside `A1`) and a block
on the other's block (`C2`). `WakeSlots` is 1 where the code has 4: a full channel is what
matters, and is reached at once. `Asks` is a bound too: a timer asks only when no peer still has the same
question waiting, so that `net` does not fill with copies of what is there already. `MaxFaults` counts
losses, disconnections, kills and mining switches together. `Target.cfg` gives the
genesis target the shape of `0x1f00ffff` (its upper half is neither zero nor full), a window of five for the median, and
room for two retargets: the second one starts from what the first one left. `Peers.cfg` has
the kinds of address that matter: the bootstrap, the bootstrap with a peer id (dropped at each start, learned again by
dialling), a community address and one that cannot be dialled. `Launcher.cfg` has two heights, so that what is
shown can be old, and two addresses, so that the box, the file and the node can differ. Deadlock is checked there; it is not in
the others, where the universe of blocks or the clock is finite and a node rightly stops when nothing can be added.

## Faults, fairness and abstractions

* *Writes.* The UTXO batch is written with `set_sync(true)` (`utxo.rs:482`), the three puts of `put_block`
  with default options. A kill keeps all of them; a loss of power takes back the puts
  since the last `WriteBack`, as RocksDB's write-ahead log loses a suffix.
* *Gossip.* A message reaches every node that is connected when it is published, in any order, or is
  lost by a counted fault. A disconnected node still reads what it has queued.
* *Fairness* (`FairSpec` only). Every queued message is handled, since the loop serves it; `status_tick`
  fires for ever (every 5 s); an offline node connects again (it dials every 30 s). The tick is strongly fair
  only because the bound `Asks` can disable it again and again; in the code nothing disables it.
  Mining, switches, restarts and faults get no fairness. `SyncConverges` therefore excuses the case in
  which a node is down for good.
* *Pools* (`FairSpec` of `DbcPeers`). A node that is down is started again, by its user or launcher; handlers go on; a node
  dials until it has a peer. A list reaches every connected node. A node whose file was torn never
  starts again and is not counted by `PoolsConverge`.
* *Launcher* (`FairSpec` of `DbcLauncher`). A handler goes on, since it is straight-line code (a send too: some nonce ends its grind);
  the window is repainted every 250 ms; a process that was started or killed gets somewhere; the status timer of a node ticks. Nothing is
  assumed of the user, of other processes or of new blocks.
* *Clock.* Nodes read one clock in `DbcTarget` and `DbcPeers`; a miner with a clock of its own is a
  block with any timestamp.
* *Cryptography is ideal.* Hashes do not collide; signatures, merkle roots, sizes, proof of
  work and timestamps of the blocks in a universe are valid. The merkle root does not tell a list of transactions from the same list with its last one repeated;
  a universe holds one of two such blocks.
* *Ordinary blocks.* `SupplyIsIssued` is about chains of blocks that name no coin twice and whose sums stay in the word (`Ordinary`), as those of a node's own miner do: it fills a
  block from a pool without conflicts. The rules accept other blocks, and run `counted_twice` shows what they do.

## What is proved

Every invariant and every action property that a passing run checks is also a theorem. They hold for every value of the constants
that satisfies the named assumptions:

* `BlockAssumption`, `OutpointAssumption` (an outpoint belongs to one output of one transaction), `FiniteAssumption` (hashes have 32 bytes, so what they name is finite), `SupplyAssumption` (values are words),
  `UtxoAssumption`, `UncleAssumption`, `OfferAssumption`, `FaultAssumption`, `WalletAssumption` (each output pays one address).
* `NetAssumption` and, of the network's universe, `GenesisAssumption`: the genesis block passes on an empty chain, as nodes start from it. `PeerAssumption`; `LauncherAssumption`.
* `TargetAssumption` and, of the difficulty's, `GenesisAssumption`: the genesis target is not zero.

Two theorems about the network have hypotheses of their own, the ones their run instantiates: `OneMiner`, and `TwoNodes` as well for the second.
Without them they are false (run `net_fork`: two miners fork; run `net_late`: three nodes end one another).

| Theorem | Module | Statement |
|---|---|---|
| `ChainTypes` | DbcChainProofs | `Spec => []TypeOK` |
| `ChainStaysLinked` | DbcChainProofs | the index is a linked chain, at every write and after every fault |
| `OrphansNeverConnect` | DbcChainProofs | `process_orphans` never finds anything |
| `ChainHistoryFixed` | DbcChainProofs | only a power loss changes the chain up to the tip |
| `MempoolStaysConflictFree` | DbcChainProofs | no two entries share a coin |
| `ReplacementRaisesFees` | DbcChainProofs | `FeesOnlyGrow`: a replacement leaves more fees, however many entries it drops |
| `UncleSelectionSound` | DbcChainProofs | every uncle on offer passes validation |
| `UncleRewardedOnce` | DbcChainProofs | a header is an uncle of at most one block of the chain |
| `LedgerNoDoubleSpend` | DbcLedgerProofs | of two blocks that consume one coin, the later comes after a coinbase that created it again |
| `LedgerSupply` | DbcLedgerProofs | while its blocks are ordinary, its coins are worth no more than they issued |
| `LedgerHistory` | DbcLedgerProofs | a coin is there, with the height and kind of the output that made it, until a later block consumes it, a reward no earlier than its maturity |
| `ChainImplementsLedger` | DbcReliableProofs | `ReliableSpec => ImplementsLedger` |
| `ChainNeverDoubleSpends`, `ChainNeverInflates` | DbcReliableProofs | the ledger's theorems, carried to the node (`ChainNoDoubleSpend`, `ChainSupply`) |
| `RevertInvertsFreshCoinbase` | DbcReliableProofs | `revert_block` undoes `apply_block` exactly when the coinbase creates nothing that is there already, but for what the block consumes |
| `StoredMeansCanonical` | DbcReliableProofs | without faults, the stored blocks are the blocks of the chain |
| `OnlyConflictsMakeStale` | DbcReliableProofs | without faults, an entry that no block can include has the shape of a coinbase, is in the chain, lost a coin to a block, or spends one that a repeated coinbase made young |
| `CoinsAreReplay` | DbcReliableProofs | `UtxoIsTipView`: without faults, the UTXO database is the replay of the height index |
| `BalanceAgreesWithHistory` | DbcReliableProofs | `BalanceIsHistory`: without faults, the balance from one database and the history from the other agree, mature or not, while no transaction of the chain repeats another and the money fits a word |
| `NetTypes` | DbcNetProofs | types of the network model |
| `MinersWorkOnTip` | DbcNetProofs | `MinesOnTip`: no task is below the tip of its node, through any message, loss or kill |
| `LeftoversAreBounded` | DbcNetProofs | aborted grinders that run on are at most the other nodes' blocks on the chain, and one more after an event loop ended |
| `MinerWakes` | DbcNetProofs | `AbortWakes`: an abort by a received block leaves a token for the ticker |
| `OneMinerNeverForks` | DbcNetProofs | with one miner and any number of nodes, of two chains one extends the other, through kills between two writes too, as long as the miner's index has all it stored |
| `PairEndsOnlyAlone` | DbcNetProofs | with one miner and one other node, neither is ended by a block of the other until one was killed between two writes |
| `TargetTypes` | DbcTargetProofs | a retarget gives a compact target again |
| `TargetStaysMinable` | DbcTargetProofs | no timestamps lead to a target that no hash is below |
| `MedianRises` | DbcTargetProofs | median time past never moves back |
| `HonestMinerAccepted` | DbcTargetProofs | a stamp of the right time is accepted while less than half of the window was ahead |
| `PeersTypes`, `EntriesAreSaved` | DbcPeersProofs | types of the peer pool; every known address is in the file between two handlers |
| `LauncherTypes` | DbcLauncherProofs | types, and one process at a time has the databases |
| `OwnNodeNeverInTheWay` | DbcLauncherProofs | the launcher's own node never keeps a command from the databases |
| `OnlineNodeMinesForWallet` | DbcLauncherProofs | a node that is on mines, for the address in `wallet_address.txt` |
| `PhraseGoesWithItsSend` | DbcLauncherProofs | without a fault the phrase is off the disk between two handlers |

*Induction and sums.* The library's induction theorems take a predicate, which the provers cannot fill in. `StrongInduction`, `FiniteInduction` and
`NaturalInduction` take a set instead, the members of which satisfy the hypothesis, and follow from the well-founded minimum (`WFMin`). With them
`DbcSums` proves of `MapThenSumSet` that any element may be taken out first (`SumRemove`), hence what the sum of a union, of a part and of a
difference is. An instance of `DbcSums` is one sum: values, fees, bonuses, issued units, credits.

*The argument for the chain.* `ChainInv` is inductive. `Linked` alone is not: a put of the height
index must land exactly one above the tip. So it adds `JobExtends` (the block in hand connects to the
tip until it becomes the tip, and is stored as far as the writes went), the same facts of the durable copy
`synced`, and `OrphansBehind`: an orphan's parent is stored, is not the tip and is not
the block in hand. A stored block is never taken up again, so this parent can never become the tip, and the
pool never connects.

*The argument for uncles.* The duplicate test looks back `Lookback` blocks only. `UncleInv` keeps that each uncle
lies below its nephew and at most `Lookback` below it; if a header were the uncle of two blocks, the
first nephew would lie above the header, hence inside the second one's window, and the test would have seen it.

*The argument for coins.* `LedgerInv` follows each coin. A coin that is there came from a block of the ledger, carries its height and kind, and has not been consumed since (`CoinsTellOrigin`); one that a block created is there or
was consumed by a later one (`CreatedOrSpent`); what was consumed had been created below, far enough below for a reward (`SpentMature`). A block may create an outpoint again only through its coinbase, as the
duplicate check covers the others, and that is the exception `NoDoubleSpend` makes. The refinement then maps `CommitUtxo` to the abstract step
and every other step to a stutter. With faults the refinement is false (run `killed`).

*The argument for the supply.* The fees of an ordinary block are at most what it spends less what it creates (`FeesWithin`: an induction over the places of its list, each of which takes its coins out of what the others leave;
`InputsAreWorth`: inputs that name no coin twice are worth the set of their coins). So what a block creates is worth at most what
it spends plus what it issues (`CreatesWithinIssue`), which `AppendKeepsSupply` carries to the coin set: a repeated coinbase only overwrites.

*The argument for the replay and the wallet.* `ReplayInv` says that the coins are the replay up to the tip, one block ahead of it between the UTXO commit and the
"tip" put; the "h:" put lies above the part that is replayed. For the wallet, `CoinHistory` is `LedgerInv` and `HistoryInv` seen through the
refinement. While no transaction of the chain repeats another, a coin of the chain was created by one block at one place (`CreatedOnce`), so no history shows it twice (`ShownOnce`), a history has no more entries than there are coins
(`ScansAll`), and its credits are the worth of the coins it shows (`CreditsAreWorth`). What is held is what was shown less what was spent (`HeldIsUnspent`),
and a reward the history shows as immature cannot have been spent yet (`ImmatureIsShown`).

*The argument for stored blocks and waiting transactions.* `StoredInv` says that the stored blocks are those of the index up to the tip, plus
the block in hand from its first put on. `PoolInv` says of each waiting transaction that is not of the shape of a coinbase that it is `Funded`: each of its coins was created by a block of the ledger, early enough to be
mature, and it creates no value. That can never be undone (`FundedStays`), whatever happens to the coins. Then a coin that is not there was consumed by a block of the chain (`CreatedOrSpent`), one that is there was created by that block alone unless
it was made twice (`FundsUsable`), and an output that is there already means the transaction is in the chain (`NewCoinsFree`).

*The argument for revert.* `RevertInvertsFreshCoinbase` is about any coin set and any block `apply_block` takes: the outputs of the others are free by the duplicate check, the undo record gives back what was consumed, and only an
output of the coinbase that was there before is lost.

*The argument for the network.* `NetInv`: every node holds one unbranched chain from genesis (`Chains`), part of what it stored, and each stored block was found by a miner that stored it (`Databases`, `MinersFound`); a task works on its node's tip (`MinesOnTip`); every block in
a message is stored by some node (`PacketsKnown`); and unless a kill tore them apart, the coins of a node went through its chain (`CoinsFollow`). With one miner whose index has all it stored, every chain is part of the miner's (`OneChainHoldsAll`), and of two parts of one chain the shorter is part of the longer
(`ShorterIsPart`). For `PairEndsOnlyAlone`, two chains of which one extends the other and that were applied in order give the same coins as far as the shorter goes, so the next block of the longer one applies to the shorter (`NextApplies`). `Asked` adds that, of two nodes, a request names at most the next height of the one that asks, and its chain only grows, so a reply is known or
the next block (`RepliesFit`).
With three nodes a reply to somebody else is further ahead, which is run `net_late`.

*The argument for time and difficulty.* `TargetInv` is `TypeOK`, a target that is not zero, and `NotAhead`: a block outside `ahead` is stamped no later than the
clock. `Adjust` clamps its word away from zero, `DigitsFound` and `CompactOfWord` bound what the two conversions make of a word, and the mantissa keeps a digit that is not zero.
The median is handled by counting: at most half of the window lies below it and more than half not above it (`MedianFound`); appending a stamp
shifts the window by at most one index (`ShiftCount`, `MedianStep`). If the clock is below the median, so are the blocks that were not ahead; they are at most half of the
window, so the others were at least half.

*The argument for the pool.* A handler that learns an address starts a save, and the node is not idle until the save ends with
the registry in the file. The one handler that changes the registry without a save is `HandleList` with no new
address, and merging then only lowers times (`MergeKnown`). `Parts` is `TypeOK` regrouped by variable.

*The argument for the launcher.* All four properties come from the shape of the handlers' programs (`Shape`): a kill comes first and its wait
second, a send stands between its phrase and its end, nothing follows a spawn, and (`SavesFirst`) whatever spawns a node saves the
address before. `TailFacts` shows that a step keeps that shape and `JoinedPrograms` that a stop, a body and a start in a row have it. It follows that outside kill and wait
a handler has no node of its own (`NodeInHandler`), which is why the node is never the one that holds the databases, and that the
box and the file agree when the node is spawned (`SavedBeforeSpawn`).

*Model-checked only.* Liveness (`SyncConverges`, `PoolsConverge`, `NodeComesBack`, `ShownCatchesUp`), which is outside TLAPS, and the five violations.

## Divergences

Where the code and what the repository says of it differ. The first five are each shown by a run.

1. `killed`: `apply_block` (`chain.rs:181`) commits the coins, then stores the block. After a kill in between, the coin
   set is a block ahead of the tip (`utxo.rs:7`: the canonical view of all spendable coins right now). If
   the block has transactions it can never be applied again, as its inputs are gone.
2. `net_late`: a refused `BlockReply` ends the process (`p2p.rs:669`), and replies go to everybody, so a
   node that is catching up can be ended by another node's sync (`README.md:81`: leave it running).
3. `net_fork`: there is no reorganisation (`chain.rs:144`), although `utxo.rs:500` speaks of switching to a heavier
   fork. The node on the shorter branch is ended by the first reply from the longer one.
4. `target_slow`: the retarget reads the upper 16 bytes of the target (`consensus.rs:178`) and writes its result as the lower 16
   (`consensus.rs:186`). The first retarget that changes the target, at height 1008, divides it by 2^128, however slow the blocks
   were (`consensus.rs:158`: higher actual time, easier target). `StaysMinable` holds only in the sense that
   the target is not zero. Later retargets read an upper half of zero and set the least word.
5. `counted_twice`: `validate_block` checks each transaction against the coins before the block (`validation.rs:257`), `validate_transaction` adds up a coin as often as it is listed
   (`validation.rs:154`), and `total_output_value` wraps (`dbc_types.rs:379`). Blocks of these three kinds create value, where `dbc_types.rs:320` says that outputs must not exceed inputs.

More that no run reports.

* `Mempool::insert` (`mempool.rs:37`) reads the opt-in of the new transaction, not of the replaced one (`dbc_types.rs:232`); `AddMempoolTx` does as the
  code does.
* `apply_block` overwrites the outputs of a repeated coinbase (`utxo.rs:441`) and records nothing of them, so `revert_block`, which has no caller yet, is not
  its inverse there (`utxo.rs:499`). `RevertInvertsFreshCoinbase` says exactly where it is.
* The uncle bonus is paid on top of the subsidy (`validation.rs:263`), so with enough uncles the coins pass the 42,000,000 of `dbc_types.rs:287` and
  `README.md:25`, which are the sum of all subsidies. `ChainSupply` counts the bonus as issued; it is not that cap.
* `dbc_types.rs:458` gives uncles a depth of 1 to 6, the code 1 to 7 (`UNCLE_LOOKBACK_BLOCKS`); `UncleOnce` is about the code's.
* Aborting the handle of a `spawn_blocking` task that has started leaves it running (`p2p.rs:586`); `LeftoversBounded` bounds how many do.
* A node that ended by itself is still shown as Online, since `node_running` asks for the handle (`dbc-ui.rs:738`).
* `send` selects every mature coin of the sender: `return Ok(())` ends the closure, not the scan (`main.rs:399`).

## Not modelled

Transaction gossip (no code publishes a transaction; the pool's rules are in `DbcChain`), Kademlia, mDNS and UPnP; scripts, signatures
and hashing (ideal); HTTP request parsing and formatting (no state). Of the command line, `init`, `mine`, `export-genesis` and `peer-id` (sequential
glue around what is modelled), and the coin selection and amounts of `send`: it appears in `DbcLauncher` as a command that adds a block or fails. The
single-entry `insert` and `remove` of the UTXO set are used by tests only. The extra peers file, the tool that
generates `peers.enc` and the registration of an explicit listen address (`ensure_self`; the launcher listens on 0.0.0.0)
are left out of `DbcPeers`; layout, status wording and the one-off copy of a legacy data directory out of `DbcLauncher`, which also does not restart
the machine under a running command (`Crash` excludes the moments a send runs, as that process would go on alone).

## Plan

Done: all modules above, and proofs of every invariant and action property the passing runs check. What is left:

1. The safety part of the liveness arguments: for `SyncConverges`, that a connected node below the other's tip has a request or a reply on its way or a timer
   enabled to send one; for `NodeComesBack`, that the handler's program still holds the spawn.
2. What the retarget does to the target within one window: how far `Adjust` can move a word, as a theorem about `DbcTarget`'s operators.
3. `Ordinary` for a node's own blocks: that a template taken from a pool without conflicts is ordinary, by a theorem about `node/miner.rs`'s choice from the pool.
