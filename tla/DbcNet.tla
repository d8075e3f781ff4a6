-------------------------------- MODULE DbcNet --------------------------------
(***************************************************************************)
(* Nodes on one gossip network: the event loop of network/p2p.rs with its  *)
(* block, sync and mining arms, one action per arm of the select! and per  *)
(* kind of message.                                                        *)
(*                                                                         *)
(* A node's databases are reduced to what accept_block and GetBlock read:  *)
(* the blocks under "b:" keys (stored), those the index leads to up to the *)
(* tip (chain, tip), one it leads to above the tip (served), and the       *)
(* blocks that went into the UTXO set (coins).  The four differ once the   *)
(* process is killed between two of the writes of one accept_block.  The   *)
(* orphan pool is left out: it never feeds the chain (OrphansStayOff of    *)
(* DbcChain, under every fault).  So are failed writes and power losses,   *)
(* which DbcChain covers, the mempool, and uncles.                         *)
(*                                                                         *)
(* The gossip mesh hands a message to every node connected at that moment, *)
(* in any order.  Two copies of one message in flight count as one; a copy *)
(* is sent again once it was read, since status_tick asks again and again. *)
(***************************************************************************)
EXTENDS DbcUtxo

CONSTANTS
    Nodes,
    Fresh,         \* nodes that start on a new data directory
    Payout,        \* nodes started with a payout address
    TooLarge,      \* blocks above the 64 KiB a gossip message may have
    Finder,        \* block other than genesis -> the node whose grinding finds it
    NoTask,        \* mining_task = None
    WakeSlots,     \* capacity of the mine_rx channel
    MaxFaults      \* losses, disconnections, stops, switches explored (a bound)

ASSUME NetAssumption ==
    /\ Fresh \subseteq Nodes
    /\ Payout \subseteq Nodes
    /\ TooLarge \subseteq Blocks \ {Genesis}
    /\ Finder \in [Blocks \ {Genesis} -> Nodes]
    /\ NoTask \notin Blocks \cup {NoBlock}
    /\ \A b \in Blocks : Body[b].uncles = <<>>
    /\ WakeSlots \in Nat \ {0}
    /\ MaxFaults \in Nat

-----------------------------------------------------------------------------
(* What a block needs besides its place.                                   *)

\* The UTXO set after the blocks of a sequence, the first one first.
UtxoAfter(s) ==
    LET utxo[i \in 0..Len(s)] == IF i = 0 THEN EmptyUtxo ELSE Apply(utxo[i - 1], s[i])
    IN  utxo[Len(s)]

\* validate_block and the read-only pass of apply_block.
Applies(utxo, b) ==
    /\ IsCoinbase(Body[b].coinbase)
    /\ \A t \in Regular(b) : ValidTransaction(utxo, t, Body[b].height)
    /\ CoinbaseInBounds(b)
    /\ CanApply(utxo, b)

\* The genesis block was imported into an empty chain (Init).
ASSUME GenesisAssumption == Connects(NoBlock, Genesis) /\ Applies(UtxoAfter(<<>>), Genesis)

-----------------------------------------------------------------------------

VARIABLES
    stored,        \* per node: the blocks get_block finds
    chain, tip,    \* per node: the blocks of the chain, the last one
    served,        \* per node: a block the index has above the tip, or NoBlock
    coins,         \* per node: the blocks its UTXO set went through, in order
    alive,         \* nodes whose run_p2p has not returned
    online,        \* nodes connected to the mesh
    net,           \* messages on their way
    enabled,       \* nodes whose mine_ctl file holds "1"
    searched,      \* miners with initial_peer_search_done (nobody else reads it)
    wake,          \* per miner: tokens in mine_rx (nobody else takes them)
    task,          \* per node: parent of the block being mined, or NoTask
    grinding,      \* per node: grinders whose handle is gone
    found,         \* blocks some grinder has found
    faults

chainVars == <<stored, chain, tip, served, coins>>
linkVars == <<alive, online>>
minerVars == <<wake, task, grinding, found>>
switchVars == <<enabled, searched>>
vars == <<stored, chain, tip, served, coins, alive, online, net, enabled, searched,
          wake, task, grinding, found, faults>>

\* network/protocol.rs NetworkMessage, the kinds that touch the chain.
Message == [kind : {"Block", "BlockReply"}, block : Blocks]
           \cup [kind : {"GetBlock"}, height : 0..MaxHeight + 1]

Packet == [to : Nodes, msg : Message]

\* The type invariant.
TypeOK ==
    /\ stored \in [Nodes -> SUBSET Blocks]
    /\ chain \in [Nodes -> SUBSET Blocks]
    /\ served \in [Nodes -> Blocks \cup {NoBlock}]
    /\ coins \in [Nodes -> Seq(Blocks)]
    /\ tip \in [Nodes -> Blocks \cup {NoBlock}]
    /\ alive \subseteq Nodes
    /\ online \subseteq alive
    /\ net \subseteq Packet
    /\ enabled \subseteq Nodes
    /\ searched \subseteq Nodes
    /\ wake \in [Nodes -> 0..WakeSlots]
    /\ task \in [Nodes -> Blocks \cup {NoBlock, NoTask}]
    /\ grinding \in [Nodes -> Nat]
    /\ found \subseteq Blocks
    /\ faults \in 0..MaxFaults

\* Nodes start with genesis imported (the launcher, main.rs ImportGenesis) or with
\* an empty chain (`run` on a new data directory), connected to nobody.
Init ==
    /\ stored = [n \in Nodes |-> IF n \in Fresh THEN {} ELSE {Genesis}]
    /\ chain = stored
    /\ served = [n \in Nodes |-> NoBlock]
    /\ coins = [n \in Nodes |-> IF n \in Fresh THEN <<>> ELSE <<Genesis>>]
    /\ tip = [n \in Nodes |-> IF n \in Fresh THEN NoBlock ELSE Genesis]
    /\ alive = Nodes
    /\ online = {}
    /\ net = {}
    /\ enabled = Payout
    /\ searched = {}
    /\ wake = [n \in Nodes |-> 0]
    /\ task = [n \in Nodes |-> NoTask]
    /\ grinding = [n \in Nodes |-> 0]
    /\ found = {}
    /\ faults = 0

-----------------------------------------------------------------------------
(* Sending.                                                                *)

Peers(n) == IF n \in online THEN online \ {n} ELSE {}

\* What publish hands to the mesh; with no peer it returns an error.
Publish(n, m) == {[to |-> p, msg |-> m] : p \in Peers(n)}

NextHeight(t) == IF t = NoBlock THEN 0 ELSE Body[t].height + 1

\* Mutant: the tip's own height is asked for.
RequestTipHeight(n, t) ==
    Publish(n, [kind |-> "GetBlock", height |-> IF t = NoBlock THEN 0 ELSE Body[t].height])

\* request_next_block of node n when its tip is t.
Request(n, t) == Publish(n, [kind |-> "GetBlock", height |-> NextHeight(t)])

\* A bound: a timer of n asks again once no peer has the same question waiting.
Asks(n) == Request(n, tip[n]) \cap net = {}

-----------------------------------------------------------------------------
(* accept_block, as the event loop sees its result.                        *)

\* Ok(Some(hash)).
Accepts(n, b) ==
    /\ b \notin stored[n]
    /\ Connects(tip[n], b)
    /\ Applies(UtxoAfter(coins[n]), b)

\* Mutant: a block that is known already is an error too.
RefusesKnown(n, b) ==
    /\ Connects(tip[n], b) => ~Applies(UtxoAfter(coins[n]), b)
    /\ Unlinked(tip[n], b) => Body[b].prev \notin stored[n]

\* Err(_): a rule is broken, or the parent is unknown.  What is neither accepted nor
\* refused is Ok(None): known, or pooled.
Refuses(n, b) ==
    /\ b \notin stored[n]
    /\ Connects(tip[n], b) => ~Applies(UtxoAfter(coins[n]), b)
    /\ Unlinked(tip[n], b) => Body[b].prev \notin stored[n]

\* The four writes of an accepted block: the UTXO batch, "b:", "h:" and the tip.
Extend(n, b) ==
    /\ coins' = [coins EXCEPT ![n] = Append(@, b)]
    /\ stored' = [stored EXCEPT ![n] = @ \cup {b}]
    /\ served' = [served EXCEPT ![n] = NoBlock]
    /\ chain' = [chain EXCEPT ![n] = @ \cup {b}]
    /\ tip' = [tip EXCEPT ![n] = b]

\* The first one, two or three of them.
ExtendPartly(n, b) ==
    /\ coins' = [coins EXCEPT ![n] = Append(@, b)]
    /\ \/ UNCHANGED <<stored, served>>
       \/ /\ stored' = [stored EXCEPT ![n] = @ \cup {b}]
          /\ \/ UNCHANGED served
             \/ served' = [served EXCEPT ![n] = b]
    /\ UNCHANGED <<chain, tip>>

\* The event loop of n is over: the data directory stays.
Ends(n) ==
    /\ alive' = alive \ {n}
    /\ online' = online \ {n}
    /\ net' = {p \in net : p.to # n}
    /\ searched' = searched \ {n}
    /\ wake' = [wake EXCEPT ![n] = 0]
    /\ task' = [task EXCEPT ![n] = NoTask]
    /\ UNCHANGED enabled

\* run_p2p returns an error.  The process stays until the runtime is dropped, which
\* waits for every spawn_blocking closure that runs.
Leave(n) ==
    /\ Ends(n)
    /\ grinding' = IF task[n] = NoTask THEN grinding
                                       ELSE [grinding EXCEPT ![n] = @ + 1]
    /\ UNCHANGED found

\* child.kill(): the grinders go as well.
Kill(n) ==
    /\ faults < MaxFaults
    /\ faults' = faults + 1
    /\ Ends(n)
    /\ grinding' = [grinding EXCEPT ![n] = 0]

\* abort_mining_task drops the handle; a spawn_blocking closure that runs already
\* goes on running, and its result is lost.
AbortTask(n) ==
    /\ task' = [task EXCEPT ![n] = NoTask]
    /\ grinding' = IF task[n] = NoTask THEN grinding
                                       ELSE [grinding EXCEPT ![n] = @ + 1]

\* Mutant: the channel has no capacity.
WakeUnbounded(n) == wake' = [wake EXCEPT ![n] = @ + 1]

\* mine_tx_wakeup.try_send: nothing happens when the channel is full.
TryWake(n) ==
    wake' = [wake EXCEPT ![n] = IF n \in Payout /\ @ < WakeSlots THEN @ + 1 ELSE @]

-----------------------------------------------------------------------------
(* The gossip arm: handle_network_message.                                 *)

\* Mutant: an accepted sync reply does not abort the task.
AcceptWithoutAbort(n, p) ==
    /\ p.msg.kind \in {"Block", "BlockReply"}
    /\ Accepts(n, p.msg.block)
    /\ Extend(n, p.msg.block)
    /\ IF Peers(n) = {} THEN Leave(n)
       ELSE /\ net' = (net \ {p}) \cup Request(n, p.msg.block)
            /\ IF p.msg.kind = "Block" THEN AbortTask(n) ELSE UNCHANGED <<task, grinding>>
            /\ TryWake(n)
            /\ UNCHANGED <<linkVars, switchVars, found>>
    /\ UNCHANGED faults

\* Mutant: the mining loop is not woken after the abort.
AcceptWithoutWake(n, p) ==
    /\ p.msg.kind \in {"Block", "BlockReply"}
    /\ Accepts(n, p.msg.block)
    /\ Extend(n, p.msg.block)
    /\ IF Peers(n) = {} THEN Leave(n)
       ELSE /\ net' = (net \ {p}) \cup Request(n, p.msg.block)
            /\ AbortTask(n)
            /\ UNCHANGED <<linkVars, switchVars, found, wake>>
    /\ UNCHANGED faults

\* Block or BlockReply, accepted: ask for the next block, abort the task and wake
\* the mining loop.  The request is sent with `?`: without a peer the node ends.
AcceptFromNetwork(n, p) ==
    /\ p.msg.kind \in {"Block", "BlockReply"}
    /\ Accepts(n, p.msg.block)
    /\ Extend(n, p.msg.block)
    /\ IF Peers(n) = {} THEN Leave(n)
       ELSE /\ net' = (net \ {p}) \cup Request(n, p.msg.block)
            /\ AbortTask(n)
            /\ TryWake(n)
            /\ UNCHANGED <<linkVars, switchVars, found>>
    /\ UNCHANGED faults

\* Block or BlockReply, known or pooled, and a refused Block, which is only logged.
DropFromNetwork(n, p) ==
    /\ p.msg.kind \in {"Block", "BlockReply"}
    /\ ~Accepts(n, p.msg.block)
    /\ Refuses(n, p.msg.block) => p.msg.kind = "Block"
    /\ net' = net \ {p}
    /\ UNCHANGED <<chainVars, linkVars, switchVars, minerVars, faults>>

\* BlockReply, refused: accept_block(..)? ends the event loop.
EndOnReply(n, p) ==
    /\ p.msg.kind = "BlockReply"
    /\ Refuses(n, p.msg.block)
    /\ Leave(n)
    /\ UNCHANGED <<chainVars, faults>>

\* What get_block_at_height can find.
Indexed(n) == chain[n] \cup ({served[n]} \ {NoBlock})

\* GetBlock: the block at that height, if there is one, goes to the whole topic.
\* publish(..)? ends the event loop when nobody is there or the reply is too large.
AnswerGetBlock(n, p) ==
    /\ p.msg.kind = "GetBlock"
    /\ LET answers == {b \in Indexed(n) : Body[b].height = p.msg.height} IN
       IF answers # {} /\ (Peers(n) = {} \/ answers \cap TooLarge # {}) THEN Leave(n)
       ELSE /\ net' = (net \ {p}) \cup
                 UNION {Publish(n, [kind |-> "BlockReply", block |-> b]) : b \in answers}
            /\ UNCHANGED <<linkVars, switchVars, minerVars>>
    /\ UNCHANGED <<chainVars, faults>>

Handle(n, p) ==
    /\ n \in alive
    /\ p \in net
    /\ p.to = n
    /\ \/ AcceptFromNetwork(n, p)
       \/ DropFromNetwork(n, p)
       \/ EndOnReply(n, p)
       \/ AnswerGetBlock(n, p)

-----------------------------------------------------------------------------
(* The timer arms and the connection events.                               *)

\* status_tick: while peers are connected, ask for the next block again.
StatusTick(n) ==
    /\ n \in alive
    /\ Peers(n) # {}
    /\ Asks(n)
    /\ net' = net \cup Request(n, tip[n])
    /\ UNCHANGED <<chainVars, linkVars, switchVars, minerVars, faults>>

\* peer_search: asks as well, or dials (Connect is the dial that succeeds).
PeerSearch(n) ==
    /\ n \in alive
    /\ Asks(n)
    /\ searched' = searched \cup ({n} \cap Payout)
    /\ net' = net \cup Request(n, tip[n])
    /\ UNCHANGED <<chainVars, linkVars, enabled, minerVars, faults>>

\* ConnectionEstablished on both sides.  Each asks for its next block, ignoring the
\* error it gets while the subscriptions of the other side are not known yet.
Connect(n) ==
    /\ n \in alive \ online
    /\ online' = online \cup {n}
    /\ \/ UNCHANGED net
       \/ net' = net
            \cup {[to |-> p, msg |-> [kind |-> "GetBlock", height |-> NextHeight(tip[n])]]
                    : p \in online}
            \cup {[to |-> n, msg |-> [kind |-> "GetBlock", height |-> NextHeight(tip[p])]]
                    : p \in online}
    /\ UNCHANGED <<chainVars, alive, switchVars, minerVars, faults>>

-----------------------------------------------------------------------------
(* The mining arms.                                                        *)

\* The ticker task: `send().await` waits while the channel is full.
MiningTick(n) ==
    /\ n \in alive \cap enabled
    /\ wake[n] < WakeSlots
    /\ wake' = [wake EXCEPT ![n] = @ + 1]
    /\ UNCHANGED <<chainVars, linkVars, net, switchVars, task, grinding, found, faults>>

\* Mutant: the arm runs while a task is there and overwrites its handle.
StartMiningTwice(n) ==
    /\ n \in alive \cap Payout
    /\ wake[n] > 0
    /\ wake' = [wake EXCEPT ![n] = @ - 1]
    /\ IF n \in enabled \cap searched
         THEN /\ task' = [task EXCEPT ![n] = tip[n]]
              /\ net' = net \cup Request(n, tip[n])
              /\ grinding' = IF task[n] = NoTask THEN grinding
                                                 ELSE [grinding EXCEPT ![n] = @ + 1]
         ELSE UNCHANGED <<task, net, grinding>>
    /\ UNCHANGED <<chainVars, linkVars, switchVars, found, faults>>

\* mine_rx: a token is taken; if mining is still on, ask for the next block once
\* more, take a template on the tip and start a grinder.
StartMining(n) ==
    /\ n \in alive \cap Payout
    /\ wake[n] > 0
    /\ task[n] = NoTask
    /\ wake' = [wake EXCEPT ![n] = @ - 1]
    /\ IF n \in enabled \cap searched
         THEN /\ task' = [task EXCEPT ![n] = tip[n]]
              /\ net' = net \cup Request(n, tip[n])
         ELSE UNCHANGED <<task, net>>
    /\ UNCHANGED <<chainVars, linkVars, switchVars, grinding, found, faults>>

\* The grinder of n reaches the nonce of block b.
Solves(n, b) ==
    /\ n \in alive
    /\ task[n] # NoTask
    /\ b \notin found
    /\ Finder[b] = n
    /\ Body[b].prev = task[n]
    /\ Body[b].height = NextHeight(task[n])
    /\ found' = found \cup {b}

\* mine_result with finish_mined_block: an accepted block is published and the
\* next one asked for; when publish fails (no peer, a block too large) neither is
\* sent and the error is only logged, as is the one of a block refused.
FindBlock(n, b) ==
    /\ Solves(n, b)
    /\ task' = [task EXCEPT ![n] = NoTask]
    /\ IF Accepts(n, b)
         THEN /\ Extend(n, b)
              /\ net' = IF b \in TooLarge THEN net
                        ELSE net \cup Publish(n, [kind |-> "Block", block |-> b])
                                 \cup Request(n, b)
         ELSE UNCHANGED <<chainVars, net>>
    /\ UNCHANGED <<linkVars, switchVars, wake, grinding, faults>>

\* The job fails, or the block found is refused for what this model leaves out: a
\* mempool entry that went stale, a clock behind the median of the last blocks.
FailJob(n) ==
    /\ n \in alive
    /\ task[n] # NoTask
    /\ task' = [task EXCEPT ![n] = NoTask]
    /\ UNCHANGED <<chainVars, linkVars, net, switchVars, wake, grinding, found, faults>>

\* A grinder without a handle reaches its nonce; nobody reads the result.
GrinderEnds(n) ==
    /\ grinding[n] > 0
    /\ grinding' = [grinding EXCEPT ![n] = @ - 1]
    /\ UNCHANGED <<chainVars, linkVars, net, switchVars, wake, task, found, faults>>

\* The launcher writes "1" or "0" to mine_ctl.
Toggle(n) ==
    /\ n \in Payout
    /\ faults < MaxFaults
    /\ faults' = faults + 1
    /\ enabled' = IF n \in enabled THEN enabled \ {n} ELSE enabled \cup {n}
    /\ UNCHANGED <<chainVars, linkVars, net, searched, minerVars>>

-----------------------------------------------------------------------------
(* What the environment may do.                                            *)

\* Gossip can be missed (p2p.rs:447).
Lose(p) ==
    /\ faults < MaxFaults
    /\ faults' = faults + 1
    /\ net' = net \ {p}
    /\ UNCHANGED <<chainVars, linkVars, switchVars, minerVars>>

\* A node's connections close; messages it has received stay in its queue.
Disconnect(n) ==
    /\ n \in online
    /\ faults < MaxFaults
    /\ faults' = faults + 1
    /\ online' = online \ {n}
    /\ UNCHANGED <<chainVars, alive, net, switchVars, minerVars>>

\* stop_node, between two steps of the event loop or while only grinders are left.
Stop(n) ==
    /\ n \in alive \/ grinding[n] > 0
    /\ Kill(n)
    /\ UNCHANGED <<chainVars, found>>

\* The same while a block from the network is being written, or right after.
StopInAccept(n, p) ==
    /\ p \in net
    /\ p.to = n
    /\ p.msg.kind \in {"Block", "BlockReply"}
    /\ Accepts(n, p.msg.block)
    /\ Kill(n)
    /\ Extend(n, p.msg.block) \/ ExtendPartly(n, p.msg.block)
    /\ UNCHANGED found

\* The same while a block found by the node itself is being written, or right after.
StopInFind(n, b) ==
    /\ Solves(n, b)
    /\ Accepts(n, b)
    /\ Kill(n)
    /\ Extend(n, b) \/ ExtendPartly(n, b)

\* The next process, once the databases' locks are free.
Restart(n) ==
    /\ n \in Nodes \ alive
    /\ grinding[n] = 0
    /\ alive' = alive \cup {n}
    /\ UNCHANGED <<chainVars, online, net, switchVars, minerVars, faults>>

Next ==
    \/ \E n \in Nodes :
          \/ \E p \in net : Handle(n, p) \/ StopInAccept(n, p)
          \/ StatusTick(n)
          \/ PeerSearch(n)
          \/ Connect(n)
          \/ MiningTick(n)
          \/ StartMining(n)
          \/ \E b \in Blocks \ {Genesis} : FindBlock(n, b) \/ StopInFind(n, b)
          \/ FailJob(n)
          \/ GrinderEnds(n)
          \/ Toggle(n)
          \/ Disconnect(n)
          \/ Stop(n)
          \/ Restart(n)
    \/ \E p \in net : Lose(p)

Spec == Init /\ [][Next]_vars

\* The event loop serves every queued message, its timers tick for ever, and an
\* offline node dials every 30 s (CHANGELOG.md:6).  The tick is strongly fair because
\* the bound Asks, which the code does not have, may hold it back again and again.
\* Nothing is assumed of mining, of the user or of the network's faults.
Fairness ==
    /\ \A p \in Packet : WF_vars(Handle(p.to, p))
    /\ \A n \in Nodes : SF_vars(StatusTick(n)) /\ WF_vars(Connect(n))

FairSpec == Spec /\ Fairness

-----------------------------------------------------------------------------
(* Properties.                                                             *)

\* More blocks went into the UTXO set of n than its chain has: a kill fell between the
\* writes of some accept_block.
Torn(n) == Len(coins[n]) # NextHeight(tip[n])

\* While only one node mines (Payout) there is never a fork: of any two chains one extends
\* the other, whoever restarts, disconnects or mines before it has genesis, and whoever
\* else was killed in accept_block.  Only a miner that was killed between the "b:" put
\* and the tip may mine beside a block it has given away (chaindb.rs:87).
OneMinerNoFork ==
    (\A n \in Payout : stored[n] = chain[n]) =>
        \A n, p \in Nodes : chain[n] \subseteq chain[p] \/ chain[p] \subseteq chain[n]

\* Two nodes, one of them mining: a node ends only because its last peer is gone
\* while a message is still queued, because it holds a block too large to publish
\* (request_next_block and publish with `?`), or after a kill between the writes of an
\* accept_block; never because of a block it was sent.
EndsOnlyAlone ==
    [][\A n \in alive \ alive' :
          \/ Peers(n) = {}
          \/ chain[n] \cap TooLarge # {}
          \/ \E q \in Nodes : Torn(q)
          \/ faults' # faults]_vars

\* The blocks of a node's chain below its first one too large to publish.
Gossiped(n) ==
    {b \in chain[n] : \A u \in chain[n] \cap TooLarge : Body[b].height < Body[u].height}

\* Whatever is lost or reordered, two nodes end up with the same chain unless one of
\* them is down for good: height-based sync makes up for missed gossip (p2p.rs:446).
\* It does so up to the first block too large to publish, and no further: the node
\* that has it ends at each question for it.  A node killed between the writes of an
\* accept_block may know a block for ever that its chain does not have, or refuse it.
SyncConverges ==
    \/ <>[](alive # Nodes)
    \/ <>(\E n \in Nodes : Torn(n))
    \/ <>[](\A n, p \in Nodes : Gossiped(n) = Gossiped(p))

\* A miner works on its own tip: whatever block comes in, and by whichever message, no
\* grinder whose result would be read goes on below it ("abort stale mining when a
\* network block arrives", CHANGELOG.md:10).
MinesOnTip == \A n \in Nodes : task[n] # NoTask => task[n] = tip[n]

\* A task that is aborted because another node's block came in leaves a token in mine_rx,
\* so the mining loop starts over without waiting for its ticker: "wake miner for
\* next height immediately" (CHANGELOG.md:10).
AbortWakes == [][\A n \in alive' : grinding'[n] > grinding[n] => wake'[n] > 0]_vars

\* The blocks of a node's chain that came from another node.
Foreign(n) == {b \in chain[n] : IF b = Genesis THEN n \in Fresh ELSE Finder[b] # n}

\* The abort does not stop the grinder, which holds a core until it finds its nonce; but
\* each such leftover is the work of one block that came in, so they are never more than
\* those, and one more in a process whose event loop is over.
LeftoversBounded ==
    \A n \in Nodes :
        grinding[n] <= Cardinality(Foreign(n)) + (IF n \in alive THEN 0 ELSE 1)

\* A node left running syncs the chain "from height 0" (README.md:81).
LateNodeSyncs ==
    \A b \in Blocks : (\E p \in Nodes : b \in chain[p]) ~> (\A n \in Nodes : b \in chain[n])

\* "The node switches to a heavier fork" (types/utxo.rs:500): a node does not stay
\* behind a longer chain.
HeavierForkWins ==
    \A h \in Heights :
        (\E p \in Nodes : NextHeight(tip[p]) > h) ~> (\A n \in Nodes : NextHeight(tip[n]) > h)
=============================================================================
