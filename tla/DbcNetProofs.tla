---------------------------- MODULE DbcNetProofs ----------------------------
(***************************************************************************)
(* Theorems about nodes on one gossip network (DbcNet), for every set of   *)
(* nodes, of blocks, and every assignment of finders.                      *)
(*                                                                         *)
(* NetInv is the inductive invariant.  Every node holds one unbranched     *)
(* chain from genesis (IsChain), a miner works on its own tip              *)
(* (MinesOnTip), and every block on its way is stored by some node         *)
(* (PacketsKnown) and by the one that found it (Databases), so that a      *)
(* block which is new to a node was found by another.  Until a kill falls  *)
(* between the writes of a block, the UTXO set of a node went through its  *)
(* chain and nothing else (CoinsFollow).                                   *)
(***************************************************************************)
EXTENDS DbcNet, FiniteSetTheorems, TLAPS

\* The blocks S, with tip t, are one chain from genesis: one block at each height up
\* to the tip's, and each but genesis on top of another.
IsChain(S, t) ==
    /\ S = {} <=> t = NoBlock
    /\ t # NoBlock => Genesis \in S /\ t \in S
    /\ \A b \in S : Body[b].height < NextHeight(t)
    /\ \A h \in 0..NextHeight(t) - 1 : \E b \in S : Body[b].height = h
    /\ \A b, d \in S : Body[b].height = Body[d].height => b = d
    /\ \A b \in S \ {Genesis} :
          Body[b].prev \in S /\ Body[b].height = Body[Body[b].prev].height + 1

Chains == \A n \in Nodes : IsChain(chain[n], tip[n])

\* Where the blocks of the databases come from.
Databases ==
    \A n \in Nodes :
        /\ chain[n] \subseteq stored[n]
        /\ served[n] \in stored[n] \cup {NoBlock}
        /\ n \notin Fresh => Genesis \in stored[n]
        /\ stored[n] \subseteq found \cup {Genesis}
        /\ \A b \in stored[n] \ {Genesis} : b \in stored[Finder[b]]

\* Only a miner has a task, and found what was found.
MinersFound ==
    /\ \A n \in Nodes : task[n] # NoTask => n \in Payout
    /\ \A b \in found : b # Genesis /\ Finder[b] \in Payout

Carried(p) == p.msg.kind \in {"Block", "BlockReply"}

PacketsKnown == \A p \in net : Carried(p) => \E n \in Nodes : p.msg.block \in stored[n]

\* The first i - 1 elements of a sequence.
Before(s, i) == [j \in 1..i - 1 |-> s[j]]

\* s goes through the blocks of a chain in the order of their heights, each of which
\* could be applied after those below it.
Follows(s, S) ==
    \A i \in 1..Len(s) :
        s[i] \in S /\ Body[s[i]].height = i - 1 /\ Applies(UtxoAfter(Before(s, i)), s[i])

CoinsFollow ==
    \A n \in Nodes :
        /\ Len(coins[n]) >= NextHeight(tip[n])
        /\ ~Torn(n) => stored[n] = chain[n] /\ Follows(coins[n], chain[n])

NetInv ==
    /\ TypeOK
    /\ Chains
    /\ Databases
    /\ MinesOnTip
    /\ MinersFound
    /\ PacketsKnown
    /\ CoinsFollow
    /\ LeftoversBounded

\* With two nodes: a block is asked for only by the other node, at most right above its
\* tip, and so no reply is further ahead of the node it goes to.
Asked ==
    \A p \in net :
        /\ p.msg.kind = "GetBlock" =>
              \A q \in Nodes \ {p.to} : p.msg.height <= NextHeight(tip[q])
        /\ p.msg.kind = "BlockReply" => Body[p.msg.block].height <= NextHeight(tip[p.to])

-----------------------------------------------------------------------------
(* Facts about one chain.                                                  *)

LEMMA BodyFields ==
    ASSUME NEW b \in Blocks
    PROVE  Body[b].height \in Heights /\ Body[b].height \in Nat /\ Body[b].prev \in Blocks \cup {NoBlock}
<1>1. Body[b] \in BlockBody
  BY BlockAssumption
<1>2. Heights \subseteq Nat
  BY BlockAssumption DEF Heights
<1> QED
  BY <1>1, <1>2 DEF BlockBody

LEMMA NextHeightType ==
    ASSUME NEW t \in Blocks \cup {NoBlock}
    PROVE  NextHeight(t) \in Nat /\ NextHeight(t) \in 0..MaxHeight + 1
<1>1. t # NoBlock => Body[t].height \in Heights
  BY BodyFields
<1> QED
  BY <1>1, BlockAssumption DEF NextHeight, Heights

\* A block that connects comes right above the tip.
LEMMA ConnectsAbove ==
    ASSUME NEW t \in Blocks \cup {NoBlock}, NEW b \in Blocks, Connects(t, b)
    PROVE  /\ Body[b].height = NextHeight(t)
           /\ NextHeight(b) = NextHeight(t) + 1
           /\ b = Genesis \/ (t # NoBlock /\ Body[b].prev = t)
<1>1. b # NoBlock /\ Body[b].height \in Nat
  BY BodyFields, BlockAssumption
<1> QED
  BY <1>1 DEF Connects, NextHeight

LEMMA EmptyChain == IsChain({}, NoBlock)
  BY DEF IsChain, NextHeight

LEMMA GenesisChain == IsChain({Genesis}, Genesis)
<1>1. Body[Genesis].height = 0 /\ Genesis # NoBlock
  BY GenesisAssumption, BlockAssumption DEF Connects
<1> QED
  BY <1>1 DEF IsChain, NextHeight

\* A chain with a block that connects is a chain.
LEMMA ChainGrows ==
    ASSUME NEW S \in SUBSET Blocks, NEW t \in Blocks \cup {NoBlock}, IsChain(S, t),
           NEW b \in Blocks, Connects(t, b)
    PROVE  IsChain(S \cup {b}, b)
<1> DEFINE T == S \cup {b}
<1>1. /\ Body[b].height = NextHeight(t) /\ NextHeight(b) = NextHeight(t) + 1
      /\ NextHeight(t) \in Nat
      /\ b = Genesis \/ (t # NoBlock /\ Body[b].prev = t)
  BY ConnectsAbove, NextHeightType
<1>2. b # NoBlock /\ \A d \in S : Body[d].height \in Nat
  BY BodyFields, BlockAssumption
<1>3. Genesis \in T
  BY <1>1 DEF IsChain
<1>4. \A d \in T : Body[d].height < NextHeight(b)
  BY <1>1, <1>2 DEF IsChain
<1>5. \A h \in 0..NextHeight(b) - 1 : \E d \in T : Body[d].height = h
  <2> TAKE h \in 0..NextHeight(b) - 1
  <2>1. CASE h = NextHeight(t)
    BY <1>1, <2>1
  <2>2. CASE h # NextHeight(t)
    <3>1. h \in 0..NextHeight(t) - 1
      BY <1>1, <2>2
    <3> QED
      BY <3>1 DEF IsChain
  <2> QED
    BY <2>1, <2>2
<1>6. \A d, e \in T : Body[d].height = Body[e].height => d = e
  BY <1>1, <1>2 DEF IsChain
<1>7. \A d \in T \ {Genesis} :
         Body[d].prev \in T /\ Body[d].height = Body[Body[d].prev].height + 1
  <2>1. b # Genesis => t \in S /\ Body[b].height = Body[t].height + 1
    BY <1>1 DEF IsChain, NextHeight
  <2> QED
    BY <1>1, <2>1 DEF IsChain
<1> QED
  BY <1>2, <1>3, <1>4, <1>5, <1>6, <1>7 DEF IsChain

\* Two chains with blocks of one third chain only: the shorter one is part of the other.
LEMMA ShorterIsPart ==
    ASSUME NEW S \in SUBSET Blocks, NEW s, IsChain(S, s),
           NEW T \in SUBSET Blocks, NEW t \in Blocks \cup {NoBlock}, IsChain(T, t),
           NEW U, NEW u, IsChain(U, u),
           S \subseteq U \cup {Genesis}, T \subseteq U \cup {Genesis},
           NEW b \in S, Body[b].height < NextHeight(t)
    PROVE  b \in T
<1>1. Body[b].height \in 0..NextHeight(t) - 1
  BY BodyFields, NextHeightType
<1>2. PICK d \in T : Body[d].height = Body[b].height
  BY <1>1 DEF IsChain
<1>3. CASE U = {}
  BY <1>2, <1>3
<1>4. CASE U # {}
  <2>1. Genesis \in U
    BY <1>4 DEF IsChain
  <2>2. b \in U /\ d \in U
    BY <1>2, <2>1
  <2> QED
    BY <1>2, <2>2 DEF IsChain
<1> QED
  BY <1>3, <1>4

LEMMA ChainsCompare ==
    ASSUME NEW S \in SUBSET Blocks, NEW s \in Blocks \cup {NoBlock}, IsChain(S, s),
           NEW T \in SUBSET Blocks, NEW t \in Blocks \cup {NoBlock}, IsChain(T, t),
           NEW U, NEW u, IsChain(U, u),
           S \subseteq U \cup {Genesis}, T \subseteq U \cup {Genesis}
    PROVE  S \subseteq T \/ T \subseteq S
<1>1. NextHeight(s) \in Nat /\ NextHeight(t) \in Nat
  BY NextHeightType
<1>2. \A b \in S \cup T : Body[b].height \in Nat
  BY BodyFields
<1>3. CASE NextHeight(s) <= NextHeight(t)
  <2>1. \A b \in S : Body[b].height < NextHeight(t)
    BY <1>1, <1>2, <1>3 DEF IsChain
  <2> QED
    BY <2>1, ShorterIsPart
<1>4. CASE NextHeight(t) <= NextHeight(s)
  <2>1. \A b \in T : Body[b].height < NextHeight(s)
    BY <1>1, <1>2, <1>4 DEF IsChain
  <2> QED
    BY <2>1, ShorterIsPart
<1> QED
  BY <1>1, <1>3, <1>4

-----------------------------------------------------------------------------
(* Type correctness.                                                       *)

LEMMA PublishTypes ==
    ASSUME TypeOK, NEW n \in Nodes, NEW m \in Message
    PROVE  Publish(n, m) \subseteq Packet
<1>1. Peers(n) \subseteq Nodes
  BY DEF Peers, TypeOK
<1> QED
  BY <1>1 DEF Publish, Packet

LEMMA RequestTypes ==
    ASSUME TypeOK, NEW n \in Nodes, NEW t \in Blocks \cup {NoBlock}
    PROVE  Request(n, t) \subseteq Packet
<1>1. [kind |-> "GetBlock", height |-> NextHeight(t)] \in Message
  BY NextHeightType DEF Message
<1> QED
  BY <1>1, PublishTypes DEF Request

LEMMA BlockMessages ==
    ASSUME NEW b \in Blocks
    PROVE  /\ [kind |-> "Block", block |-> b] \in Message
           /\ [kind |-> "BlockReply", block |-> b] \in Message
  BY DEF Message

\* The packets that carry a block.
LEMMA CarriedBlock ==
    ASSUME TypeOK, NEW p \in net
    PROVE  /\ p.to \in Nodes /\ p.msg \in Message
           /\ Carried(p) => p.msg.block \in Blocks
           /\ ~Carried(p) => p.msg.kind = "GetBlock" /\ p.msg.height \in 0..MaxHeight + 1
<1>1. p.to \in Nodes /\ p.msg \in Message
  BY DEF TypeOK, Packet
<1> QED
  BY <1>1 DEF Message, Carried

DatabaseTypes ==
    /\ stored \in [Nodes -> SUBSET Blocks]
    /\ chain \in [Nodes -> SUBSET Blocks]
    /\ served \in [Nodes -> Blocks \cup {NoBlock}]
    /\ coins \in [Nodes -> Seq(Blocks)]
    /\ tip \in [Nodes -> Blocks \cup {NoBlock}]

LEMMA EndsTypes ==
    ASSUME TypeOK, NEW n \in Nodes, Ends(n), DatabaseTypes', grinding' \in [Nodes -> Nat],
           found' \subseteq Blocks, faults' \in 0..MaxFaults
    PROVE  TypeOK'
<1>1. wake' \in [Nodes -> 0..WakeSlots]
  BY NetAssumption DEF Ends, TypeOK
<1>2. task' \in [Nodes -> Blocks \cup {NoBlock, NoTask}]
  BY DEF Ends, TypeOK
<1>3. /\ alive' \subseteq Nodes /\ online' \subseteq alive' /\ net' \subseteq Packet
      /\ enabled' \subseteq Nodes /\ searched' \subseteq Nodes
  BY DEF Ends, TypeOK
<1> QED
  BY <1>1, <1>2, <1>3 DEF TypeOK, DatabaseTypes

LEMMA LeaveTypes ==
    ASSUME TypeOK, NEW n \in Nodes, Leave(n), DatabaseTypes', UNCHANGED faults
    PROVE  TypeOK'
<1>1. grinding' \in [Nodes -> Nat] /\ found' \subseteq Blocks /\ faults' \in 0..MaxFaults
  BY DEF Leave, TypeOK
<1> QED
  BY <1>1, EndsTypes DEF Leave

LEMMA KillTypes ==
    ASSUME TypeOK, NEW n \in Nodes, Kill(n), DatabaseTypes', found' \subseteq Blocks
    PROVE  TypeOK'
<1>1. grinding' \in [Nodes -> Nat] /\ faults' \in 0..MaxFaults
  BY NetAssumption DEF Kill, TypeOK
<1> QED
  BY <1>1, EndsTypes DEF Kill

LEMMA SameDatabases == TypeOK /\ UNCHANGED chainVars => DatabaseTypes'
  BY DEF TypeOK, DatabaseTypes, chainVars

LEMMA ExtendTypes ==
    ASSUME TypeOK, NEW n \in Nodes, NEW b \in Blocks, Extend(n, b) \/ ExtendPartly(n, b)
    PROVE  DatabaseTypes'
<1>1. coins' = [coins EXCEPT ![n] = Append(@, b)]
  BY DEF Extend, ExtendPartly
<1>2. coins' \in [Nodes -> Seq(Blocks)]
  BY <1>1 DEF TypeOK
<1>3. CASE Extend(n, b)
  BY <1>2, <1>3 DEF Extend, TypeOK, DatabaseTypes
<1>4. CASE ExtendPartly(n, b)
  <2>1. stored' = stored \/ stored' = [stored EXCEPT ![n] = @ \cup {b}]
    BY <1>4 DEF ExtendPartly
  <2>2. served' = served \/ served' = [served EXCEPT ![n] = b]
    BY <1>4 DEF ExtendPartly
  <2>3. [stored EXCEPT ![n] = @ \cup {b}] \in [Nodes -> SUBSET Blocks]
    BY DEF TypeOK
  <2>4. [served EXCEPT ![n] = b] \in [Nodes -> Blocks \cup {NoBlock}]
    BY DEF TypeOK
  <2>5. stored' \in [Nodes -> SUBSET Blocks]
    BY <2>1, <2>3 DEF TypeOK
  <2>6. served' \in [Nodes -> Blocks \cup {NoBlock}]
    BY <2>2, <2>4 DEF TypeOK
  <2> QED
    BY <1>2, <1>4, <2>5, <2>6 DEF ExtendPartly, TypeOK, DatabaseTypes
<1> QED
  BY <1>3, <1>4

LEMMA HandleTypes ==
    ASSUME TypeOK, NEW n \in Nodes, NEW p \in net, Handle(n, p)
    PROVE  TypeOK'
<1> USE CarriedBlock
<1>1. CASE AcceptFromNetwork(n, p)
  <2> DEFINE b == p.msg.block
  <2>1. b \in Blocks /\ faults' = faults
    BY <1>1 DEF AcceptFromNetwork, Carried
  <2>2. DatabaseTypes'
    BY <1>1, <2>1, ExtendTypes DEF AcceptFromNetwork
  <2>3. CASE Peers(n) = {}
    BY <1>1, <2>1, <2>2, <2>3, LeaveTypes DEF AcceptFromNetwork
  <2>4. CASE Peers(n) # {}
    <3>1. net' \subseteq Packet
      BY <1>1, <2>1, <2>4, RequestTypes DEF AcceptFromNetwork, TypeOK
    <3>2. AbortTask(n) /\ TryWake(n) /\ UNCHANGED <<linkVars, switchVars, found>>
      BY <1>1, <2>4 DEF AcceptFromNetwork
    <3>3. task' \in [Nodes -> Blocks \cup {NoBlock, NoTask}] /\ grinding' \in [Nodes -> Nat]
      BY <3>2 DEF AbortTask, TypeOK
    <3>4. wake' \in [Nodes -> 0..WakeSlots]
      BY <3>2, NetAssumption DEF TryWake, TypeOK
    <3> QED
      BY <2>1, <2>2, <3>1, <3>2, <3>3, <3>4 DEF TypeOK, DatabaseTypes, linkVars, switchVars
  <2> QED
    BY <2>3, <2>4
<1>2. CASE DropFromNetwork(n, p)
  BY <1>2 DEF DropFromNetwork, TypeOK, chainVars, linkVars, switchVars, minerVars
<1>3. CASE EndOnReply(n, p)
  BY <1>3, LeaveTypes, SameDatabases DEF EndOnReply
<1>4. CASE AnswerGetBlock(n, p)
  <2> DEFINE answers == {b \in Indexed(n) : Body[b].height = p.msg.height}
             stops == answers # {} /\ (Peers(n) = {} \/ answers \cap TooLarge # {})
             replies == UNION {Publish(n, [kind |-> "BlockReply", block |-> b]) : b \in answers}
  <2>1. CASE stops
    BY <1>4, <2>1, LeaveTypes, SameDatabases DEF AnswerGetBlock
  <2>2. CASE ~stops
    <3>1. \A b \in answers : Publish(n, [kind |-> "BlockReply", block |-> b]) \subseteq Packet
      <4>1. answers \subseteq Blocks
        BY DEF TypeOK, Indexed
      <4> QED
        BY <4>1, BlockMessages, PublishTypes
    <3>2. replies \subseteq Packet
      BY <3>1
    <3>3. net' = (net \ {p}) \cup replies
      BY <1>4, <2>2 DEF AnswerGetBlock
    <3>4. net' \subseteq Packet
      BY <3>2, <3>3 DEF TypeOK
    <3> QED
      BY <1>4, <2>2, <3>4
         DEF AnswerGetBlock, TypeOK, chainVars, linkVars, switchVars, minerVars
  <2> QED
    BY <2>1, <2>2
<1> QED
  BY <1>1, <1>2, <1>3, <1>4 DEF Handle

LEMMA MiningTypes ==
    ASSUME TypeOK, NEW n \in Nodes,
           \/ MiningTick(n) \/ StartMining(n) \/ FailJob(n)
           \/ \E b \in Blocks \ {Genesis} : FindBlock(n, b)
    PROVE  TypeOK'
<1>1. tip[n] \in Blocks \cup {NoBlock} /\ Request(n, tip[n]) \subseteq Packet
  BY RequestTypes DEF TypeOK
<1>2. CASE MiningTick(n)
  <2>1. wake' \in [Nodes -> 0..WakeSlots]
    BY <1>2, NetAssumption DEF MiningTick, TypeOK
  <2> QED
    BY <1>2, <2>1 DEF MiningTick, TypeOK, chainVars, linkVars, switchVars
<1>3. CASE StartMining(n)
  <2>1. wake' \in [Nodes -> 0..WakeSlots]
    BY <1>3, NetAssumption DEF StartMining, TypeOK
  <2>2. task' \in [Nodes -> Blocks \cup {NoBlock, NoTask}] /\ net' \subseteq Packet
    BY <1>1, <1>3 DEF StartMining, TypeOK
  <2> QED
    BY <1>3, <2>1, <2>2 DEF StartMining, TypeOK, chainVars, linkVars, switchVars
<1>4. ASSUME NEW b \in Blocks \ {Genesis}, FindBlock(n, b)
      PROVE  TypeOK'
  <2>1. Publish(n, [kind |-> "Block", block |-> b]) \subseteq Packet /\ Request(n, b) \subseteq Packet
    BY BlockMessages, PublishTypes, RequestTypes
  <2>2. net' \subseteq Packet
    BY <1>4, <2>1 DEF FindBlock, TypeOK
  <2>3. DatabaseTypes'
    BY <1>4, ExtendTypes, SameDatabases DEF FindBlock
  <2>4. task' \in [Nodes -> Blocks \cup {NoBlock, NoTask}] /\ found' \subseteq Blocks
    BY <1>4 DEF FindBlock, Solves, TypeOK
  <2> QED
    BY <1>4, <2>2, <2>3, <2>4 DEF FindBlock, TypeOK, DatabaseTypes, linkVars, switchVars
<1>5. CASE FailJob(n)
  BY <1>5 DEF FailJob, TypeOK, chainVars, linkVars, switchVars
<1> QED
  BY <1>2, <1>3, <1>4, <1>5

\* The timers, the connections and the environment.
LEMMA OtherTypes ==
    ASSUME TypeOK, NEW n \in Nodes,
           \/ StatusTick(n) \/ PeerSearch(n) \/ Connect(n) \/ GrinderEnds(n)
           \/ Toggle(n) \/ Disconnect(n) \/ Stop(n) \/ Restart(n)
    PROVE  TypeOK'
<1> USE DEF chainVars, linkVars, switchVars, minerVars
<1>1. Request(n, tip[n]) \subseteq Packet
  BY RequestTypes DEF TypeOK
<1>2. CASE StatusTick(n)
  BY <1>1, <1>2 DEF StatusTick, TypeOK
<1>3. CASE PeerSearch(n)
  BY <1>1, <1>3 DEF PeerSearch, TypeOK
<1>4. CASE Connect(n)
  <2>1. \A q \in Nodes : [kind |-> "GetBlock", height |-> NextHeight(tip[q])] \in Message
    BY NextHeightType DEF Message, TypeOK
  <2>2. net' \subseteq Packet
    BY <1>4, <2>1 DEF Connect, TypeOK, Packet
  <2> QED
    BY <1>4, <2>2 DEF Connect, TypeOK
<1>5. CASE GrinderEnds(n)
  <2>1. grinding' \in [Nodes -> Nat]
    BY <1>5 DEF GrinderEnds, TypeOK
  <2> QED
    BY <1>5, <2>1 DEF GrinderEnds, TypeOK
<1>6. CASE Toggle(n)
  BY <1>6, NetAssumption DEF Toggle, TypeOK
<1>7. CASE Disconnect(n)
  BY <1>7, NetAssumption DEF Disconnect, TypeOK
<1>8. CASE Stop(n)
  BY <1>8, KillTypes, SameDatabases DEF Stop, TypeOK
<1>9. CASE Restart(n)
  BY <1>9 DEF Restart, TypeOK
<1> QED
  BY <1>2, <1>3, <1>4, <1>5, <1>6, <1>7, <1>8, <1>9

\* Kills inside accept_block.
LEMMA StopTypes ==
    ASSUME TypeOK, NEW n \in Nodes,
           \/ \E p \in net : StopInAccept(n, p)
           \/ \E b \in Blocks \ {Genesis} : StopInFind(n, b)
    PROVE  TypeOK'
<1>1. ASSUME NEW p \in net, StopInAccept(n, p)
      PROVE  TypeOK'
  <2>1. p.msg.block \in Blocks /\ found' \subseteq Blocks
    BY <1>1, CarriedBlock DEF StopInAccept, Carried, TypeOK
  <2> QED
    BY <1>1, <2>1, ExtendTypes, KillTypes DEF StopInAccept
<1>2. ASSUME NEW b \in Blocks \ {Genesis}, StopInFind(n, b)
      PROVE  TypeOK'
  <2>1. found' \subseteq Blocks
    BY <1>2 DEF StopInFind, Solves, TypeOK
  <2> QED
    BY <1>2, <2>1, ExtendTypes, KillTypes DEF StopInFind
<1> QED
  BY <1>1, <1>2

LEMMA StepTypes == TypeOK /\ [Next]_vars => TypeOK'
<1> SUFFICES ASSUME TypeOK, [Next]_vars PROVE TypeOK'
  OBVIOUS
<1>1. ASSUME NEW p \in net, Lose(p)
      PROVE  TypeOK'
  BY <1>1, NetAssumption DEF Lose, TypeOK, chainVars, linkVars, switchVars, minerVars
<1>2. CASE UNCHANGED vars
  BY <1>2 DEF TypeOK, vars
<1> QED
  BY <1>1, <1>2, HandleTypes, MiningTypes, OtherTypes, StopTypes DEF Next

LEMMA InitTypes == Init => TypeOK
<1> SUFFICES ASSUME Init PROVE TypeOK
  OBVIOUS
<1>1. coins \in [Nodes -> Seq(Blocks)] /\ stored \in [Nodes -> SUBSET Blocks]
  BY BlockAssumption DEF Init
<1> QED
  BY <1>1, NetAssumption, BlockAssumption DEF Init, TypeOK

\* Every variable keeps its type.
THEOREM NetTypes == Spec => []TypeOK
<1> QED
  BY InitTypes, StepTypes, PTL DEF Spec

-----------------------------------------------------------------------------
(* What a step does to the databases, the tasks and the blocks on their    *)
(* way: nothing, or it takes in a block from the network, or finds one, or *)
(* is killed while it writes one.                                          *)

\* A packet was there before, asks for a block, or carries a block some node has.
Sends ==
    \A p \in net' : p \in net \/ ~Carried(p) \/ \E n \in Nodes : p.msg.block \in stored'[n]

\* What LeftoversBounded allows a process whose event loop is over.
Slack(m) == IF m \in alive THEN 0 ELSE 1

\* No grinder of m is left behind, but for the one an event loop takes with it.
Rested(m) == grinding'[m] = 0 \/ grinding'[m] + Slack(m) <= grinding[m] + Slack(m)'

Tasks ==
    \A m \in Nodes : task'[m] \in {task[m], NoTask} \/ (task'[m] = tip[m] /\ m \in Payout)

Quiet ==
    /\ UNCHANGED <<chainVars, found>>
    /\ Sends
    /\ Tasks
    /\ \A m \in Nodes : Rested(m)

Comes(b) == \E p \in net : Carried(p) /\ p.msg.block = b

\* What Solves says of the block.
FoundBy(n, b) ==
    /\ b # Genesis /\ Finder[b] = n
    /\ task[n] # NoTask
    /\ found' = found \cup {b}

OnlyStops(n) ==
    /\ task'[n] = NoTask
    /\ \A m \in Nodes \ {n} : task'[m] = task[m]

Takes(n, b) ==
    /\ Comes(b)
    /\ Accepts(n, b)
    /\ Extend(n, b)
    /\ UNCHANGED found
    /\ Sends
    /\ OnlyStops(n)
    /\ Rested(n) \/ grinding'[n] + Slack(n) <= grinding[n] + Slack(n)' + 1
    /\ \A m \in Nodes \ {n} : Rested(m)

Finds(n, b) ==
    /\ FoundBy(n, b)
    /\ (Accepts(n, b) /\ Extend(n, b)) \/ UNCHANGED chainVars
    /\ Sends
    /\ OnlyStops(n)
    /\ \A m \in Nodes : Rested(m)

Cuts(n, b) ==
    /\ (Comes(b) /\ UNCHANGED found) \/ FoundBy(n, b)
    /\ Accepts(n, b)
    /\ ExtendPartly(n, b)
    /\ Sends
    /\ OnlyStops(n)
    /\ \A m \in Nodes : Rested(m)

\* What the steps send.
LEMMA RequestAsks ==
    ASSUME NEW n, NEW t, NEW p \in Request(n, t)
    PROVE  ~Carried(p) /\ p.msg.kind = "GetBlock" /\ p.msg.height = NextHeight(t)
  BY DEF Request, Publish, Carried

LEMMA PublishCarries ==
    ASSUME NEW n, NEW k, NEW b, NEW p \in Publish(n, [kind |-> k, block |-> b])
    PROVE  p.msg.block = b /\ p.msg.kind = k
  BY DEF Publish

LEMMA SameGrinding ==
    ASSUME TypeOK, NEW m \in Nodes, grinding'[m] = grinding[m], m \in alive' => m \in alive
    PROVE  Rested(m)
<1>1. grinding[m] \in Nat
  BY DEF TypeOK
<1> QED
  BY <1>1 DEF Rested, Slack

LEMMA EndsQuietly ==
    ASSUME TypeOK, NEW n \in Nodes, Ends(n)
    PROVE  net' \subseteq net /\ OnlyStops(n) /\ alive' = alive \ {n} /\ Sends /\ Tasks
<1>1. net' \subseteq net /\ alive' = alive \ {n} /\ task' = [task EXCEPT ![n] = NoTask]
  BY DEF Ends
<1>2. OnlyStops(n) /\ Tasks
  BY <1>1 DEF OnlyStops, Tasks, TypeOK
<1> QED
  BY <1>1, <1>2 DEF Sends

LEMMA LeaveRests ==
    ASSUME TypeOK, NEW n \in alive, Leave(n)
    PROVE  UNCHANGED found /\ \A m \in Nodes : Rested(m)
<1>1. n \in Nodes /\ grinding \in [Nodes -> Nat] /\ alive' = alive \ {n}
  BY DEF TypeOK, Leave, Ends
<1>2. Rested(n)
  <2>1. grinding'[n] <= grinding[n] + 1 /\ grinding'[n] \in Nat /\ grinding[n] \in Nat
    BY <1>1 DEF Leave
  <2> QED
    BY <1>1, <2>1 DEF Rested, Slack
<1>3. ASSUME NEW m \in Nodes, m # n
      PROVE  Rested(m)
  BY <1>1, <1>3, SameGrinding DEF Leave
<1> QED
  BY <1>2, <1>3 DEF Leave

LEMMA KillRests ==
    ASSUME TypeOK, NEW n \in Nodes, Kill(n)
    PROVE  \A m \in Nodes : Rested(m)
<1>1. grinding' = [grinding EXCEPT ![n] = 0] /\ alive' = alive \ {n}
  BY DEF Kill, Ends
<1>2. Rested(n)
  BY <1>1 DEF Rested, TypeOK
<1>3. ASSUME NEW m \in Nodes, m # n
      PROVE  Rested(m)
  BY <1>1, <1>3, SameGrinding DEF TypeOK
<1> QED
  BY <1>2, <1>3

LEMMA LeaveIsQuiet ==
    ASSUME TypeOK, NEW n \in alive, Leave(n), UNCHANGED chainVars
    PROVE  Quiet
<1>1. n \in Nodes
  BY DEF TypeOK
<1> QED
  BY <1>1, EndsQuietly, LeaveRests DEF Leave, Quiet

\* A block that a node has just taken in is stored, and nothing is forgotten.
LEMMA ExtendGrows ==
    ASSUME TypeOK, NEW n \in Nodes, NEW b \in Blocks, Extend(n, b)
    PROVE  /\ chain'[n] = chain[n] \cup {b} /\ tip'[n] = b
           /\ stored'[n] = stored[n] \cup {b} /\ served'[n] = NoBlock
           /\ coins'[n] = Append(coins[n], b)
           /\ \A m \in Nodes \ {n} : /\ chain'[m] = chain[m] /\ tip'[m] = tip[m]
                                    /\ stored'[m] = stored[m] /\ served'[m] = served[m]
                                    /\ coins'[m] = coins[m]
  BY DEF Extend, TypeOK

LEMMA ExtendPartlyGrows ==
    ASSUME TypeOK, NEW n \in Nodes, NEW b \in Blocks, ExtendPartly(n, b)
    PROVE  /\ chain' = chain /\ tip' = tip
           /\ stored'[n] = stored[n] \/ stored'[n] = stored[n] \cup {b}
           /\ served'[n] = served[n] \/ (served'[n] = b /\ b \in stored'[n])
           /\ coins'[n] = Append(coins[n], b)
           /\ \A m \in Nodes \ {n} : /\ stored'[m] = stored[m] /\ served'[m] = served[m]
                                    /\ coins'[m] = coins[m]
<1>1. chain' = chain /\ tip' = tip /\ coins' = [coins EXCEPT ![n] = Append(@, b)]
  BY DEF ExtendPartly
<1>2. \/ UNCHANGED <<stored, served>>
      \/ stored' = [stored EXCEPT ![n] = @ \cup {b}] /\ UNCHANGED served
      \/ stored' = [stored EXCEPT ![n] = @ \cup {b}] /\ served' = [served EXCEPT ![n] = b]
  BY DEF ExtendPartly
<1> QED
  BY <1>1, <1>2 DEF TypeOK

LEMMA HandleSteps ==
    ASSUME TypeOK, Databases, NEW n \in Nodes, NEW p \in net, Handle(n, p)
    PROVE  Quiet \/ \E b \in Blocks : Takes(n, b)
<1>0. n \in alive
  BY DEF Handle
<1>1. CASE AcceptFromNetwork(n, p)
  <2> DEFINE b == p.msg.block
  <2>1. Comes(b) /\ b \in Blocks /\ Accepts(n, b) /\ Extend(n, b)
    BY <1>1, CarriedBlock DEF AcceptFromNetwork, Carried, Comes
  <2>2. CASE Peers(n) = {}
    <3>1. Leave(n) /\ Ends(n)
      BY <1>1, <2>2 DEF AcceptFromNetwork, Leave
    <3> QED
      BY <1>0, <2>1, <3>1, EndsQuietly, LeaveRests DEF Takes
  <2>3. CASE Peers(n) # {}
    <3>1. /\ AbortTask(n) /\ UNCHANGED found /\ net' = (net \ {p}) \cup Request(n, b)
          /\ UNCHANGED alive
      BY <1>1, <2>3 DEF AcceptFromNetwork, linkVars
    <3>2. Sends
      BY <3>1, RequestAsks DEF Sends
    <3>3. OnlyStops(n)
      BY <3>1 DEF AbortTask, TypeOK, OnlyStops
    <3>4. grinding'[n] + Slack(n) <= grinding[n] + Slack(n)' + 1
      <4>1. grinding[n] \in Nat /\ grinding'[n] <= grinding[n] + 1 /\ grinding'[n] \in Nat
        BY <3>1 DEF AbortTask, TypeOK
      <4> QED
        BY <1>0, <3>1, <4>1 DEF Slack
    <3>5. \A m \in Nodes \ {n} : Rested(m)
      BY <3>1, SameGrinding DEF AbortTask, TypeOK
    <3> QED
      BY <2>1, <3>1, <3>2, <3>3, <3>4, <3>5 DEF Takes
  <2> QED
    BY <2>2, <2>3
<1>2. CASE DropFromNetwork(n, p)
  <2>1. \A m \in Nodes : Rested(m)
    BY <1>2, SameGrinding DEF DropFromNetwork, minerVars, linkVars
  <2> QED
    BY <1>2, <2>1 DEF DropFromNetwork, Quiet, Sends, Tasks, TypeOK, chainVars, minerVars
<1>3. CASE EndOnReply(n, p)
  BY <1>0, <1>3, LeaveIsQuiet DEF EndOnReply
<1>4. CASE AnswerGetBlock(n, p)
  <2> DEFINE answers == {b \in Indexed(n) : Body[b].height = p.msg.height}
             stops == answers # {} /\ (Peers(n) = {} \/ answers \cap TooLarge # {})
             replies == UNION {Publish(n, [kind |-> "BlockReply", block |-> b]) : b \in answers}
  <2>1. CASE stops
    BY <1>0, <1>4, <2>1, LeaveIsQuiet DEF AnswerGetBlock
  <2>2. CASE ~stops
    <3>1. ASSUME NEW q \in net' \ net
          PROVE  \E b \in Indexed(n) : q.msg.block = b /\ q.msg.kind = "BlockReply"
      <4>1. q \in replies
        BY <1>4, <2>2, <3>1 DEF AnswerGetBlock
      <4>2. PICK b \in answers : q \in Publish(n, [kind |-> "BlockReply", block |-> b])
        BY <4>1
      <4> QED
        BY <4>2, PublishCarries
    <3>2. UNCHANGED <<chainVars, minerVars, linkVars>>
      BY <1>4, <2>2 DEF AnswerGetBlock
    <3>3. Indexed(n) \subseteq stored[n]
      BY DEF Databases, Indexed
    <3>4. Sends
      BY <3>1, <3>2, <3>3 DEF Sends, chainVars
    <3>5. \A m \in Nodes : Rested(m)
      BY <3>2, SameGrinding DEF minerVars, linkVars
    <3> QED
      BY <3>2, <3>4, <3>5 DEF Quiet, Tasks, minerVars
  <2> QED
    BY <2>1, <2>2
<1> QED
  BY <1>1, <1>2, <1>3, <1>4 DEF Handle

LEMMA MiningSteps ==
    ASSUME TypeOK, NEW n \in Nodes,
           \/ MiningTick(n) \/ StartMining(n) \/ FailJob(n)
           \/ \E b \in Blocks \ {Genesis} : FindBlock(n, b)
    PROVE  Quiet \/ \E b \in Blocks : Finds(n, b)
<1>0. \A m \in Nodes : Rested(m)
  BY SameGrinding DEF MiningTick, StartMining, FailJob, FindBlock, linkVars
<1>1. CASE MiningTick(n) \/ FailJob(n)
  BY <1>0, <1>1 DEF MiningTick, FailJob, Quiet, Sends, Tasks, TypeOK
<1>2. CASE StartMining(n)
  <2>1. Sends
    BY <1>2, RequestAsks DEF StartMining, Sends
  <2> QED
    BY <1>0, <1>2, <2>1 DEF StartMining, Quiet, Tasks, TypeOK
<1>3. ASSUME NEW b \in Blocks \ {Genesis}, FindBlock(n, b)
      PROVE  Finds(n, b)
  <2>1. FoundBy(n, b) /\ OnlyStops(n)
    BY <1>3 DEF FindBlock, Solves, FoundBy, OnlyStops, TypeOK
  <2>2. CASE Accepts(n, b)
    <3>1. Extend(n, b) /\ b \in stored'[n]
      BY <1>3, <2>2 DEF FindBlock, Extend, TypeOK
    <3>2. \A p \in net' : \/ p \in net
                         \/ p \in Publish(n, [kind |-> "Block", block |-> b])
                         \/ p \in Request(n, b)
      BY <1>3, <2>2 DEF FindBlock
    <3>3. Sends
      BY <3>1, <3>2, RequestAsks, PublishCarries DEF Sends
    <3> QED
      BY <1>0, <2>1, <2>2, <3>1, <3>3 DEF Finds
  <2>3. CASE ~Accepts(n, b)
    BY <1>0, <1>3, <2>1, <2>3 DEF FindBlock, Finds, Sends
  <2> QED
    BY <2>2, <2>3
<1> QED
  BY <1>1, <1>2, <1>3

LEMMA OtherSteps ==
    ASSUME TypeOK, NEW n \in Nodes,
           \/ StatusTick(n) \/ PeerSearch(n) \/ Connect(n) \/ GrinderEnds(n)
           \/ Toggle(n) \/ Disconnect(n) \/ Stop(n) \/ Restart(n)
    PROVE  Quiet
<1>1. CASE StatusTick(n) \/ PeerSearch(n) \/ Connect(n) \/ Toggle(n) \/ Disconnect(n)
  <2>1. \A m \in Nodes : Rested(m)
    BY <1>1, SameGrinding DEF StatusTick, PeerSearch, Connect, Toggle, Disconnect,
                              linkVars, minerVars
  <2>2. \A p \in net' : p \in net \/ ~Carried(p)
    BY <1>1, RequestAsks DEF StatusTick, PeerSearch, Connect, Toggle, Disconnect, Carried
  <2> QED
    BY <1>1, <2>1, <2>2 DEF StatusTick, PeerSearch, Connect, Toggle, Disconnect, Quiet,
                            Sends, Tasks, minerVars
<1>2. CASE GrinderEnds(n)
  <2>1. ASSUME NEW m \in Nodes
        PROVE  Rested(m)
    <3>1. grinding'[m] \in Nat /\ grinding[m] \in Nat /\ grinding'[m] <= grinding[m]
      BY <1>2 DEF GrinderEnds, TypeOK
    <3> QED
      BY <1>2, <3>1 DEF GrinderEnds, linkVars, Rested, Slack
  <2> QED
    BY <1>2, <2>1 DEF GrinderEnds, Quiet, Sends, Tasks
<1>3. CASE Stop(n)
  BY <1>3, EndsQuietly, KillRests DEF Stop, Kill, Quiet
<1>4. CASE Restart(n)
  <2>1. Rested(n)
    BY <1>4 DEF Restart, Rested, minerVars
  <2>2. ASSUME NEW m \in Nodes, m # n
        PROVE  Rested(m)
    BY <1>4, <2>2, SameGrinding DEF Restart, minerVars
  <2> QED
    BY <1>4, <2>1, <2>2 DEF Restart, Quiet, Sends, Tasks, minerVars
<1> QED
  BY <1>1, <1>2, <1>3, <1>4

LEMMA StopSteps ==
    ASSUME TypeOK, NEW n \in Nodes,
           \/ \E p \in net : StopInAccept(n, p)
           \/ \E b \in Blocks \ {Genesis} : StopInFind(n, b)
    PROVE  \E b \in Blocks : Takes(n, b) \/ Finds(n, b) \/ Cuts(n, b)
<1>1. ASSUME NEW p \in net, StopInAccept(n, p)
      PROVE  \E b \in Blocks : Takes(n, b) \/ Cuts(n, b)
  <2> DEFINE b == p.msg.block
  <2>1. b \in Blocks /\ Comes(b)
    BY <1>1, CarriedBlock DEF StopInAccept, Carried, Comes
  <2>2. Sends /\ OnlyStops(n) /\ \A m \in Nodes : Rested(m)
    BY <1>1, EndsQuietly, KillRests DEF StopInAccept, Kill
  <2> QED
    BY <1>1, <2>1, <2>2 DEF StopInAccept, Takes, Cuts
<1>2. ASSUME NEW b \in Blocks \ {Genesis}, StopInFind(n, b)
      PROVE  Finds(n, b) \/ Cuts(n, b)
  <2>1. FoundBy(n, b)
    BY <1>2 DEF StopInFind, Solves, FoundBy
  <2>2. Sends /\ OnlyStops(n) /\ \A m \in Nodes : Rested(m)
    BY <1>2, EndsQuietly, KillRests DEF StopInFind, Kill
  <2> QED
    BY <1>2, <2>1, <2>2 DEF StopInFind, Finds, Cuts
<1> QED
  BY <1>1, <1>2

LEMMA StepCases ==
    ASSUME TypeOK, Databases, [Next]_vars
    PROVE  Quiet \/ \E n \in Nodes, b \in Blocks : Takes(n, b) \/ Finds(n, b) \/ Cuts(n, b)
<1>1. ASSUME net' \subseteq net, UNCHANGED <<chainVars, alive, task, grinding, found>>
      PROVE  Quiet
  <2>1. \A m \in Nodes : Rested(m)
    BY <1>1, SameGrinding
  <2> QED
    BY <1>1, <2>1 DEF Quiet, Sends, Tasks
<1>2. ASSUME NEW p \in net, Lose(p)
      PROVE  Quiet
  BY <1>1, <1>2 DEF Lose, minerVars, linkVars
<1>3. CASE UNCHANGED vars
  BY <1>1, <1>3 DEF vars, chainVars
<1> QED
  BY <1>2, <1>3, HandleSteps, MiningSteps, OtherSteps, StopSteps DEF Next

-----------------------------------------------------------------------------
(* The invariant.                                                          *)

\* A block applied after s extends what s follows.
LEMMA FollowsGrows ==
    ASSUME NEW s \in Seq(Blocks), NEW S, NEW b \in Blocks, Follows(s, S),
           Body[b].height = Len(s), Applies(UtxoAfter(s), b)
    PROVE  Follows(Append(s, b), S \cup {b})
<1> DEFINE t == Append(s, b)
<1>1. /\ Len(s) \in Nat /\ Len(t) = Len(s) + 1 /\ t[Len(s) + 1] = b
      /\ \A i \in 1..Len(s) : t[i] = s[i]
  OBVIOUS
<1> HIDE DEF t
<1>2. ASSUME NEW i \in 1..Len(t)
      PROVE  t[i] \in S \cup {b} /\ Body[t[i]].height = i - 1 /\ Applies(UtxoAfter(Before(t, i)), t[i])
  <2>1. i \in 1..Len(s) + 1
    BY <1>1
  <2>2. Before(t, i) = Before(s, i)
    <3>1. \A k \in 1..i - 1 : t[k] = s[k]
      BY <1>1, <2>1
    <3> QED
      BY <3>1 DEF Before
  <2>3. CASE i \in 1..Len(s)
    BY <1>1, <2>2, <2>3 DEF Follows
  <2>4. CASE i = Len(s) + 1
    <3>1. Before(s, i) = s
      <4>1. 1..i - 1 = 1..Len(s)
        BY <1>1, <2>4
      <4>2. s = [k \in 1..Len(s) |-> s[k]]
        OBVIOUS
      <4> QED
        BY <4>1, <4>2 DEF Before
    <3>2. t[i] = b /\ i - 1 = Len(s)
      BY <1>1, <2>4
    <3> QED
      BY <2>2, <3>1, <3>2
  <2> QED
    BY <1>1, <2>1, <2>3, <2>4
<1> QED
  BY <1>2 DEF Follows, t

LEMMA FirstFollows ==
    /\ Follows(<<>>, {})
    /\ Follows(<<Genesis>>, {Genesis})
<1>1. Follows(<<>>, {})
  BY DEF Follows
<1>2. Body[Genesis].height = 0 /\ Applies(UtxoAfter(<<>>), Genesis) /\ Genesis \in Blocks
  BY GenesisAssumption, BlockAssumption DEF Connects
<1>3. Follows(Append(<<>>, Genesis), {} \cup {Genesis})
  <2>1. <<>> \in Seq(Blocks) /\ Len(<<>>) = 0
    OBVIOUS
  <2> QED
    BY <1>1, <1>2, <2>1, FollowsGrows
<1>4. Append(<<>>, Genesis) = <<Genesis>> /\ {} \cup {Genesis} = {Genesis}
  OBVIOUS
<1> QED
  BY <1>1, <1>3, <1>4

LEMMA InitNet == Init => NetInv
<1> SUFFICES ASSUME Init PROVE NetInv
  OBVIOUS
<1>1. Chains
  BY EmptyChain, GenesisChain DEF Init, Chains
<1>2. LeftoversBounded
  <2>1. ASSUME NEW n \in Nodes
        PROVE  grinding[n] <= Cardinality(Foreign(n)) + (IF n \in alive THEN 0 ELSE 1)
    <3>1. Foreign(n) \in SUBSET Blocks
      BY InitTypes DEF TypeOK, Foreign
    <3>2. Cardinality(Foreign(n)) \in Nat
      BY <3>1, FiniteAssumption, FS_Subset, FS_CardinalityType
    <3>3. grinding[n] = 0 /\ n \in alive
      BY DEF Init
    <3> QED
      BY <3>2, <3>3
  <2> QED
    BY <2>1 DEF LeftoversBounded
<1>3. MinesOnTip /\ MinersFound /\ PacketsKnown
  BY DEF Init, MinesOnTip, MinersFound, PacketsKnown
<1>4. Databases
  BY DEF Init, Databases
<1>5. CoinsFollow
  <2>1. ASSUME NEW n \in Nodes
        PROVE  /\ Len(coins[n]) >= NextHeight(tip[n])
               /\ stored[n] = chain[n] /\ Follows(coins[n], chain[n])
    <3>1. stored[n] = chain[n]
      BY DEF Init
    <3>2. CASE n \in Fresh
      <4>1. coins[n] = <<>> /\ tip[n] = NoBlock /\ chain[n] = {}
        BY <3>2 DEF Init
      <4>2. Len(coins[n]) = 0 /\ NextHeight(tip[n]) = 0
        BY <4>1 DEF NextHeight
      <4> QED
        BY <3>1, <4>1, <4>2, FirstFollows
    <3>3. CASE n \notin Fresh
      <4>1. coins[n] = <<Genesis>> /\ tip[n] = Genesis /\ chain[n] = {Genesis}
        BY <3>3 DEF Init
      <4>2. Body[Genesis].height = 0 /\ Genesis # NoBlock
        BY GenesisAssumption, BlockAssumption DEF Connects
      <4>3. Len(coins[n]) = 1 /\ NextHeight(tip[n]) = 1
        BY <4>1, <4>2 DEF NextHeight
      <4> QED
        BY <3>1, <4>1, <4>3, FirstFollows
    <3> QED
      BY <3>2, <3>3
  <2> QED
    BY <2>1 DEF CoinsFollow
<1> QED
  BY <1>1, <1>2, <1>3, <1>4, <1>5, InitTypes DEF NetInv

LEMMA ChainsKept ==
    ASSUME TypeOK, Chains, NEW n \in Nodes, NEW b \in Blocks, Accepts(n, b), Extend(n, b)
    PROVE  Chains'
<1>1. chain[n] \in SUBSET Blocks /\ tip[n] \in Blocks \cup {NoBlock}
  BY DEF TypeOK
<1>2. IsChain(chain[n] \cup {b}, b)
  BY <1>1, ChainGrows DEF Chains, Accepts
<1>3. /\ chain'[n] = chain[n] \cup {b} /\ tip'[n] = b
      /\ \A m \in Nodes \ {n} : chain'[m] = chain[m] /\ tip'[m] = tip[m]
  BY ExtendGrows
<1>4. ASSUME NEW m \in Nodes
      PROVE  IsChain(chain'[m], tip'[m])
  BY <1>2, <1>3, Zenon DEF Chains
<1> QED
  BY <1>4 DEF Chains

\* The databases of node n take in block b, which its finder stores.
LEMMA DatabasesKept ==
    ASSUME TypeOK, Databases, NEW n \in Nodes, NEW b \in Blocks, found \subseteq found',
           \A m \in Nodes \ {n} : /\ chain'[m] = chain[m] /\ stored'[m] = stored[m]
                                 /\ served'[m] = served[m],
           stored'[n] \in {stored[n], stored[n] \cup {b}},
           chain'[n] \subseteq stored'[n], served'[n] \in stored'[n] \cup {NoBlock},
           b \in stored'[n] =>
               b \in found' \cup {Genesis} /\ (b # Genesis => b \in stored'[Finder[b]])
    PROVE  Databases'
<1>1. \A m \in Nodes : /\ stored[m] \subseteq stored'[m]
                      /\ stored'[m] \subseteq stored[m] \cup {b}
                      /\ b \in stored'[m] => b \in stored[m] \/ b \in stored'[n]
  OBVIOUS
<1>2. ASSUME NEW m \in Nodes, NEW d \in stored'[m], d # Genesis
      PROVE  d \in stored'[Finder[d]]
  <2>1. CASE d \in stored[m]
    <3>1. d \in stored[Finder[d]] /\ d \in Blocks
      BY <1>2, <2>1 DEF Databases, TypeOK
    <3>2. Finder[d] \in Nodes
      BY <1>2, <3>1, NetAssumption
    <3> QED
      BY <1>1, <3>1, <3>2
  <2>2. CASE d \notin stored[m]
    BY <1>1, <1>2, <2>2
  <2> QED
    BY <2>1, <2>2
<1>3. ASSUME NEW m \in Nodes
      PROVE  /\ chain'[m] \subseteq stored'[m]
             /\ served'[m] \in stored'[m] \cup {NoBlock}
             /\ m \notin Fresh => Genesis \in stored'[m]
             /\ stored'[m] \subseteq found' \cup {Genesis}
  <2>1. CASE m = n
    BY <1>1, <2>1 DEF Databases
  <2>2. CASE m # n
    BY <2>2 DEF Databases
  <2> QED
    BY <2>1, <2>2
<1> QED
  BY <1>2, <1>3 DEF Databases

LEMMA PacketsKept ==
    ASSUME PacketsKnown, Sends, \A m \in Nodes : stored[m] \subseteq stored'[m]
    PROVE  PacketsKnown'
  BY DEF PacketsKnown, Sends, Carried

\* A block on its way is stored by the node that found it.
LEMMA ComesFromFinder ==
    ASSUME TypeOK, Databases, PacketsKnown, NEW b, Comes(b)
    PROVE  b \in found \cup {Genesis} /\ (b # Genesis => b \in stored[Finder[b]])
  BY DEF Comes, PacketsKnown, Databases

\* What goes into the UTXO set.
LEMMA CoinsKept ==
    ASSUME NetInv, TypeOK', NEW n \in Nodes, NEW b \in Blocks, Accepts(n, b),
           Extend(n, b) \/ ExtendPartly(n, b)
    PROVE  CoinsFollow'
<1>1. ASSUME NEW m \in Nodes, m # n
      PROVE  coins'[m] = coins[m] /\ tip'[m] = tip[m] /\ stored'[m] = stored[m] /\ chain'[m] = chain[m]
  BY <1>1, ExtendGrows, ExtendPartlyGrows DEF NetInv
<1>2. /\ coins'[n] = Append(coins[n], b) /\ coins[n] \in Seq(Blocks)
      /\ tip[n] \in Blocks \cup {NoBlock} /\ NextHeight(tip[n]) \in Nat
      /\ Len(coins[n]) \in Nat /\ Len(coins'[n]) = Len(coins[n]) + 1
  <2>1. coins'[n] = Append(coins[n], b)
    BY ExtendGrows, ExtendPartlyGrows DEF NetInv
  <2>2. coins[n] \in Seq(Blocks) /\ tip[n] \in Blocks \cup {NoBlock}
    BY DEF NetInv, TypeOK
  <2> QED
    BY <2>1, <2>2, NextHeightType
<1>3. CASE Extend(n, b)
  <2>1. /\ tip'[n] = b /\ chain'[n] = chain[n] \cup {b} /\ stored'[n] = stored[n] \cup {b}
        /\ Body[b].height = NextHeight(tip[n]) /\ NextHeight(b) = NextHeight(tip[n]) + 1
    BY <1>2, <1>3, ExtendGrows, ConnectsAbove DEF NetInv, Accepts
  <2>2. Len(coins'[n]) >= NextHeight(tip'[n])
    BY <1>2, <2>1 DEF NetInv, CoinsFollow
  <2>3. ASSUME Len(coins'[n]) = NextHeight(tip'[n])
        PROVE  stored'[n] = chain'[n] /\ Follows(coins'[n], chain'[n])
    <3>1. Len(coins[n]) = NextHeight(tip[n])
      BY <1>2, <2>1, <2>3
    <3>2. stored[n] = chain[n] /\ Follows(coins[n], chain[n])
      BY <3>1 DEF NetInv, CoinsFollow, Torn
    <3>3. Follows(Append(coins[n], b), chain[n] \cup {b})
      BY <1>2, <2>1, <3>1, <3>2, FollowsGrows DEF Accepts
    <3> QED
      BY <1>2, <2>1, <3>2, <3>3
  <2> QED
    BY <1>1, <2>2, <2>3 DEF NetInv, CoinsFollow, Torn
<1>4. CASE ExtendPartly(n, b)
  <2>1. tip'[n] = tip[n]
    BY <1>4 DEF ExtendPartly
  <2>2. Len(coins[n]) >= NextHeight(tip[n])
    BY DEF NetInv, CoinsFollow
  <2>3. Len(coins'[n]) > NextHeight(tip'[n]) /\ Len(coins'[n]) \in Nat /\ NextHeight(tip'[n]) \in Nat
    BY <1>2, <2>1, <2>2
  <2>4. Len(coins'[n]) >= NextHeight(tip'[n]) /\ Len(coins'[n]) # NextHeight(tip'[n])
    BY <2>3
  <2> QED
    BY <1>1, <2>4 DEF NetInv, CoinsFollow, Torn
<1> QED
  BY <1>3, <1>4

\* Leftovers only go down, and chains only grow.
LEMMA LeftoversKept ==
    ASSUME NetInv, TypeOK', NEW m \in Nodes, Rested(m), chain[m] \subseteq chain'[m]
    PROVE  grinding'[m] <= Cardinality(Foreign(m)') + Slack(m)'
<1>1. Foreign(m) \subseteq Foreign(m)' /\ Foreign(m)' \in SUBSET Blocks
  BY DEF Foreign, TypeOK
<1>2. /\ Cardinality(Foreign(m)) \in Nat /\ Cardinality(Foreign(m)') \in Nat
      /\ Cardinality(Foreign(m)) <= Cardinality(Foreign(m)')
  BY <1>1, FiniteAssumption, FS_Subset, FS_CardinalityType
<1>3. /\ grinding[m] \in Nat /\ grinding'[m] \in Nat
      /\ Slack(m) \in {0, 1} /\ Slack(m)' \in {0, 1}
      /\ grinding[m] <= Cardinality(Foreign(m)) + Slack(m)
  BY DEF NetInv, TypeOK, LeftoversBounded, Slack
<1> QED
  BY <1>2, <1>3 DEF Rested

LEMMA LeftoversTogether ==
    ASSUME \A m \in Nodes : grinding'[m] <= Cardinality(Foreign(m)') + Slack(m)'
    PROVE  LeftoversBounded'
  BY DEF LeftoversBounded, Slack

LEMMA QuietKeeps == NetInv /\ TypeOK' /\ Quiet => NetInv'
<1> SUFFICES ASSUME NetInv, TypeOK', Quiet PROVE NetInv'
  OBVIOUS
<1> USE DEF NetInv, Quiet, chainVars
<1>1. Chains'
  BY DEF Chains
<1>2. Databases'
  BY DEF Databases
<1>3. MinesOnTip' /\ MinersFound'
  BY DEF MinesOnTip, MinersFound, Tasks
<1>4. PacketsKnown'
  BY PacketsKept
<1>5. CoinsFollow'
  BY DEF CoinsFollow, Torn
<1>6. LeftoversBounded'
  BY LeftoversKept, LeftoversTogether
<1> QED
  BY <1>1, <1>2, <1>3, <1>4, <1>5, <1>6

LEMMA TakesKeeps ==
    ASSUME NetInv, TypeOK', NEW n \in Nodes, NEW b \in Blocks, Takes(n, b)
    PROVE  NetInv'
<1> USE DEF NetInv, Takes
<1>1. Chains' /\ CoinsFollow'
  BY ChainsKept, CoinsKept
<1>2. /\ chain'[n] = chain[n] \cup {b} /\ tip'[n] = b
      /\ stored'[n] = stored[n] \cup {b} /\ served'[n] = NoBlock
      /\ \A m \in Nodes \ {n} : /\ chain'[m] = chain[m] /\ tip'[m] = tip[m]
                               /\ stored'[m] = stored[m] /\ served'[m] = served[m]
  BY ExtendGrows
<1>3. /\ \A m \in Nodes : chain[m] \subseteq chain'[m]
      /\ \A m \in Nodes : stored[m] \subseteq stored'[m]
  BY <1>2
<1>4. b \in found \cup {Genesis} /\ (b # Genesis => b \in stored[Finder[b]])
  BY ComesFromFinder
<1>5. b # Genesis => Finder[b] \in Nodes
  BY NetAssumption
<1>6. Databases'
  <2>1. chain'[n] \subseteq stored'[n]
    BY <1>2 DEF Databases
  <2>2. b # Genesis => b \in stored'[Finder[b]]
    BY <1>3, <1>4, <1>5
  <2> QED
    BY <1>2, <1>4, <2>1, <2>2, DatabasesKept
<1>7. MinesOnTip' /\ MinersFound'
  BY <1>2 DEF MinesOnTip, MinersFound, OnlyStops
<1>8. PacketsKnown'
  BY <1>3, PacketsKept
<1>9. b \notin chain[n] /\ b \in Foreign(n)'
  <2>1. b \notin stored[n] /\ chain[n] \subseteq stored[n]
    BY DEF Accepts, Databases
  <2>2. CASE b = Genesis
    BY <1>2, <2>1, <2>2 DEF Foreign, Databases
  <2>3. CASE b # Genesis
    BY <1>2, <1>4, <2>1, <2>3 DEF Foreign
  <2> QED
    BY <2>1, <2>2, <2>3
<1>10. grinding'[n] <= Cardinality(Foreign(n)') + Slack(n)'
  <2>1. Foreign(n)' = Foreign(n) \cup {b} /\ b \notin Foreign(n)
    BY <1>2, <1>9 DEF Foreign
  <2>2. Foreign(n) \in SUBSET Blocks
    BY DEF Foreign, TypeOK
  <2>3. IsFiniteSet(Foreign(n))
    BY <2>2, FiniteAssumption, FS_Subset
  <2>4. /\ Cardinality(Foreign(n)) \in Nat
        /\ Cardinality(Foreign(n)') = Cardinality(Foreign(n)) + 1
    BY <2>1, <2>3, FS_CardinalityType, FS_AddElement
  <2>5. /\ grinding[n] \in Nat /\ grinding'[n] \in Nat
        /\ Slack(n) \in {0, 1} /\ Slack(n)' \in {0, 1}
        /\ grinding[n] <= Cardinality(Foreign(n)) + Slack(n)
    BY DEF TypeOK, LeftoversBounded, Slack
  <2> QED
    BY <2>4, <2>5 DEF Rested
<1>11. LeftoversBounded'
  <2>1. \A m \in Nodes \ {n} : grinding'[m] <= Cardinality(Foreign(m)') + Slack(m)'
    BY <1>3, LeftoversKept
  <2> QED
    BY <1>10, <2>1, LeftoversTogether
<1> QED
  BY <1>1, <1>6, <1>7, <1>8, <1>11

LEMMA FindsKeeps ==
    ASSUME NetInv, TypeOK', NEW n \in Nodes, NEW b \in Blocks, Finds(n, b)
    PROVE  NetInv'
<1> USE DEF NetInv, Finds
<1>1. Chains' /\ CoinsFollow'
  <2>1. CASE UNCHANGED chainVars
    BY <2>1 DEF chainVars, Chains, CoinsFollow, Torn
  <2>2. CASE Accepts(n, b) /\ Extend(n, b)
    BY <2>2, ChainsKept, CoinsKept
  <2> QED
    BY <2>1, <2>2
<1>2. /\ \A m \in Nodes \ {n} : /\ chain'[m] = chain[m] /\ tip'[m] = tip[m]
                               /\ stored'[m] = stored[m] /\ served'[m] = served[m]
      /\ \/ chain'[n] = chain[n] /\ stored'[n] = stored[n] /\ served'[n] = served[n]
         \/ chain'[n] = chain[n] \cup {b} /\ stored'[n] = stored[n] \cup {b} /\ served'[n] = NoBlock
  BY ExtendGrows DEF chainVars
<1>3. /\ \A m \in Nodes : chain[m] \subseteq chain'[m]
      /\ \A m \in Nodes : stored[m] \subseteq stored'[m]
  BY <1>2
<1>4. found \subseteq found' /\ b \in found' /\ Finder[b] = n
  BY DEF FoundBy
<1>5. Databases'
  <2>1. /\ chain'[n] \subseteq stored'[n] /\ served'[n] \in stored'[n] \cup {NoBlock}
        /\ stored'[n] \in {stored[n], stored[n] \cup {b}}
    BY <1>2 DEF Databases
  <2> QED
    BY <1>2, <1>4, <2>1, DatabasesKept
<1>6. MinesOnTip' /\ MinersFound'
  BY <1>2 DEF MinesOnTip, MinersFound, OnlyStops, FoundBy
<1>7. PacketsKnown'
  BY <1>3, PacketsKept
<1>8. LeftoversBounded'
  BY <1>3, LeftoversKept, LeftoversTogether
<1> QED
  BY <1>1, <1>5, <1>6, <1>7, <1>8

LEMMA CutsKeeps ==
    ASSUME NetInv, TypeOK', NEW n \in Nodes, NEW b \in Blocks, Cuts(n, b)
    PROVE  NetInv'
<1> USE DEF NetInv, Cuts
<1>1. CoinsFollow'
  BY CoinsKept
<1>2. /\ chain' = chain /\ tip' = tip
      /\ stored'[n] = stored[n] \/ stored'[n] = stored[n] \cup {b}
      /\ served'[n] = served[n] \/ (served'[n] = b /\ b \in stored'[n])
      /\ \A m \in Nodes \ {n} : stored'[m] = stored[m] /\ served'[m] = served[m]
  BY ExtendPartlyGrows
<1>3. \A m \in Nodes : stored[m] \subseteq stored'[m]
  BY <1>2
<1>4. Chains'
  BY <1>2 DEF Chains
<1>5. b # Genesis => Finder[b] \in Nodes
  BY NetAssumption
<1>6. /\ found \subseteq found'
      /\ b \in stored'[n] =>
            b \in found' \cup {Genesis} /\ (b # Genesis => b \in stored'[Finder[b]])
  <2>1. CASE Comes(b) /\ UNCHANGED found
    BY <1>3, <1>5, <2>1, ComesFromFinder
  <2>2. CASE FoundBy(n, b)
    BY <2>2 DEF FoundBy
  <2> QED
    BY <2>1, <2>2
<1>7. Databases'
  <2>1. chain'[n] \subseteq stored'[n] /\ served'[n] \in stored'[n] \cup {NoBlock}
    BY <1>2, <1>3 DEF Databases
  <2> QED
    BY <1>2, <1>6, <2>1, DatabasesKept
<1>8. MinesOnTip' /\ MinersFound'
  BY <1>2 DEF MinesOnTip, MinersFound, OnlyStops, FoundBy
<1>9. PacketsKnown'
  BY <1>3, PacketsKept
<1>10. LeftoversBounded'
  BY <1>2, LeftoversKept, LeftoversTogether
<1> QED
  BY <1>1, <1>4, <1>7, <1>8, <1>9, <1>10

LEMMA StepNet == NetInv /\ [Next]_vars => NetInv'
<1> SUFFICES ASSUME NetInv, [Next]_vars PROVE NetInv'
  OBVIOUS
<1>1. TypeOK /\ TypeOK' /\ Databases
  BY StepTypes DEF NetInv
<1> QED
  BY <1>1, StepCases, QuietKeeps, TakesKeeps, FindsKeeps, CutsKeeps

LEMMA NetInvariant == Spec => []NetInv
  BY InitNet, StepNet, PTL DEF Spec

\* Whatever arrives, is lost or is killed, no task is below the tip of its node.
THEOREM MinersWorkOnTip == Spec => []MinesOnTip
<1>1. NetInv => MinesOnTip
  BY DEF NetInv
<1> QED
  BY <1>1, NetInvariant, PTL

\* Each grinder that goes on after abort_mining_task is paid for by a block that another
\* node found and that is on the chain now, but for the last one of an event loop that ended.
THEOREM LeftoversAreBounded == Spec => []LeftoversBounded
<1>1. NetInv => LeftoversBounded
  BY DEF NetInv
<1> QED
  BY <1>1, NetInvariant, PTL

\* Whatever the interleaving, a task that a block from the network aborts leaves a token:
\* only a miner has a task.
THEOREM MinerWakes == Spec => AbortWakes
<1> DEFINE Woken == \A n \in alive' : grinding'[n] > grinding[n] => wake'[n] > 0
<1>1. ASSUME TypeOK, MinersFound, [Next]_vars
      PROVE  [Woken]_vars
  <2> SUFFICES ASSUME NEW m \in alive', grinding'[m] > grinding[m]
               PROVE  wake'[m] > 0
    OBVIOUS
  <2>1. m \in Nodes /\ grinding[m] \in Nat /\ grinding'[m] \in Nat
    BY <1>1, StepTypes DEF TypeOK
  <2>2. ASSUME grinding'[m] <= grinding[m]
        PROVE  FALSE
    BY <2>1, <2>2
  <2>3. ASSUME NEW n \in Nodes, Ends(n), grinding'[m] = grinding[m] \/ n = m
        PROVE  FALSE
    BY <2>2, <2>1, <2>3 DEF Ends
  <2>4. ASSUME NEW n \in Nodes, Leave(n)
        PROVE  FALSE
    BY <1>1, <2>1, <2>3, <2>4 DEF Leave, TypeOK
  <2>5. ASSUME NEW n \in Nodes, Kill(n)
        PROVE  FALSE
    BY <1>1, <2>1, <2>3, <2>5 DEF Kill, TypeOK
  <2>6. ASSUME NEW n \in Nodes, NEW p \in net, Handle(n, p)
        PROVE  wake'[m] > 0
    <3>1. CASE AcceptFromNetwork(n, p) /\ Peers(n) # {}
      <4>1. AbortTask(n) /\ TryWake(n)
        BY <3>1 DEF AcceptFromNetwork
      <4>2. m = n
        BY <1>1, <2>1, <2>2, <4>1 DEF AbortTask, TypeOK
      <4>3. task[n] # NoTask
        BY <2>2, <4>1, <4>2, <2>1 DEF AbortTask
      <4>4. n \in Payout
        BY <1>1, <4>3 DEF MinersFound
      <4> QED
        BY <1>1, <4>1, <4>2, <4>4, NetAssumption DEF TryWake, TypeOK
    <3>2. CASE UNCHANGED grinding
      BY <2>1, <2>2, <3>2
    <3> QED
      BY <2>4, <2>6, <3>1, <3>2
         DEF Handle, AcceptFromNetwork, DropFromNetwork, EndOnReply, AnswerGetBlock, minerVars
  <2>7. ASSUME NEW n \in Nodes, GrinderEnds(n)
        PROVE  FALSE
    BY <1>1, <2>1, <2>2, <2>7 DEF GrinderEnds, TypeOK
  <2>8. ASSUME UNCHANGED grinding
        PROVE  FALSE
    BY <2>1, <2>2, <2>8
  <2>9. ASSUME NEW n \in Nodes,
               \/ StatusTick(n) \/ PeerSearch(n) \/ Connect(n) \/ MiningTick(n)
               \/ StartMining(n) \/ FailJob(n) \/ Toggle(n) \/ Disconnect(n) \/ Restart(n)
               \/ \E b \in Blocks \ {Genesis} : FindBlock(n, b)
        PROVE  FALSE
    BY <2>8, <2>9 DEF StatusTick, PeerSearch, Connect, MiningTick, StartMining, FailJob,
                      Toggle, Disconnect, Restart, FindBlock, minerVars
  <2>10. ASSUME NEW n \in Nodes,
                \/ Stop(n) \/ (\E p \in net : StopInAccept(n, p))
                \/ \E b \in Blocks \ {Genesis} : StopInFind(n, b)
         PROVE  FALSE
    BY <2>5, <2>10 DEF Stop, StopInAccept, StopInFind
  <2>11. ASSUME NEW p \in net, Lose(p)
         PROVE  FALSE
    BY <2>8, <2>11 DEF Lose, minerVars
  <2> QED
    BY <1>1, <2>6, <2>7, <2>8, <2>9, <2>10, <2>11 DEF Next, vars
<1>2. NetInv => TypeOK /\ MinersFound
  BY DEF NetInv
<1> QED
  BY <1>1, <1>2, NetInvariant, PTL DEF Spec, AbortWakes

-----------------------------------------------------------------------------
(* One miner.                                                              *)

OneMiner == \A n, m \in Payout : n = m

\* What OneMinerNoFork asks of the miners.
Whole == \A n \in Payout : stored[n] = chain[n]

\* The chain that all others are a part of: the miner's, if there is a miner.
LEMMA OneChainHoldsAll ==
    ASSUME NetInv, OneMiner, Whole
    PROVE  \E S, t : IsChain(S, t) /\ \A n \in Nodes : chain[n] \subseteq S \cup {Genesis}
<1>1. CASE Payout = {}
  <2>1. found = {}
    BY <1>1 DEF NetInv, MinersFound
  <2>2. \A n \in Nodes : chain[n] \subseteq {Genesis}
    BY <2>1 DEF NetInv, Databases
  <2> QED
    BY <2>2, EmptyChain
<1>2. CASE Payout # {}
  <2>1. PICK m \in Payout : m \in Nodes
    BY <1>2, NetAssumption
  <2>2. ASSUME NEW n \in Nodes, NEW b \in chain[n], b # Genesis
        PROVE  b \in chain[m]
    <3>1. b \in stored[n] /\ b \in found
      BY <2>2 DEF NetInv, Databases
    <3>2. Finder[b] = m /\ b \in stored[Finder[b]]
      BY <2>2, <3>1 DEF NetInv, Databases, MinersFound, OneMiner
    <3> QED
      BY <3>2 DEF Whole
  <2>3. \A n \in Nodes : chain[n] \subseteq chain[m] \cup {Genesis}
    BY <2>2
  <2> QED
    BY <2>1, <2>3 DEF NetInv, Chains
<1> QED
  BY <1>1, <1>2

LEMMA NoForkInNet ==
    ASSUME NetInv, OneMiner, Whole, NEW n \in Nodes, NEW p \in Nodes
    PROVE  chain[n] \subseteq chain[p] \/ chain[p] \subseteq chain[n]
<1>1. PICK S, t : IsChain(S, t) /\ \A m \in Nodes : chain[m] \subseteq S \cup {Genesis}
  BY OneChainHoldsAll
<1>2. \A m \in Nodes : /\ chain[m] \in SUBSET Blocks /\ tip[m] \in Blocks \cup {NoBlock}
                      /\ IsChain(chain[m], tip[m])
  BY DEF NetInv, TypeOK, Chains
<1> QED
  BY <1>1, <1>2, ChainsCompare

\* With one miner and any number of other nodes there is never a fork, through any
\* sequence of losses, restarts and disconnections, and of kills between the writes of a
\* block, as long as the miner's own index has all that it stored.
THEOREM OneMinerNeverForks ==
    ASSUME OneMiner
    PROVE  Spec => []OneMinerNoFork
<1>1. NetInv => OneMinerNoFork
  BY NoForkInNet DEF OneMinerNoFork, Whole
<1> QED
  BY <1>1, NetInvariant, PTL

-----------------------------------------------------------------------------
(* Two nodes.                                                              *)

TwoNodes == \A n, m, q \in Nodes : n = m \/ m = q \/ n = q

\* What a step puts on the network: a block found, a question for the block above the
\* asker's tip, or the answer to a question, which does not go back to the node itself.
Sent(p) ==
    \/ p.msg.kind = "Block"
    \/ /\ p.msg.kind = "GetBlock"
       /\ \E n \in Nodes \ {p.to} : p.msg.height = NextHeight(tip'[n])
    \/ /\ p.msg.kind = "BlockReply"
       /\ \E g \in net : /\ g.msg.kind = "GetBlock" /\ g.to # p.to
                         /\ g.msg.height = Body[p.msg.block].height

LEMMA RequestIsSent ==
    ASSUME TypeOK, NEW n \in Nodes, NEW t, tip'[n] = t, NEW p \in Request(n, t)
    PROVE  Sent(p)
<1>1. p.to # n
  BY DEF Request, Publish, Peers
<1> QED
  BY <1>1, RequestAsks DEF Sent

LEMMA EndsSends ==
    ASSUME NEW n, Ends(n)
    PROVE  net' \subseteq net
  BY DEF Ends

LEMMA HandleSends ==
    ASSUME TypeOK, NEW n \in Nodes, NEW g \in net, Handle(n, g), NEW p \in net' \ net
    PROVE  Sent(p)
<1>0. ASSUME Leave(n)
      PROVE  FALSE
  BY <1>0, EndsSends DEF Leave
<1>1. CASE AcceptFromNetwork(n, g)
  <2> DEFINE b == g.msg.block
  <2>1. b \in Blocks /\ Extend(n, b)
    BY <1>1, CarriedBlock DEF AcceptFromNetwork, Carried
  <2>2. tip'[n] = b
    BY <2>1, ExtendGrows
  <2>3. p \in Request(n, b)
    BY <1>0, <1>1 DEF AcceptFromNetwork
  <2> QED
    BY <2>2, <2>3, RequestIsSent
<1>2. CASE DropFromNetwork(n, g) \/ EndOnReply(n, g)
  BY <1>0, <1>2 DEF DropFromNetwork, EndOnReply
<1>3. CASE AnswerGetBlock(n, g)
  <2> DEFINE answers == {b \in Indexed(n) : Body[b].height = g.msg.height}
             stops == answers # {} /\ (Peers(n) = {} \/ answers \cap TooLarge # {})
             replies == UNION {Publish(n, [kind |-> "BlockReply", block |-> b]) : b \in answers}
  <2>1. net' \subseteq net \cup replies /\ g.to = n
    BY <1>0, <1>3 DEF AnswerGetBlock, Handle
  <2>2. PICK b \in answers : p \in Publish(n, [kind |-> "BlockReply", block |-> b])
    BY <2>1
  <2>3. p.to # n /\ p.msg.kind = "BlockReply" /\ p.msg.block = b
    BY <2>2 DEF Publish, Peers
  <2> QED
    BY <1>3, <2>1, <2>2, <2>3 DEF Sent, AnswerGetBlock
<1> QED
  BY <1>1, <1>2, <1>3 DEF Handle

LEMMA StepSends ==
    ASSUME TypeOK, [Next]_vars, NEW p \in net' \ net
    PROVE  Sent(p)
<1>1. ASSUME NEW n \in Nodes, StatusTick(n) \/ PeerSearch(n) \/ StartMining(n)
      PROVE  Sent(p)
  <2>1. p \in Request(n, tip[n]) /\ tip' = tip
    BY <1>1 DEF StatusTick, PeerSearch, StartMining, chainVars
  <2> QED
    BY <2>1, RequestIsSent
<1>2. ASSUME NEW n \in Nodes, Connect(n)
      PROVE  Sent(p)
  <2>1. n \notin online /\ online \subseteq Nodes /\ tip' = tip
    BY <1>2 DEF Connect, chainVars, TypeOK
  <2>2. \E q \in online :
           \/ p = [to |-> q, msg |-> [kind |-> "GetBlock", height |-> NextHeight(tip[n])]]
           \/ p = [to |-> n, msg |-> [kind |-> "GetBlock", height |-> NextHeight(tip[q])]]
    BY <1>2 DEF Connect
  <2> QED
    BY <2>1, <2>2 DEF Sent
<1>3. ASSUME NEW n \in Nodes, NEW b \in Blocks \ {Genesis}, FindBlock(n, b)
      PROVE  Sent(p)
  <2>1. Extend(n, b) /\ p \in Publish(n, [kind |-> "Block", block |-> b]) \cup Request(n, b)
    BY <1>3 DEF FindBlock
  <2>2. tip'[n] = b
    BY <2>1, ExtendGrows
  <2> QED
    BY <2>1, <2>2, PublishCarries, RequestIsSent DEF Sent
<1>4. ASSUME net' \subseteq net
      PROVE  FALSE
  BY <1>4
<1>5. ASSUME NEW n \in Nodes,
             \/ MiningTick(n) \/ FailJob(n) \/ GrinderEnds(n) \/ Toggle(n)
             \/ Disconnect(n) \/ Restart(n)
      PROVE  FALSE
  BY <1>4, <1>5 DEF MiningTick, FailJob, GrinderEnds, Toggle, Disconnect, Restart
<1>6. ASSUME NEW n \in Nodes,
             \/ Stop(n)
             \/ \E q \in net : StopInAccept(n, q)
             \/ \E b \in Blocks \ {Genesis} : StopInFind(n, b)
      PROVE  FALSE
  BY <1>4, <1>6, EndsSends DEF Stop, StopInAccept, StopInFind, Kill
<1>7. ASSUME NEW q \in net, Lose(q)
      PROVE  FALSE
  BY <1>4, <1>7 DEF Lose
<1> QED
  BY <1>1, <1>2, <1>3, <1>4, <1>5, <1>6, <1>7, HandleSends DEF Next, vars

\* Tips only go up.
LEMMA TipsRise ==
    ASSUME NetInv, [Next]_vars, NEW q \in Nodes
    PROVE  /\ NextHeight(tip[q]) \in Nat /\ NextHeight(tip'[q]) \in Nat
           /\ NextHeight(tip[q]) <= NextHeight(tip'[q])
<1>1. TypeOK /\ TypeOK'
  BY StepTypes DEF NetInv
<1>2. NextHeight(tip[q]) \in Nat /\ NextHeight(tip'[q]) \in Nat
  BY <1>1, NextHeightType DEF TypeOK
<1>3. CASE tip'[q] = tip[q]
  BY <1>2, <1>3
<1>4. ASSUME NEW n \in Nodes, NEW b \in Blocks, Accepts(n, b), Extend(n, b)
      PROVE  NextHeight(tip[q]) <= NextHeight(tip'[q])
  <2>1. CASE q = n
    <3>1. tip'[q] = b /\ tip[q] \in Blocks \cup {NoBlock} /\ Connects(tip[q], b)
      BY <1>1, <1>4, <2>1, ExtendGrows DEF Accepts, TypeOK
    <3>2. NextHeight(b) = NextHeight(tip[q]) + 1
      BY <3>1, ConnectsAbove
    <3> QED
      BY <1>2, <3>1, <3>2
  <2>2. CASE q # n
    <3>1. tip'[q] = tip[q]
      BY <1>1, <1>4, <2>2, ExtendGrows
    <3> QED
      BY <1>3, <3>1
  <2> QED
    BY <2>1, <2>2
<1>5. CASE Quiet
  BY <1>3, <1>5 DEF Quiet, chainVars
<1>6. ASSUME NEW n \in Nodes, NEW b \in Blocks, Takes(n, b) \/ Finds(n, b)
      PROVE  NextHeight(tip[q]) <= NextHeight(tip'[q])
  BY <1>3, <1>4, <1>6 DEF Takes, Finds, chainVars
<1>7. ASSUME NEW n \in Nodes, NEW b \in Blocks, Cuts(n, b)
      PROVE  NextHeight(tip[q]) <= NextHeight(tip'[q])
  BY <1>3, <1>7 DEF Cuts, ExtendPartly
<1> QED
  BY <1>1, <1>2, <1>5, <1>6, <1>7, StepCases DEF NetInv

LEMMA AskedKept ==
    ASSUME TwoNodes, NetInv, Asked, [Next]_vars
    PROVE  Asked'
<1>1. TypeOK /\ TypeOK'
  BY StepTypes DEF NetInv
<1>2. ASSUME NEW p \in net', p.msg.kind = "GetBlock", NEW q \in Nodes \ {p.to}
      PROVE  p.msg.height <= NextHeight(tip'[q])
  <2>1. p.to \in Nodes /\ p.msg \in Message
    BY <1>1 DEF TypeOK, Packet
  <2>2. p.msg.height \in Int
    BY <1>2, <2>1, BlockAssumption DEF Message
  <2>3. CASE p \in net
    BY <1>2, <2>2, <2>3, TipsRise DEF Asked
  <2>4. CASE p \notin net
    <3>1. PICK n \in Nodes \ {p.to} : p.msg.height = NextHeight(tip'[n])
      BY <1>1, <1>2, <2>4, StepSends DEF Sent
    <3>2. n = q
      BY <2>1, <3>1, <1>2 DEF TwoNodes
    <3> QED
      BY <3>1, <3>2, TipsRise
  <2> QED
    BY <2>3, <2>4
<1>3. ASSUME NEW p \in net', p.msg.kind = "BlockReply"
      PROVE  Body[p.msg.block].height <= NextHeight(tip'[p.to])
  <2>1. p.to \in Nodes /\ p.msg \in Message
    BY <1>1 DEF TypeOK, Packet
  <2>2. Body[p.msg.block].height \in Nat
    BY <1>3, <2>1, BodyFields DEF Message
  <2>3. Body[p.msg.block].height <= NextHeight(tip[p.to])
    <3>1. CASE p \in net
      BY <1>3, <3>1 DEF Asked
    <3>2. CASE p \notin net
      <4>1. PICK g \in net : /\ g.msg.kind = "GetBlock" /\ g.to # p.to
                             /\ g.msg.height = Body[p.msg.block].height
        BY <1>1, <1>3, <3>2, StepSends DEF Sent
      <4> QED
        BY <2>1, <4>1 DEF Asked
    <3> QED
      BY <3>1, <3>2
  <2> QED
    BY <2>1, <2>2, <2>3, TipsRise
<1> QED
  BY <1>2, <1>3 DEF Asked

NoneTorn == \A n \in Nodes : ~Torn(n)

\* Two nodes whose coins follow their chains: the longer one's are the shorter one's and
\* then the block at the height right above it, which can be applied to them.
LEMMA NextApplies ==
    ASSUME NetInv, NoneTorn, NEW n \in Nodes, NEW q \in Nodes, chain[n] \subseteq chain[q],
           NEW b \in chain[q], Body[b].height = NextHeight(tip[n])
    PROVE  Applies(UtxoAfter(coins[n]), b)
<1> DEFINE s == coins[n]
           r == coins[q]
           l == Len(s)
<1>1. /\ s \in Seq(Blocks) /\ r \in Seq(Blocks) /\ l \in Nat /\ Len(r) \in Nat
      /\ tip[n] \in Blocks \cup {NoBlock} /\ tip[q] \in Blocks \cup {NoBlock}
  BY DEF NetInv, TypeOK
<1>2. /\ l = NextHeight(tip[n]) /\ Len(r) = NextHeight(tip[q])
      /\ Follows(s, chain[n]) /\ Follows(r, chain[q]) /\ IsChain(chain[q], tip[q])
  BY DEF NetInv, NoneTorn, Torn, CoinsFollow, Chains
<1>3. Body[b].height = l /\ l < Len(r)
  BY <1>2 DEF IsChain
<1>4. l + 1 \in 1..Len(r)
  BY <1>1, <1>3
<1>5. r[l + 1] = b
  <2>1. r[l + 1] \in chain[q] /\ Body[r[l + 1]].height = (l + 1) - 1
    BY <1>2, <1>4 DEF Follows
  <2> QED
    BY <1>1, <1>2, <1>3, <2>1 DEF IsChain
<1>6. ASSUME NEW j \in 1..l
      PROVE  r[j] = s[j]
  <2>1. j \in 1..Len(r)
    BY <1>1, <1>3
  <2>2. s[j] \in chain[q] /\ Body[s[j]].height = j - 1
    BY <1>2 DEF Follows
  <2>3. r[j] \in chain[q] /\ Body[r[j]].height = j - 1
    BY <1>2, <2>1 DEF Follows
  <2> QED
    BY <1>2, <2>2, <2>3 DEF IsChain
<1>7. Before(r, l + 1) = s
  <2>1. (l + 1) - 1 = l
    BY <1>1
  <2>2. Before(r, l + 1) = [j \in 1..l |-> r[j]]
    BY <2>1 DEF Before
  <2>3. s = [j \in 1..l |-> s[j]]
    BY <1>1
  <2> QED
    BY <1>6, <2>2, <2>3
<1>8. Applies(UtxoAfter(Before(r, l + 1)), r[l + 1])
  BY <1>2, <1>4 DEF Follows
<1> QED
  BY <1>5, <1>7, <1>8

\* While no kill has fallen between the writes of a block, no reply is refused: the node
\* has the block, or it comes right above its tip and can be applied.
LEMMA RepliesFit ==
    ASSUME OneMiner, NetInv, Asked, NoneTorn, NEW p \in net, p.msg.kind = "BlockReply"
    PROVE  ~Refuses(p.to, p.msg.block)
<1> DEFINE n == p.to
           b == p.msg.block
<1>1. /\ n \in Nodes /\ b \in Blocks /\ Carried(p)
      /\ chain[n] \in SUBSET Blocks /\ tip[n] \in Blocks \cup {NoBlock}
  BY CarriedBlock DEF NetInv, TypeOK, Carried
<1>2. \A m \in Nodes : stored[m] = chain[m]
  BY DEF NetInv, NoneTorn, CoinsFollow
<1>3. SUFFICES ASSUME b \notin chain[n]
               PROVE  Connects(tip[n], b) /\ Applies(UtxoAfter(coins[n]), b)
  BY <1>1, <1>2 DEF Refuses
<1>4. PICK q \in Nodes : b \in chain[q]
  BY <1>1, <1>2 DEF NetInv, PacketsKnown
<1>5. /\ IsChain(chain[n], tip[n]) /\ IsChain(chain[q], tip[q])
      /\ chain[q] \in SUBSET Blocks /\ tip[q] \in Blocks \cup {NoBlock}
  BY <1>1 DEF NetInv, Chains, TypeOK
<1>6. Whole
  BY <1>2, NetAssumption DEF Whole
<1>7. chain[n] \subseteq chain[q]
  BY <1>1, <1>3, <1>4, <1>6, NoForkInNet
<1>8. PICK U, u : IsChain(U, u) /\ \A m \in Nodes : chain[m] \subseteq U \cup {Genesis}
  BY <1>6, OneChainHoldsAll
<1>9. ASSUME NEW d \in chain[q], Body[d].height < NextHeight(tip[n])
      PROVE  d \in chain[n]
  BY <1>1, <1>5, <1>8, <1>9, ShorterIsPart
<1>10. Body[b].height = NextHeight(tip[n])
  <2>1. Body[b].height <= NextHeight(tip[n])
    BY DEF Asked
  <2> QED
    BY <1>1, <1>3, <1>4, <1>9, <2>1, BodyFields, NextHeightType
<1>11. CASE b = Genesis
  <2>1. tip[n] = NoBlock
    BY <1>3, <1>5, <1>11 DEF IsChain
  <2> QED
    BY <1>1, <1>4, <1>7, <1>10, <1>11, <2>1, GenesisAssumption, NextApplies
<1>12. CASE b # Genesis
  <2> DEFINE d == Body[b].prev
  <2>1. d \in chain[q] /\ Body[b].height = Body[d].height + 1
    BY <1>4, <1>5, <1>12 DEF IsChain
  <2>2. Body[d].height \in Nat /\ NextHeight(tip[n]) \in Nat
    BY <1>1, <1>5, <2>1, BodyFields, NextHeightType
  <2>3. d \in chain[n]
    BY <1>9, <1>10, <2>1, <2>2
  <2>4. tip[n] # NoBlock /\ tip[n] \in chain[n]
    BY <1>5, <2>3 DEF IsChain
  <2>5. Body[tip[n]].height = Body[d].height
    BY <1>10, <2>1, <2>2, <2>4, BodyFields, <1>1 DEF NextHeight
  <2>6. d = tip[n]
    BY <1>5, <2>3, <2>4, <2>5 DEF IsChain
  <2> QED
    BY <1>1, <1>4, <1>7, <1>10, <2>1, <2>4, <2>5, <2>6, NextApplies DEF Connects
<1> QED
  BY <1>11, <1>12

\* A miner and one other node: until one of them is killed between the writes of a block,
\* neither is ever ended by a block the other one sent.
THEOREM PairEndsOnlyAlone ==
    ASSUME OneMiner, TwoNodes
    PROVE  Spec => EndsOnlyAlone
<1> DEFINE Alone == \A n \in alive \ alive' :
              \/ Peers(n) = {}
              \/ chain[n] \cap TooLarge # {}
              \/ \E q \in Nodes : Torn(q)
              \/ faults' # faults
<1>1. ASSUME NetInv, Asked, [Next]_vars
      PROVE  [Alone]_vars
  <2> SUFFICES ASSUME NEW m \in alive \ alive', Peers(m) # {}, chain[m] \cap TooLarge = {},
                      NoneTorn, faults' = faults
               PROVE  FALSE
    BY DEF NoneTorn
  <2>1. ASSUME NEW n \in Nodes, Leave(n)
        PROVE  m = n
    BY <2>1 DEF Leave, Ends
  <2>2. ASSUME alive \subseteq alive'
        PROVE  FALSE
    BY <2>2
  <2>3. ASSUME NEW n \in Nodes, NEW p \in net, Handle(n, p)
        PROVE  FALSE
    <3>1. CASE AcceptFromNetwork(n, p)
      BY <2>1, <2>2, <3>1 DEF AcceptFromNetwork, linkVars
    <3>2. CASE DropFromNetwork(n, p)
      BY <2>2, <3>2 DEF DropFromNetwork, linkVars
    <3>3. CASE EndOnReply(n, p)
      BY <1>1, <2>3, <3>3, RepliesFit DEF EndOnReply, Handle
    <3>4. CASE AnswerGetBlock(n, p)
      <4>1. Indexed(n) \subseteq chain[n]
        BY <1>1 DEF Indexed, NetInv, Databases, CoinsFollow, NoneTorn
      <4> QED
        BY <2>1, <2>2, <3>4, <4>1 DEF AnswerGetBlock, linkVars
    <3> QED
      BY <2>3, <3>1, <3>2, <3>3, <3>4 DEF Handle
  <2>4. faults \in Nat
    BY <1>1, NetAssumption DEF NetInv, TypeOK
  <2>5. ASSUME NEW n \in Nodes,
               \/ Toggle(n) \/ Disconnect(n) \/ Stop(n)
               \/ \E p \in net : StopInAccept(n, p)
               \/ \E b \in Blocks \ {Genesis} : StopInFind(n, b)
        PROVE  FALSE
    BY <2>4, <2>5 DEF Toggle, Disconnect, Stop, StopInAccept, StopInFind, Kill
  <2>6. ASSUME NEW n \in Nodes,
               \/ StatusTick(n) \/ PeerSearch(n) \/ Connect(n) \/ MiningTick(n)
               \/ StartMining(n) \/ FailJob(n) \/ GrinderEnds(n) \/ Restart(n)
        PROVE  FALSE
    BY <2>2, <2>6 DEF StatusTick, PeerSearch, Connect, MiningTick, StartMining, FailJob,
                      GrinderEnds, Restart, linkVars
  <2>7. ASSUME NEW n \in Nodes, NEW b \in Blocks \ {Genesis}, FindBlock(n, b)
        PROVE  FALSE
    BY <2>2, <2>7 DEF FindBlock, linkVars
  <2>8. ASSUME NEW p \in net, Lose(p)
        PROVE  FALSE
    BY <2>2, <2>8 DEF Lose, linkVars
  <2> QED
    BY <1>1, <2>2, <2>3, <2>5, <2>6, <2>7, <2>8 DEF Next, vars
<1>2. Init => Asked
  BY DEF Init, Asked
<1>3. NetInv /\ Asked /\ [Next]_vars => Asked'
  BY AskedKept
<1> QED
  BY <1>1, <1>2, <1>3, NetInvariant, PTL DEF Spec, EndsOnlyAlone

=============================================================================
