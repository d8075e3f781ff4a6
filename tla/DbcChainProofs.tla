--------------------------- MODULE DbcChainProofs ----------------------------
(***************************************************************************)
(* Proofs about DbcChain, faults included: the type invariant, and the     *)
(* invariants of the chain database and the orphan pool that hold at every *)
(* write of put_block and after any write error, kill or loss of power.    *)
(*                                                                         *)
(* ChainInv is the inductive invariant.  It adds to the properties what    *)
(* connects them: the block in hand extends the tip until it becomes the   *)
(* tip (JobExtends), the durable copy of the database is itself a linked   *)
(* chain, and the parent of an orphan is a stored block that is neither    *)
(* the tip nor the block in hand (OrphansBehind): as a stored block is     *)
(* never accepted again, that parent can never become the tip.             *)
(*                                                                         *)
(* Two parts follow on that invariant: the mempool's replacement rule      *)
(* (sums of fees), and the uncles, each of which is rewarded once.         *)
(***************************************************************************)
EXTENDS DbcChain, FiniteSetTheorems, TLAPS

\* The sums of the fees, and of the values they are made of.
ValueOf(c) == Value[c]
FeeSums == INSTANCE DbcSums WITH Val <- Fee
InputSums == INSTANCE DbcSums WITH Val <- ValueAt
Values == INSTANCE DbcSums WITH Val <- ValueOf

Db == [blocks |-> blocks, index |-> index, tip |-> tip]

\* Every entry of the height index names a stored block.
IndexStored(db) == \A h \in Heights : db.index[h] # NoBlock => db.index[h] \in db.blocks

\* The block in hand: connected to the tip, and stored as far as the writes went.
JobExtends ==
    /\ stage = "utxo" => job \notin blocks
    /\ stage \in {"block", "height", "tip"} => job \in blocks
    /\ stage \in {"utxo", "block", "height"} => Connects(tip, job)
    /\ stage \in {"height", "tip"} => index[Body[job].height] = job
    /\ stage = "tip" => tip = job

\* An orphan is not stored, and its parent is stored but can never become the tip.
OrphansBehind ==
    \A o \in orphans :
        /\ o \notin blocks
        /\ o # job
        /\ Body[o].prev \in blocks
        /\ Body[o].prev # tip
        /\ Body[o].prev # job

ChainInv ==
    /\ TypeOK
    /\ Linked(Db)
    /\ Linked(synced)
    /\ IndexStored(Db)
    /\ IndexStored(synced)
    /\ JobExtends
    /\ OrphansBehind

-----------------------------------------------------------------------------

\* The fields of a block's content have their types.
LEMMA BodyFields ==
    ASSUME NEW b \in Blocks
    PROVE  /\ Body[b].height \in Heights
           /\ Body[b].height \in Nat
           /\ Body[b].prev \in Blocks \cup {NoBlock}
           /\ Body[b].coinbase \in Txs
           /\ Body[b].txs \in Seq(Txs)
           /\ Regular(b) \subseteq Txs
<1>1. Body[b] \in BlockBody
  BY BlockAssumption
<1>2. /\ Body[b].height \in Heights
      /\ Body[b].prev \in Blocks \cup {NoBlock}
      /\ Body[b].coinbase \in Txs
      /\ Body[b].txs \in Seq(Txs)
  BY <1>1 DEF BlockBody
<1>3. Body[b].height \in Nat
  BY <1>2, BlockAssumption DEF Heights
<1>4. Regular(b) \subseteq Txs
  BY <1>2 DEF Regular, Range
<1> QED
  BY <1>2, <1>3, <1>4

\* Applying a block to a coin set gives a coin set.
LEMMA ApplyGivesUtxoSet ==
    ASSUME NEW b \in Blocks, NEW u \in UtxoSet
    PROVE  Apply(u, b) \in UtxoSet
<1>1. Body[b].height \in Heights
  BY BodyFields
<1>2. ASSUME NEW c \in Coins
      PROVE  Apply(u, b)[c] \in UtxoEntry \cup {Missing}
  BY <1>1 DEF Apply, NewEntry, UtxoSet, UtxoEntry
<1>3. Apply(u, b) = [c \in Coins |-> Apply(u, b)[c]]
  BY DEF Apply
<1> QED
  BY <1>2, <1>3 DEF UtxoSet

\* Blocks apply_block is called with are blocks.
LEMMA ReadyAreBlocks == TypeOK => Ready \subseteq Blocks
  BY DEF TypeOK, Ready, Candidates, Stages

-----------------------------------------------------------------------------
(* The type invariant.                                                     *)

\* Every step keeps the types.
LEMMA StepKeepsTypes == TypeOK /\ [Next]_vars => TypeOK'
<1> SUFFICES ASSUME TypeOK, [Next]_vars PROVE TypeOK'
  OBVIOUS
<1>0. /\ NoBlock \notin Blocks
      /\ MaxFaults \in Nat
  BY BlockAssumption, FaultAssumption
<1> USE DEF TypeOK, chainDb, Stages
<1>1. ASSUME NEW b \in Blocks, CommitUtxo(b) PROVE TypeOK'
  <2>1. utxo' \in UtxoSet
    BY <1>1, ApplyGivesUtxoSet DEF CommitUtxo
  <2> QED
    BY <1>0, <1>1, <2>1 DEF CommitUtxo
<1>2. CASE PutBlock
  BY <1>0, <1>2 DEF PutBlock
<1>3. CASE PutHeight
  <2>1. job \in Blocks
    BY <1>3 DEF PutHeight
  <2>2. index' \in [Heights -> Blocks \cup {NoBlock}]
    BY <1>3, <2>1 DEF PutHeight
  <2> QED
    BY <1>0, <1>3, <2>1, <2>2 DEF PutHeight
<1>4. CASE PutTip
  BY <1>0, <1>4 DEF PutTip
<1>5. CASE FinishAccept
  BY <1>0, <1>5 DEF FinishAccept
<1>6. ASSUME NEW b \in Blocks, AddOrphan(b) PROVE TypeOK'
  BY <1>0, <1>6 DEF AddOrphan
<1>7. ASSUME NEW t \in Offered, AddMempoolTx(t) PROVE TypeOK'
  BY <1>0, <1>7, OfferAssumption DEF AddMempoolTx
<1>8. CASE WriteError
  BY <1>0, <1>8 DEF WriteError
<1>9. CASE Kill
  BY <1>0, <1>9 DEF Kill, ForgetMemory
<1>10. CASE PowerLoss
  BY <1>0, <1>10 DEF PowerLoss, ForgetMemory, ChainDbType
<1>11. CASE WriteBack
  BY <1>0, <1>11 DEF WriteBack, ChainDbType
<1>12. CASE UNCHANGED vars
  BY <1>12 DEF vars
<1> QED
  BY <1>1, <1>2, <1>3, <1>4, <1>5, <1>6, <1>7, <1>8, <1>9, <1>10, <1>11, <1>12
     DEF Next, Operation, Fault

\* The initial state has the types.
LEMMA InitTypes == Init => TypeOK
<1>1. EmptyUtxo \in UtxoSet
  BY DEF EmptyUtxo, UtxoSet
<1>2. 0 \in 0..MaxFaults
  BY FaultAssumption
<1> QED
  BY <1>1, <1>2 DEF Init, TypeOK, ChainDbType, Stages

\* The variables of a node have their types in every state of every behaviour,
\* whatever faults occur (chain.rs ChainInner, chaindb.rs, utxo.rs).
THEOREM ChainTypes == Spec => []TypeOK
  BY InitTypes, StepKeepsTypes, PTL DEF Spec

-----------------------------------------------------------------------------
(* The chain database and the orphan pool.                                 *)

\* In process_orphans no orphan connects to the tip.
LEMMA NoCandidates ==
    ASSUME ChainInv
    PROVE  Candidates = {}
  BY DEF ChainInv, OrphansBehind, Candidates, Connects

\* So apply_block is entered from accept_block only, with an unknown block.
LEMMA ReadyIsReceived ==
    ASSUME ChainInv, NEW b \in Ready
    PROVE  stage = "idle" /\ b \in Blocks /\ b \notin blocks /\ Connects(tip, b)
  BY NoCandidates DEF Ready, ChainInv, TypeOK, Stages

\* A received block that connects is not in the orphan pool, nor a stored parent.
LEMMA ReceivedIsFresh ==
    ASSUME ChainInv, NEW b \in Ready
    PROVE  b \notin orphans /\ \A o \in orphans : Body[o].prev # b
<1>1. b \notin blocks /\ Connects(tip, b) /\ blocks \subseteq Blocks
  BY ReadyIsReceived DEF ChainInv, TypeOK
<1>2. \A o \in orphans : Body[o].prev \in blocks /\ Body[o].prev # tip
  BY DEF ChainInv, OrphansBehind
<1>3. \A o \in orphans : Body[o].prev # b
  BY <1>1, <1>2
<1>4. b \notin orphans
  BY <1>1, <1>2, BlockAssumption DEF Connects
<1> QED
  BY <1>3, <1>4

\* A linked chain stays linked when the store grows and the index changes above
\* the tip only.
LEMMA LinkedAbove ==
    ASSUME NEW db \in ChainDbType, NEW db2 \in ChainDbType,
           Linked(db), db2.tip = db.tip, db.blocks \subseteq db2.blocks,
           db.tip # NoBlock => \A h \in 0..Body[db.tip].height : db2.index[h] = db.index[h]
    PROVE  Linked(db2)
<1>1. SUFFICES ASSUME db.tip # NoBlock PROVE Linked(db2)
  BY DEF Linked
<1>2. db.tip \in Blocks /\ Body[db.tip].height \in Nat
  BY <1>1, BodyFields DEF ChainDbType
<1>3. \A h \in 0..Body[db.tip].height : h # 0 => h - 1 \in 0..Body[db.tip].height
  BY <1>2
<1>4. Body[db.tip].height \in 0..Body[db.tip].height
  BY <1>2
<1> QED
  BY <1>1, <1>3, <1>4 DEF Linked

\* A block that connects to the tip lies one height above it.
LEMMA ConnectsAbove ==
    ASSUME ChainInv, NEW b \in Blocks, Connects(tip, b)
    PROVE  /\ b # tip
           /\ Body[b].prev = tip
           /\ tip = NoBlock => Body[b].height = 0
           /\ tip # NoBlock => /\ Body[tip].height \in Nat
                              /\ Body[b].height = Body[tip].height + 1
<1>1. tip # NoBlock => tip \in Blocks
  BY DEF ChainInv, TypeOK
<1> QED
  BY <1>1, BodyFields, BlockAssumption DEF Connects

\* The "h:" put does not touch the chain up to the tip.
LEMMA PutHeightKeepsLinked ==
    ASSUME ChainInv, PutHeight
    PROVE  Linked(Db)'
<1>1. /\ job \in Blocks
      /\ Connects(tip, job)
      /\ index' = [index EXCEPT ![Body[job].height] = job]
      /\ blocks' = blocks /\ tip' = tip
  BY DEF PutHeight, ChainInv, TypeOK, JobExtends
<1>2. TypeOK'
  BY StepKeepsTypes DEF ChainInv, Next, Operation
<1>3. Db \in ChainDbType /\ Db' \in ChainDbType
  BY <1>2 DEF ChainInv, TypeOK, Db, ChainDbType
<1>4. ASSUME tip # NoBlock, NEW h \in 0..Body[tip].height
      PROVE  index'[h] = index[h]
  <2>1. Body[job].height = Body[tip].height + 1 /\ Body[tip].height \in Nat
    BY <1>1, <1>4, ConnectsAbove
  <2>2. Body[job].height \in 0..MaxHeight /\ MaxHeight \in Nat
    BY <1>1, BodyFields, BlockAssumption DEF Heights
  <2>3. h \in Heights /\ h # Body[job].height
    BY <1>4, <2>1, <2>2 DEF Heights
  <2>4. index \in [Heights -> Blocks \cup {NoBlock}]
    BY DEF ChainInv, TypeOK
  <2> QED
    BY <1>1, <2>3, <2>4
<1>5. \A h \in 0..Body[Db.tip].height : Db.tip # NoBlock => (Db').index[h] = Db.index[h]
  BY <1>4 DEF Db
<1>6. Db.tip = (Db').tip /\ Db.blocks \subseteq (Db').blocks
  BY <1>1 DEF Db
<1>7. Linked(Db')
  BY <1>3, <1>5, <1>6, LinkedAbove DEF ChainInv
<1> QED
  BY <1>7 DEF Linked

\* The "tip" put extends the linked chain by the block in hand.
LEMMA PutTipKeepsLinked ==
    ASSUME ChainInv, PutTip
    PROVE  Linked(Db)'
<1>1. /\ job \in Blocks /\ job \in blocks /\ job # NoBlock
      /\ Connects(tip, job)
      /\ index[Body[job].height] = job
      /\ index' = index /\ blocks' = blocks /\ tip' = job
  BY DEF PutTip, ChainInv, TypeOK, JobExtends
<1> DEFINE top == Body[job].height
<1>2. top \in Nat
  BY <1>1, BodyFields
<1>3. SUFFICES ASSUME NEW h \in 0..top
               PROVE  /\ index[h] \in blocks
                      /\ Body[index[h]].height = h
                      /\ Body[index[h]].prev = IF h = 0 THEN NoBlock ELSE index[h - 1]
  BY <1>1 DEF Linked, Db
<1>4. CASE tip = NoBlock
  BY <1>1, <1>3, <1>4, ConnectsAbove
<1>5. CASE tip # NoBlock
  <2>1. /\ top = Body[tip].height + 1
        /\ Body[tip].height \in Nat
        /\ Body[job].prev = tip
    BY <1>1, <1>5, ConnectsAbove
  <2>2. /\ index[Body[tip].height] = tip
        /\ \A i \in 0..Body[tip].height :
              /\ index[i] \in blocks
              /\ Body[index[i]].height = i
              /\ Body[index[i]].prev = IF i = 0 THEN NoBlock ELSE index[i - 1]
    BY <1>5 DEF ChainInv, Linked, Db
  <2>3. CASE h = top
    BY <1>1, <2>1, <2>2, <2>3
  <2>4. CASE h # top
    <3>1. h \in 0..Body[tip].height
      BY <1>2, <2>1, <2>4
    <3> QED
      BY <2>2, <3>1
  <2> QED
    BY <2>3, <2>4
<1> QED
  BY <1>4, <1>5

\* Every step keeps the chain database linked, on disk and in the durable copy.
LEMMA StepKeepsLinked == ChainInv /\ [Next]_vars => Linked(Db)' /\ Linked(synced)'
<1> SUFFICES ASSUME ChainInv, [Next]_vars
             PROVE  Linked(Db)' /\ Linked(synced)'
  OBVIOUS
<1>1. Linked(Db) /\ Linked(synced)
  BY DEF ChainInv
<1>2. CASE UNCHANGED <<blocks, index, tip, synced>>
  BY <1>1, <1>2 DEF Linked, Db
<1>3. CASE PutBlock
  BY <1>1, <1>3 DEF PutBlock, Linked, Db
<1>4. CASE PutHeight
  <2>1. UNCHANGED synced
    BY <1>4 DEF PutHeight
  <2> QED
    BY <1>1, <1>4, <2>1, PutHeightKeepsLinked DEF Linked
<1>5. CASE PutTip
  <2>1. UNCHANGED synced
    BY <1>5 DEF PutTip
  <2> QED
    BY <1>1, <1>5, <2>1, PutTipKeepsLinked DEF Linked
<1>6. CASE PowerLoss
  BY <1>1, <1>6 DEF PowerLoss, Linked, Db
<1>7. CASE WriteBack
  BY <1>1, <1>7 DEF WriteBack, Linked, Db, chainDb
<1>8. CASE \E b \in Blocks : CommitUtxo(b) \/ AddOrphan(b)
  BY <1>2, <1>8 DEF CommitUtxo, AddOrphan, chainDb
<1>9. CASE \E t \in Offered : AddMempoolTx(t)
  BY <1>2, <1>9 DEF AddMempoolTx, chainDb
<1>10. CASE FinishAccept \/ WriteError \/ Kill
  BY <1>2, <1>10 DEF FinishAccept, WriteError, Kill, chainDb
<1>11. CASE UNCHANGED vars
  BY <1>2, <1>11 DEF vars
<1> QED
  BY <1>3, <1>4, <1>5, <1>6, <1>7, <1>8, <1>9, <1>10, <1>11
     DEF Next, Operation, Fault

\* Every step keeps the index inside the store.
LEMMA StepKeepsIndexStored ==
    ChainInv /\ [Next]_vars => IndexStored(Db)' /\ IndexStored(synced)'
<1> SUFFICES ASSUME ChainInv, [Next]_vars
             PROVE  IndexStored(Db)' /\ IndexStored(synced)'
  OBVIOUS
<1>1. IndexStored(Db) /\ IndexStored(synced)
  BY DEF ChainInv
<1> USE DEF IndexStored, Db
<1>2. CASE UNCHANGED <<blocks, index, synced>>
  BY <1>1, <1>2
<1>3. CASE PutBlock
  BY <1>1, <1>3 DEF PutBlock
<1>4. CASE PutHeight
  <2>1. job \in blocks /\ index \in [Heights -> Blocks \cup {NoBlock}]
    BY <1>4 DEF PutHeight, ChainInv, JobExtends, TypeOK
  <2> QED
    BY <1>1, <1>4, <2>1 DEF PutHeight
<1>5. CASE PutTip
  BY <1>2, <1>5 DEF PutTip
<1>6. CASE PowerLoss
  BY <1>1, <1>6 DEF PowerLoss
<1>7. CASE WriteBack
  BY <1>1, <1>7 DEF WriteBack, chainDb
<1>8. CASE \E b \in Blocks : CommitUtxo(b) \/ AddOrphan(b)
  BY <1>2, <1>8 DEF CommitUtxo, AddOrphan, chainDb
<1>9. CASE \E t \in Offered : AddMempoolTx(t)
  BY <1>2, <1>9 DEF AddMempoolTx, chainDb
<1>10. CASE FinishAccept \/ WriteError \/ Kill
  BY <1>2, <1>10 DEF FinishAccept, WriteError, Kill, chainDb
<1>11. CASE UNCHANGED vars
  BY <1>2, <1>11 DEF vars
<1> QED
  BY <1>3, <1>4, <1>5, <1>6, <1>7, <1>8, <1>9, <1>10, <1>11
     DEF Next, Operation, Fault

\* Every step keeps what is known of the block in hand.
LEMMA StepKeepsJob == ChainInv /\ [Next]_vars => JobExtends'
<1> SUFFICES ASSUME ChainInv, [Next]_vars
             PROVE  JobExtends'
  OBVIOUS
<1>1. TypeOK /\ JobExtends
  BY DEF ChainInv
<1>2. ASSUME NEW b \in Blocks, CommitUtxo(b) PROVE JobExtends'
  <2>1. b \in Ready
    BY <1>2 DEF CommitUtxo
  <2>2. b \notin blocks /\ Connects(tip, b)
    BY <2>1, ReadyIsReceived
  <2> QED
    BY <1>2, <2>2 DEF CommitUtxo, JobExtends, Connects, chainDb
<1>3. CASE PutBlock
  BY <1>1, <1>3 DEF PutBlock, JobExtends, Connects
<1>4. CASE PutHeight
  <2>1. job \in Blocks /\ index \in [Heights -> Blocks \cup {NoBlock}]
    BY <1>1, <1>4 DEF PutHeight, TypeOK
  <2>2. Body[job].height \in Heights
    BY <2>1, BodyFields
  <2> QED
    BY <1>1, <1>4, <2>1, <2>2 DEF PutHeight, JobExtends, Connects
<1>5. CASE PutTip
  BY <1>1, <1>5 DEF PutTip, JobExtends
<1>6. ASSUME NEW b \in Blocks, AddOrphan(b) PROVE JobExtends'
  BY <1>6 DEF AddOrphan, JobExtends
<1>7. ASSUME NEW t \in Offered, AddMempoolTx(t) PROVE JobExtends'
  BY <1>7 DEF AddMempoolTx, JobExtends
<1>8. CASE FinishAccept \/ WriteError \/ Kill \/ PowerLoss
  BY <1>8 DEF FinishAccept, WriteError, Kill, PowerLoss, ForgetMemory, JobExtends
<1>9. CASE WriteBack
  BY <1>1, <1>9 DEF WriteBack, JobExtends, Connects, chainDb
<1>10. CASE UNCHANGED vars
  BY <1>1, <1>10 DEF vars, JobExtends, Connects
<1> QED
  BY <1>2, <1>3, <1>4, <1>5, <1>6, <1>7, <1>8, <1>9, <1>10
     DEF Next, Operation, Fault

\* Every step keeps the orphans behind the tip.
LEMMA StepKeepsOrphans == ChainInv /\ [Next]_vars => OrphansBehind'
<1> SUFFICES ASSUME ChainInv, [Next]_vars
             PROVE  OrphansBehind'
  OBVIOUS
<1>1. TypeOK /\ OrphansBehind
  BY DEF ChainInv
<1>2. NoBlock \notin Blocks
  BY BlockAssumption
<1>3. orphans \subseteq Blocks /\ blocks \subseteq Blocks
  BY <1>1 DEF TypeOK
<1>4. ASSUME NEW b \in Blocks, CommitUtxo(b) PROVE OrphansBehind'
  <2>1. b \in Ready
    BY <1>4 DEF CommitUtxo
  <2>2. b \notin orphans /\ \A o \in orphans : Body[o].prev # b
    BY <2>1, ReceivedIsFresh
  <2> QED
    BY <1>1, <1>4, <2>2 DEF CommitUtxo, OrphansBehind, chainDb
<1>5. CASE PutBlock
  BY <1>1, <1>5 DEF PutBlock, OrphansBehind
<1>6. CASE PutHeight
  BY <1>1, <1>6 DEF PutHeight, OrphansBehind
<1>7. CASE PutTip
  BY <1>1, <1>7 DEF PutTip, OrphansBehind
<1>8. ASSUME NEW b \in Blocks, AddOrphan(b) PROVE OrphansBehind'
  <2>1. /\ b \notin blocks /\ Body[b].prev \in blocks
        /\ Unlinked(tip, b)
        /\ job = NoBlock
        /\ UNCHANGED <<blocks, tip, job>>
        /\ orphans' = orphans \cup {b}
    BY <1>1, <1>8 DEF AddOrphan, TypeOK, chainDb
  <2>2. Body[b].prev # tip
    BY <1>2, <1>3, <2>1 DEF Unlinked
  <2> QED
    BY <1>1, <1>2, <1>3, <2>1, <2>2 DEF OrphansBehind
<1>9. ASSUME NEW t \in Offered, AddMempoolTx(t) PROVE OrphansBehind'
  BY <1>1, <1>9 DEF AddMempoolTx, OrphansBehind, chainDb
<1>10. CASE FinishAccept \/ WriteError
  <2>1. UNCHANGED <<blocks, tip, orphans>> /\ job' = NoBlock
    BY <1>10 DEF FinishAccept, WriteError, chainDb
  <2> QED
    BY <1>1, <1>2, <1>3, <2>1 DEF OrphansBehind
<1>11. CASE Kill \/ PowerLoss
  BY <1>11 DEF Kill, PowerLoss, ForgetMemory, OrphansBehind
<1>12. CASE WriteBack
  BY <1>1, <1>12 DEF WriteBack, OrphansBehind, chainDb
<1>13. CASE UNCHANGED vars
  BY <1>1, <1>13 DEF vars, OrphansBehind
<1> QED
  BY <1>4, <1>5, <1>6, <1>7, <1>8, <1>9, <1>10, <1>11, <1>12, <1>13
     DEF Next, Operation, Fault

\* ChainInv holds in every state of every behaviour, faults included.
THEOREM ChainInvariant == Spec => []ChainInv
<1>1. Init => ChainInv
  BY InitTypes
     DEF Init, ChainInv, Linked, IndexStored, Db, JobExtends, OrphansBehind
<1>2. ChainInv /\ [Next]_vars => ChainInv'
  BY StepKeepsTypes, StepKeepsLinked, StepKeepsIndexStored, StepKeepsJob,
     StepKeepsOrphans
     DEF ChainInv
<1> QED
  BY <1>1, <1>2, PTL DEF Spec

\* The height index is one linked chain from genesis to the tip, between any two
\* writes of put_block and after any fault (chaindb.rs put_block).
THEOREM ChainStaysLinked == Spec => []ChainLinked
<1>1. ChainInv => ChainLinked
  BY DEF ChainInv, ChainLinked, Db
<1> QED
  BY <1>1, ChainInvariant, PTL

\* The orphan pool never holds a stored block nor a child of the tip: the loop of
\* process_orphans connects nothing, in any execution.
THEOREM OrphansNeverConnect == Spec => []OrphansStayOff
<1>1. ChainInv => OrphansStayOff
  BY DEF ChainInv, OrphansBehind, OrphansStayOff
<1> QED
  BY <1>1, ChainInvariant, PTL

-----------------------------------------------------------------------------
(* No reorganisation.                                                      *)

\* The "h:" put is above the tip, so the index keeps every height of the chain.
LEMMA PutHeightKeepsHistory ==
    ASSUME ChainInv, PutHeight, NEW h \in Heights, OnChain(h)
    PROVE  index'[h] = index[h]
<1>1. /\ job \in Blocks
      /\ Connects(tip, job)
      /\ index' = [index EXCEPT ![Body[job].height] = job]
      /\ index \in [Heights -> Blocks \cup {NoBlock}]
  BY DEF PutHeight, ChainInv, TypeOK, JobExtends
<1>2. Body[job].height = Body[tip].height + 1 /\ Body[tip].height \in Nat
  BY <1>1, ConnectsAbove DEF OnChain
<1>3. h \in Nat /\ h <= Body[tip].height
  BY BlockAssumption DEF OnChain, Heights
<1>4. h # Body[job].height
  BY <1>2, <1>3
<1> QED
  BY <1>1, <1>4

\* The "tip" put raises the tip by one height.
LEMMA PutTipRaisesTip ==
    ASSUME ChainInv, PutTip, NEW h \in Heights, OnChain(h)
    PROVE  OnChain(h)'
<1>1. job \in Blocks /\ Connects(tip, job) /\ tip' = job /\ job # NoBlock
  BY BlockAssumption DEF PutTip, ChainInv, TypeOK, JobExtends
<1>2. Body[job].height = Body[tip].height + 1 /\ Body[tip].height \in Nat
  BY <1>1, ConnectsAbove DEF OnChain
<1>3. h \in Nat /\ h <= Body[tip].height
  BY BlockAssumption DEF OnChain, Heights
<1> QED
  BY <1>1, <1>2, <1>3 DEF OnChain

\* Whatever blocks arrive, the node never leaves the chain it is on
\* (chain.rs accept_block): only a loss of power takes blocks back.
THEOREM ChainHistoryFixed == Spec => HistoryFixed
<1>1. ChainInv /\ [Next]_vars => [HistoryStep]_vars
  <2> SUFFICES ASSUME ChainInv, Next, ~PowerLoss, NEW h \in Heights, OnChain(h)
               PROVE  OnChain(h)' /\ index'[h] = index[h]
    BY DEF HistoryStep
  <2>1. CASE UNCHANGED <<index, tip>>
    BY <2>1 DEF OnChain
  <2>2. CASE PutHeight
    <3>1. UNCHANGED tip
      BY <2>2 DEF PutHeight
    <3> QED
      BY <2>2, <3>1, PutHeightKeepsHistory DEF OnChain
  <2>3. CASE PutTip
    <3>1. UNCHANGED index
      BY <2>3 DEF PutTip
    <3> QED
      BY <2>3, <3>1, PutTipRaisesTip
  <2> QED
    BY <2>1, <2>2, <2>3
       DEF Next, Operation, Fault, CommitUtxo, PutBlock, FinishAccept, AddOrphan,
           AddMempoolTx, WriteError, Kill, WriteBack, chainDb
<1> QED
  BY <1>1, ChainInvariant, PTL DEF Spec, HistoryFixed

-----------------------------------------------------------------------------
(* The pools.                                                              *)

\* No two mempool entries ever spend the same coin (mempool.rs insert), whatever
\* replacements, confirmations and restarts occur.
THEOREM MempoolStaysConflictFree == Spec => []MempoolConflictFree
<1>1. Init => MempoolConflictFree
  BY DEF Init, MempoolConflictFree
<1>2. MempoolConflictFree /\ [Next]_vars => MempoolConflictFree'
  <2> SUFFICES ASSUME MempoolConflictFree, [Next]_vars
               PROVE  MempoolConflictFree'
    OBVIOUS
  <2>1. CASE mempool' \subseteq mempool
    BY <2>1 DEF MempoolConflictFree
  <2>2. ASSUME NEW t \in Offered, AddMempoolTx(t) PROVE MempoolConflictFree'
    <3>1. mempool' = (mempool \ Conflicts(t)) \cup {t}
      BY <2>2 DEF AddMempoolTx
    <3>2. \A o \in mempool \ Conflicts(t) : Inputs(o) \cap Inputs(t) = {}
      BY DEF Conflicts
    <3> QED
      BY <3>1, <3>2 DEF MempoolConflictFree
  <2> QED
    BY <2>1, <2>2
       DEF Next, Operation, Fault, vars, CommitUtxo, PutBlock, PutHeight, PutTip,
           FinishAccept, AddOrphan, WriteError, Kill, PowerLoss, ForgetMemory, WriteBack
<1> QED
  BY <1>1, <1>2, PTL DEF Spec

\* Whatever select_uncles picks from the orphan pool passes validate_uncles in the
\* next block (chain.rs select_uncles, uncles.rs validate_uncles).
THEOREM UncleSelectionSound == Spec => []SelectedUnclesValid
<1>1. ChainInv => SelectedUnclesValid
  <2> SUFFICES ASSUME ChainInv, tip # NoBlock, NEW o \in EligibleUncles
               PROVE  ValidUncle(blocks, index, TipHeight + 1, o)
    BY DEF SelectedUnclesValid
  <2>1. /\ o \in orphans
        /\ Body[o].height >= TipHeight + 1 - Lookback
        /\ Body[o].height < TipHeight + 1
        /\ ~InRecentWindow(index, TipHeight + 1, o)
    BY DEF EligibleUncles
  <2>2. o \notin blocks /\ Body[o].prev \in blocks
    BY <2>1 DEF ChainInv, OrphansBehind
  <2>3. ~IsCanonical(index, o)
    <3>1. o \in Blocks /\ o # NoBlock
      BY <2>1, BlockAssumption DEF ChainInv, TypeOK
    <3>2. Body[o].height \in Heights
      BY <3>1, BodyFields
    <3> QED
      BY <2>2, <3>1, <3>2 DEF ChainInv, IndexStored, Db, IsCanonical
  <2> QED
    <3>1. TipHeight \in Nat /\ Body[o].height \in Nat /\ Lookback \in Nat
      BY <2>1, BodyFields, UncleAssumption DEF TipHeight, ChainInv, TypeOK
    <3> QED
      BY <2>1, <2>2, <2>3, <3>1 DEF ValidUncle
<1> QED
  BY <1>1, ChainInvariant, PTL

-----------------------------------------------------------------------------
(* Replacement.                                                            *)

\* The sums of the model are instances of the sums of DbcSums.
LEMMA SameSums ==
    /\ \A S : Worth(S) = Values!Sum(S)
    /\ \A S : MapThenSumSet(ValueAt, S) = InputSums!Sum(S)
    /\ \A S : Fees(S) = FeeSums!Sum(S)
    /\ \A S : /\ Values!IsFiniteSet(S) <=> IsFiniteSet(S)
              /\ InputSums!IsFiniteSet(S) <=> IsFiniteSet(S)
              /\ FeeSums!IsFiniteSet(S) <=> IsFiniteSet(S)
<1>1. \A S : Worth(S) = Values!Sum(S)
  BY DEF Worth, Values!Sum, ValueOf, Values!MapThenSumSet, MapThenSumSet,
         Values!MapThenFoldSet, MapThenFoldSet
<1>2. \A S : MapThenSumSet(ValueAt, S) = InputSums!Sum(S)
  BY DEF InputSums!Sum, InputSums!MapThenSumSet, MapThenSumSet,
         InputSums!MapThenFoldSet, MapThenFoldSet
<1>3. \A S : Fees(S) = FeeSums!Sum(S)
  BY DEF Fees, FeeSums!Sum, FeeSums!MapThenSumSet, MapThenSumSet,
         FeeSums!MapThenFoldSet, MapThenFoldSet
<1>4. \A S : /\ Values!IsFiniteSet(S) <=> IsFiniteSet(S)
             /\ InputSums!IsFiniteSet(S) <=> IsFiniteSet(S)
             /\ FeeSums!IsFiniteSet(S) <=> IsFiniteSet(S)
  BY DEF IsFiniteSet, Values!IsFiniteSet, InputSums!IsFiniteSet, FeeSums!IsFiniteSet
<1> QED
  BY <1>1, <1>2, <1>3, <1>4

\* A fee is an integer, and so are the two sums it is made of.
LEMMA FeeType ==
    ASSUME NEW t \in Txs
    PROVE  InputSum(t) \in Int /\ OutputSum(t) \in Int /\ Fee(t) \in Int
<1>1. Tx[t].inputs \in Seq(Coins) /\ Tx[t].outputs \in Seq(Coins)
  BY BlockAssumption DEF TxBody
<1>2. \A c \in Coins : ValueOf(c) \in Int
  BY SupplyAssumption DEF ValueOf
<1>3. OutputSum(t) \in Int
  <2>1. Makes(t) \subseteq Coins
    BY <1>1 DEF Makes, Range
  <2>2. IsFiniteSet(Makes(t))
    BY <2>1, FiniteAssumption, FS_Subset
  <2>3. Values!Sum(Makes(t)) \in Int
    BY <1>2, <2>1, <2>2, Values!SumType, SameSums
  <2> QED
    BY <2>3, SameSums, SupplyAssumption DEF OutputSum
<1>4. InputSum(t) \in Int
  <2>1. IsFiniteSet(InputsOf(t))
    <3>1. DOMAIN Tx[t].inputs = 1..Len(Tx[t].inputs) /\ Len(Tx[t].inputs) \in Nat
      BY <1>1
    <3>2. IsFiniteSet(1..Len(Tx[t].inputs))
      BY <3>1, FS_Interval
    <3>3. IsFiniteSet(DOMAIN Tx[t].inputs)
      BY <3>1, <3>2
    <3>4. IsFiniteSet({t})
      BY FS_Singleton
    <3> QED
      BY <3>3, <3>4, FS_Product DEF InputsOf
  <2>2. \A p \in InputsOf(t) : ValueAt(p) \in Int
    BY <1>1, <1>2 DEF InputsOf, ValueAt, ValueOf
  <2>3. InputSums!Sum(InputsOf(t)) \in Int
    BY <2>1, <2>2, InputSums!SumType, SameSums
  <2> QED
    BY <2>3, SameSums, SupplyAssumption DEF InputSum, Saturated
<1> QED
  BY <1>3, <1>4 DEF Fee

\* Every entry of the mempool pays a fee, perhaps of nothing.
PoolPays == \A t \in mempool : Fee(t) \in Nat

LEMMA StepKeepsPaying == TypeOK /\ PoolPays /\ [Next]_vars => PoolPays'
<1> SUFFICES ASSUME TypeOK, PoolPays, [Next]_vars PROVE PoolPays'
  OBVIOUS
<1>1. CASE mempool' \subseteq mempool
  BY <1>1 DEF PoolPays
<1>2. ASSUME NEW t \in Offered, AddMempoolTx(t) PROVE PoolPays'
  <2>1. t \in Txs /\ mempool' \subseteq mempool \cup {t} /\ ValidTransaction(utxo, t, TipHeight)
    BY <1>2, OfferAssumption DEF AddMempoolTx
  <2>2. Fee(t) \in Nat
    BY <2>1, FeeType DEF ValidTransaction, Fee
  <2> QED
    BY <2>1, <2>2 DEF PoolPays
<1> QED
  BY <1>1, <1>2
     DEF Next, Operation, Fault, vars, CommitUtxo, PutBlock, PutHeight, PutTip,
         FinishAccept, AddOrphan, WriteError, Kill, PowerLoss, ForgetMemory, WriteBack

LEMMA PoolAlwaysPays == Spec => [](TypeOK /\ PoolPays)
<1>1. Init => PoolPays
  BY DEF Init, PoolPays
<1> QED
  BY <1>1, StepKeepsPaying, ChainTypes, PTL DEF Spec

\* An entry that replaces others pays more than all of them together, as long as their
\* fees do not wrap.
LEMMA ReplacementPaysMore ==
    ASSUME mempool \subseteq Txs, PoolPays, Fees(mempool) < WordSize,
           NEW t \in Txs, Replaces(t), Conflicts(t) # {}
    PROVE  Fees((mempool \ Conflicts(t)) \cup {t}) > Fees(mempool)
<1> DEFINE C == Conflicts(t)
           K == mempool \ C
<1>1. /\ C \subseteq mempool
      /\ t \notin K
  BY DEF Conflicts
<1>2. /\ IsFiniteSet(mempool) /\ IsFiniteSet(K) /\ IsFiniteSet(C)
      /\ \A x \in Txs : Fee(x) \in Int
  BY <1>1, FiniteAssumption, FS_Subset, FeeType
<1>3. \A x \in mempool : Fee(x) \in Nat
  BY DEF PoolPays
<1> HIDE DEF C
<1>4. FeeSums!Sum(K) = FeeSums!Sum(mempool) - FeeSums!Sum(C)
  BY <1>1, <1>2, FeeSums!SumDifference, SameSums
<1>5. FeeSums!Sum(K \cup {t}) = FeeSums!Sum(K) + Fee(t)
  <2> HIDE DEF K
  <2>1. \A x \in K \cup {t} : Fee(x) \in Int
    BY <1>2 DEF K
  <2> QED
    BY <1>1, <1>2, <2>1, FeeSums!SumAdd, SameSums
<1>6. FeeSums!Sum(C) \in Nat /\ FeeSums!Sum(mempool) \in Nat /\ FeeSums!Sum(C) <= FeeSums!Sum(mempool)
  BY <1>1, <1>2, <1>3, FeeSums!SumNat, FeeSums!SumGrows, SameSums
<1>7. Fees(C) % WordSize = FeeSums!Sum(C)
  <2>1. Fees(C) = FeeSums!Sum(C) /\ FeeSums!Sum(C) < WordSize
    BY <1>6, SameSums, SupplyAssumption
  <2> QED
    BY <1>6, <2>1, SupplyAssumption
<1>8. Fee(t) > FeeSums!Sum(C) /\ Fee(t) \in Int
  BY <1>2, <1>7 DEF Replaces, C
<1>9. FeeSums!Sum(K \cup {t}) > FeeSums!Sum(mempool)
  BY <1>4, <1>5, <1>6, <1>8
<1> QED
  BY <1>9, SameSums DEF C

\* A step that drops a mempool entry without confirming a block or ending the process
\* leaves strictly more fees, as long as they fit in a word (mempool.rs insert), after
\* any faults.
THEOREM ReplacementRaisesFees == Spec => FeesOnlyGrow
<1>1. TypeOK /\ PoolPays /\ [Next]_vars
        => [(mempool \ mempool' # {} /\ stage' = stage /\ faults' = faults /\ Fees(mempool) < WordSize)
              => Fees(mempool') > Fees(mempool)]_vars
  <2> SUFFICES ASSUME TypeOK, PoolPays, Next, mempool \ mempool' # {}, stage' = stage,
                      faults' = faults, Fees(mempool) < WordSize
               PROVE  Fees(mempool') > Fees(mempool)
    OBVIOUS
  <2>1. mempool' # mempool /\ mempool \subseteq Txs
    BY DEF TypeOK
  <2>2. PICK t \in Offered : AddMempoolTx(t)
    <3>1. ~PutTip
      BY DEF PutTip
    <3>2. ~ForgetMemory
      BY DEF ForgetMemory, TypeOK
    <3> QED
      BY <2>1, <3>1, <3>2
         DEF Next, Operation, Fault, CommitUtxo, PutBlock, PutHeight,
             FinishAccept, AddOrphan, WriteError, Kill, PowerLoss, WriteBack
  <2>3. mempool' = (mempool \ Conflicts(t)) \cup {t} /\ Replaces(t) /\ t \in Txs
    BY <2>2, OfferAssumption DEF AddMempoolTx
  <2>4. Conflicts(t) # {}
    BY <2>3
  <2>5. Fees((mempool \ Conflicts(t)) \cup {t}) > Fees(mempool)
    BY <2>1, <2>3, <2>4, ReplacementPaysMore
  <2> QED
    BY <2>3, <2>5
<1> QED
  BY <1>1, PoolAlwaysPays, PTL DEF Spec, FeesOnlyGrow

-----------------------------------------------------------------------------
(* Uncles are rewarded once.                                               *)
(*                                                                         *)
(* validate_uncles compares a new uncle with the uncles of the last        *)
(* Lookback blocks only.  That is enough because an uncle lies below its   *)
(* first nephew and at most Lookback heights below the second, so the      *)
(* first nephew is inside the second one's window.  UncleInv keeps the     *)
(* depth of every uncle of the chain, of its durable copy and of the block *)
(* in hand, for which the test was made when it was taken up.              *)


\* The heights a chain database serves as its chain.
UpTo(db, h) == db.tip # NoBlock /\ h <= Body[db.tip].height

\* A header is an uncle of at most one block of the chain.
OnceIn(db) ==
    \A g, h \in Heights :
        g < h /\ UpTo(db, h) => Uncles(db.index[g]) \cap Uncles(db.index[h]) = {}

\* u lies between 1 and Lookback heights below h.
Near(u, h) == Body[u].height < h /\ Body[u].height >= h - Lookback

\* Every uncle of the chain is near its nephew.
NearIn(db) == \A h \in Heights : UpTo(db, h) => \A u \in Uncles(db.index[h]) : Near(u, h)

\* The uncles of the block in hand are near it and new to the chain below it.
JobUnclesFresh ==
    stage \in {"utxo", "block", "height"} =>
        \A u \in Uncles(job) :
            /\ Near(u, Body[job].height)
            /\ \A g \in Heights : UpTo(Db, g) => u \notin Uncles(index[g])

UncleInv ==
    /\ OnceIn(Db)
    /\ OnceIn(synced)
    /\ NearIn(Db)
    /\ NearIn(synced)
    /\ JobUnclesFresh

-----------------------------------------------------------------------------

\* The uncles of a block are blocks.
LEMMA UnclesAreBlocks ==
    ASSUME NEW b \in Blocks, NEW u \in Uncles(b)
    PROVE  u \in Blocks /\ Body[u].height \in Nat
<1>1. Body[b].uncles \in Seq(Blocks)
  BY BlockAssumption DEF BlockBody
<1>2. u \in Blocks
  BY <1>1 DEF Uncles, Range
<1> QED
  BY <1>2, BodyFields

\* The two windows overlap: if u is an uncle of the block at g and near a later
\* height h, the duplicate test made at h sees it.
LEMMA WindowSeesFirstNephew ==
    ASSUME ChainInv, NearIn(Db), NEW g \in Heights, UpTo(Db, g),
           NEW u \in Uncles(index[g]), NEW h \in Nat, g < h, Near(u, h)
    PROVE  InRecentWindow(index, h, u)
<1>1. tip # NoBlock /\ tip \in Blocks /\ g \in Nat /\ g <= Body[tip].height
  BY BlockAssumption DEF UpTo, Db, ChainInv, TypeOK, Heights
<1>2. Body[tip].height \in Nat
  BY <1>1, BodyFields
<1>3. g \in 0..Body[tip].height
  BY <1>1, <1>2
<1>4. index[g] \in Blocks /\ index[g] # NoBlock
  BY <1>1, <1>3, BlockAssumption DEF ChainInv, Linked, Db, TypeOK
<1>5. Body[u].height \in Nat /\ Lookback \in Nat
  BY <1>4, UnclesAreBlocks, UncleAssumption
<1>6. Body[u].height < g
  BY DEF NearIn, Near, Db
<1>7. g >= h - Lookback
  BY <1>1, <1>5, <1>6 DEF Near
<1> QED
  BY <1>4, <1>7 DEF InRecentWindow

\* A block that passes validate_uncles on top of the chain brings new uncles.
LEMMA CommitTakesFreshUncles ==
    ASSUME ChainInv, UncleInv, NEW b \in Blocks, CommitUtxo(b)
    PROVE  JobUnclesFresh'
<1>1. b \in Ready /\ ValidUncles(blocks, index, b) /\ job' = b
  BY DEF CommitUtxo, ValidBlock
<1>2. Connects(tip, b) /\ UNCHANGED <<blocks, index, tip>>
  BY <1>1, ReadyIsReceived DEF CommitUtxo, chainDb
<1>3. Body[b].height \in Nat
  BY BodyFields
<1>4. SUFFICES ASSUME NEW u \in Uncles(b)
               PROVE  /\ Near(u, Body[b].height)
                      /\ \A g \in Heights : UpTo(Db, g) => u \notin Uncles(index[g])
  BY <1>1, <1>2 DEF JobUnclesFresh, UpTo, Db
<1>5. Near(u, Body[b].height) /\ ~InRecentWindow(index, Body[b].height, u)
  BY <1>1, <1>4 DEF ValidUncles, ValidUncle, Near
<1>6. ASSUME NEW g \in Heights, UpTo(Db, g), u \in Uncles(index[g])
      PROVE  FALSE
  <2>1. Body[b].height = Body[tip].height + 1 /\ Body[tip].height \in Nat
    BY <1>2, <1>6, ConnectsAbove DEF UpTo, Db
  <2>2. g \in Nat /\ g < Body[b].height
    BY <1>6, <2>1, BlockAssumption DEF UpTo, Db, Heights
  <2> QED
    BY <1>3, <1>5, <1>6, <2>2, WindowSeesFirstNephew DEF UncleInv
<1> QED
  BY <1>5, <1>6

\* The "h:" put: the index changes above the tip only.
LEMMA PutHeightKeepsUncles ==
    ASSUME ChainInv, UncleInv, PutHeight
    PROVE  UncleInv'
<1>1. UNCHANGED <<tip, synced, job>> /\ stage = "block"
  BY DEF PutHeight
<1>2. \A h \in Heights : UpTo(Db, h) <=> OnChain(h)
  BY DEF UpTo, Db, OnChain
<1>3. \A h \in Heights : UpTo(Db, h)' <=> UpTo(Db, h)
  BY <1>1 DEF UpTo, Db
<1>4. \A h \in Heights : UpTo(Db, h) => index'[h] = index[h]
  BY <1>2, PutHeightKeepsHistory
<1>5. \A g, h \in Heights : g < h /\ UpTo(Db, h) => UpTo(Db, g)
  BY BlockAssumption, BodyFields DEF UpTo, Db, Heights, ChainInv, TypeOK
<1>6. OnceIn(Db)'
  BY <1>3, <1>4, <1>5 DEF UncleInv, OnceIn, Db
<1>7. NearIn(Db)'
  BY <1>3, <1>4 DEF UncleInv, NearIn, Db
<1>8. OnceIn(synced)' /\ NearIn(synced)'
  BY <1>1 DEF UncleInv, OnceIn, NearIn, UpTo
<1>9. JobUnclesFresh'
  BY <1>1, <1>3, <1>4 DEF UncleInv, JobUnclesFresh
<1> QED
  BY <1>6, <1>7, <1>8, <1>9 DEF UncleInv

\* The "tip" put: the block in hand joins the chain with the uncles it was
\* checked for.
LEMMA PutTipKeepsUncles ==
    ASSUME ChainInv, UncleInv, PutTip
    PROVE  UncleInv'
<1>1. /\ job \in Blocks /\ job # NoBlock
      /\ Connects(tip, job)
      /\ index[Body[job].height] = job
      /\ tip' = job /\ stage = "height" /\ stage' = "tip"
      /\ UNCHANGED <<index, synced>>
  BY BlockAssumption DEF PutTip, ChainInv, TypeOK, JobExtends
<1> DEFINE top == Body[job].height
<1>2. top \in Heights /\ top \in Nat
  BY <1>1, BodyFields
<1>3. \A h \in Heights : h \in Nat
  BY BlockAssumption DEF Heights
<1>4. ASSUME NEW h \in Heights
      PROVE  /\ UpTo(Db, h)' <=> UpTo(Db, h) \/ h = top
             /\ UpTo(Db, h) => h < top
             /\ h < top => UpTo(Db, h)
  <2>1. CASE tip = NoBlock
    <3>1. top = 0
      BY <1>1, <2>1, ConnectsAbove
    <3> QED
      BY <1>1, <1>3, <2>1, <3>1 DEF UpTo, Db
  <2>2. CASE tip # NoBlock
    <3>1. top = Body[tip].height + 1 /\ Body[tip].height \in Nat
      BY <1>1, <2>2, ConnectsAbove
    <3> QED
      BY <1>1, <1>3, <2>2, <3>1 DEF UpTo, Db
  <2> QED
    BY <2>1, <2>2
<1>5. \A u \in Uncles(job) : Near(u, top) /\ \A g \in Heights : UpTo(Db, g) => u \notin Uncles(index[g])
  BY <1>1 DEF UncleInv, JobUnclesFresh
<1>6. OnceIn(Db)'
  <2>1. SUFFICES ASSUME NEW g \in Heights, NEW h \in Heights, g < h, UpTo(Db, h)'
                 PROVE  Uncles(index[g]) \cap Uncles(index[h]) = {}
    BY <1>1 DEF OnceIn, Db
  <2>2. CASE h = top
    BY <1>1, <1>4, <1>5, <2>1, <2>2
  <2>3. CASE UpTo(Db, h)
    BY <2>1, <2>3 DEF UncleInv, OnceIn, Db
  <2> QED
    BY <1>4, <2>1, <2>2, <2>3
<1>7. NearIn(Db)'
  <2>1. SUFFICES ASSUME NEW h \in Heights, UpTo(Db, h)', NEW u \in Uncles(index[h])
                 PROVE  Near(u, h)
    BY <1>1 DEF NearIn, Db
  <2>2. CASE h = top
    BY <1>1, <1>5, <2>1, <2>2
  <2>3. CASE UpTo(Db, h)
    BY <2>1, <2>3 DEF UncleInv, NearIn, Db
  <2> QED
    BY <1>4, <2>1, <2>2, <2>3
<1>8. OnceIn(synced)' /\ NearIn(synced)'
  BY <1>1 DEF UncleInv, OnceIn, NearIn, UpTo
<1>9. JobUnclesFresh'
  BY <1>1 DEF JobUnclesFresh
<1> QED
  BY <1>6, <1>7, <1>8, <1>9 DEF UncleInv

\* Every step keeps UncleInv.
LEMMA StepKeepsUncles == ChainInv /\ UncleInv /\ [Next]_vars => UncleInv'
<1> SUFFICES ASSUME ChainInv, UncleInv, [Next]_vars
             PROVE  UncleInv'
  OBVIOUS
<1>1. ASSUME UNCHANGED <<index, tip, synced>>, JobUnclesFresh'
      PROVE  UncleInv'
  BY <1>1 DEF UncleInv, OnceIn, NearIn, UpTo, Db
<1>2. ASSUME NEW b \in Blocks, CommitUtxo(b) PROVE UncleInv'
  <2>1. JobUnclesFresh'
    BY <1>2, CommitTakesFreshUncles
  <2> QED
    BY <1>1, <1>2, <2>1 DEF CommitUtxo, chainDb
<1>3. CASE PutBlock
  BY <1>1, <1>3 DEF PutBlock, UncleInv, JobUnclesFresh, UpTo, Db
<1>4. CASE PutHeight
  BY <1>4, PutHeightKeepsUncles
<1>5. CASE PutTip
  BY <1>5, PutTipKeepsUncles
<1>6. CASE FinishAccept \/ WriteError \/ Kill
  BY <1>1, <1>6 DEF FinishAccept, WriteError, Kill, ForgetMemory, JobUnclesFresh, chainDb
<1>7. CASE \E b \in Blocks : AddOrphan(b)
  BY <1>1, <1>7 DEF AddOrphan, JobUnclesFresh, chainDb
<1>8. CASE \E t \in Offered : AddMempoolTx(t)
  BY <1>1, <1>8 DEF AddMempoolTx, JobUnclesFresh, chainDb
<1>9. CASE PowerLoss
  BY <1>9 DEF PowerLoss, ForgetMemory, UncleInv, OnceIn, NearIn, UpTo, Db, JobUnclesFresh
<1>10. CASE WriteBack
  BY <1>10 DEF WriteBack, UncleInv, OnceIn, NearIn, UpTo, Db, JobUnclesFresh, chainDb
<1>11. CASE UNCHANGED vars
  BY <1>1, <1>11 DEF vars, UncleInv, JobUnclesFresh, UpTo, Db
<1> QED
  BY <1>2, <1>3, <1>4, <1>5, <1>6, <1>7, <1>8, <1>9, <1>10, <1>11
     DEF Next, Operation, Fault

\* A header is the uncle of at most one block of the chain, hence its bonus is
\* paid once (uncles.rs validate_uncles), whatever faults occur.
THEOREM UncleRewardedOnce == Spec => []UncleOnce
<1>1. Init => UncleInv
  BY DEF Init, UncleInv, OnceIn, NearIn, UpTo, Db, JobUnclesFresh
<1>2. UncleInv => UncleOnce
  BY DEF UncleInv, OnceIn, UncleOnce, UpTo, Db, OnChain
<1> QED
  BY <1>1, <1>2, StepKeepsUncles, ChainInvariant, PTL DEF Spec
=============================================================================
