-------------------------- MODULE DbcReliableProofs --------------------------
(***************************************************************************)
(* A node that suffers no fault.                                           *)
(*                                                                         *)
(* It implements the abstract ledger, and so inherits what is proved of    *)
(* it: a coin that two blocks consume was created anew in between, and no  *)
(* more value exists than was issued while every block is ordinary.  The   *)
(* UTXO commit is the abstract step.  From there to the "tip" put the      *)
(* block in hand already counts as the top of the ledger; the three puts   *)
(* and every operation on the pools stutter.  With faults the theorem is   *)
(* false: a kill after the commit forgets the block in hand.               *)
(*                                                                         *)
(* The second part is about revert_block, the databases and the mempool:   *)
(* on which blocks one undoes the other, that a stored block is a block of *)
(* the chain, what makes a waiting transaction stale, and that the UTXO    *)
(* database is the replay of the height index.  The last part follows      *)
(* every coin from the block that created it, and shows that the balance   *)
(* of an address and its history tell the same.                            *)
(***************************************************************************)
EXTENDS DbcChainProofs, DbcWallet

LedgerProofs == INSTANCE DbcLedgerProofs WITH
    ledger <- CanonicalChain \cup ({job} \ {NoBlock}),
    top    <- IF job = NoBlock THEN tip ELSE job,
    coins  <- utxo

\* The ledger as this node stores it.
ledgerOf == CanonicalChain \cup ({job} \ {NoBlock})
topOf == IF job = NoBlock THEN tip ELSE job

\* ChainInv also holds of the node that suffers no fault.
LEMMA ReliableInvariant == ReliableSpec => []ChainInv
<1>1. ReliableSpec => Spec
  <2>1. [Operation]_vars => [Next]_vars
    BY DEF Next
  <2> QED
    BY <2>1, PTL DEF ReliableSpec, Spec
<1> QED
  BY <1>1, ChainInvariant, PTL

\* Nothing is on a chain that has no tip.
LEMMA EmptyChain ==
    ASSUME tip = NoBlock
    PROVE  CanonicalChain = {}
  BY DEF CanonicalChain, OnChain

\* The tip is on the chain.
LEMMA TipOnChain ==
    ASSUME ChainInv, tip # NoBlock
    PROVE  tip \in CanonicalChain
<1>1. tip \in Blocks
  BY DEF ChainInv, TypeOK
<1>2. Body[tip].height \in Heights /\ Body[tip].height \in Nat
  BY <1>1, BodyFields
<1>3. index[Body[tip].height] = tip
  BY DEF ChainInv, Linked, Db
<1> QED
  BY <1>2, <1>3 DEF CanonicalChain, OnChain

\* The "h:" put leaves the chain up to the tip as it is.
LEMMA PutHeightKeepsCanonical ==
    ASSUME ChainInv, PutHeight
    PROVE  CanonicalChain' = CanonicalChain
<1>1. UNCHANGED tip
  BY DEF PutHeight
<1>2. \A h \in Heights : OnChain(h)' <=> OnChain(h)
  BY <1>1 DEF OnChain
<1>3. \A h \in Heights : OnChain(h) => index'[h] = index[h]
  BY PutHeightKeepsHistory
<1> QED
  BY <1>2, <1>3 DEF CanonicalChain

\* The "tip" put adds the block in hand to the chain, and only that.
LEMMA PutTipExtendsCanonical ==
    ASSUME ChainInv, PutTip
    PROVE  CanonicalChain' = CanonicalChain \cup {job}
<1>1. /\ job \in Blocks /\ job # NoBlock
      /\ Connects(tip, job)
      /\ index[Body[job].height] = job
      /\ index' = index /\ tip' = job
  BY BlockAssumption DEF PutTip, ChainInv, TypeOK, JobExtends
<1> DEFINE top == Body[job].height
<1>2. top \in Nat /\ top \in Heights
  BY <1>1, BodyFields
<1>3. \A h \in Heights : h \in Nat
  BY BlockAssumption DEF Heights
<1>4. ASSUME NEW h \in Heights
      PROVE  OnChain(h)' <=> OnChain(h) \/ h = top
  <2>1. CASE tip = NoBlock
    <3>1. top = 0
      BY <1>1, <2>1, ConnectsAbove
    <3> QED
      BY <1>1, <1>3, <2>1, <3>1 DEF OnChain
  <2>2. CASE tip # NoBlock
    <3>1. top = Body[tip].height + 1 /\ Body[tip].height \in Nat
      BY <1>1, <2>2, ConnectsAbove
    <3> QED
      BY <1>1, <1>3, <2>2, <3>1 DEF OnChain
  <2> QED
    BY <2>1, <2>2
<1>5. CanonicalChain' = {index[h] : h \in {i \in Heights : OnChain(i) \/ i = top}}
  BY <1>1, <1>4 DEF CanonicalChain
<1> QED
  BY <1>1, <1>2, <1>5 DEF CanonicalChain

\* The operators the abstract ledger is built from are the node's.
LEMMA SameAmounts ==
    /\ \A b : Ledger!Regular(b) = Regular(b) /\ Ledger!Spends(b) = Spends(b)
    /\ \A b : Ledger!Outputs(b) = Outputs(b) /\ Ledger!Creates(b) = Creates(b)
    /\ \A t : Ledger!IsCoinbase(t) <=> IsCoinbase(t)
    /\ \A t : Ledger!Fee(t) = Fee(t)
    /\ \A u, t, h : Ledger!ValidTransaction(u, t, h) <=> ValidTransaction(u, t, h)
    /\ \A b : Ledger!CoinbaseInBounds(b) <=> CoinbaseInBounds(b)
<1> USE DEF Ledger!Range, Range, Ledger!Inputs, Inputs, Ledger!Makes, Makes,
            Ledger!Regular, Regular, Ledger!IsCoinbase, IsCoinbase,
            Ledger!Worth, Worth, Ledger!Saturated, Saturated,
            Ledger!OutputSum, OutputSum, Ledger!InputsOf, InputsOf, Ledger!ValueAt, ValueAt,
            Ledger!InputSum, InputSum, Ledger!Fee, Fee,
            Ledger!MapThenSumSet, MapThenSumSet, Ledger!MapThenFoldSet, MapThenFoldSet
<1>1. /\ \A b : Ledger!Regular(b) = Regular(b) /\ Ledger!Spends(b) = Spends(b)
      /\ \A b : Ledger!Outputs(b) = Outputs(b) /\ Ledger!Creates(b) = Creates(b)
  BY DEF Ledger!Spends, Spends, Ledger!Outputs, Outputs, Ledger!Creates, Creates
<1>2. \A t : Ledger!IsCoinbase(t) <=> IsCoinbase(t)
  OBVIOUS
<1>3. \A t : Ledger!Fee(t) = Fee(t)
  OBVIOUS
<1>4. \A u, t, h : Ledger!ValidTransaction(u, t, h) <=> ValidTransaction(u, t, h)
  BY DEF Ledger!ValidTransaction, ValidTransaction, Ledger!IsMature, IsMature
<1>5. \A b : Ledger!CoinbaseInBounds(b) <=> CoinbaseInBounds(b)
  BY DEF Ledger!CoinbaseInBounds, CoinbaseInBounds, Ledger!Allowed, Allowed,
         Ledger!RegularOf, RegularOf, Ledger!FeeAt, FeeAt, Ledger!BlockFees, BlockFees,
         Ledger!Uncles, Uncles, Ledger!UncleReward, UncleReward, Ledger!Subsidy, Subsidy,
         Ledger!UncleRewardBps, UncleRewardBps, Ledger!BpsDenom, BpsDenom
<1> QED
  BY <1>1, <1>2, <1>3, <1>4, <1>5

\* Entering apply_block is appending to the abstract ledger.
LEMMA CommitIsAppend ==
    ASSUME ChainInv, NEW b \in Blocks, CommitUtxo(b)
    PROVE  Ledger!Append1(b)
<1>1. b \in Ready
  BY DEF CommitUtxo
<1>2. stage = "idle" /\ Connects(tip, b)
  BY <1>1, ReadyIsReceived
<1>3. job = NoBlock /\ job' = b /\ b # NoBlock
  BY <1>2, BlockAssumption DEF ChainInv, TypeOK, CommitUtxo
<1>4. CanonicalChain' = CanonicalChain
  BY DEF CommitUtxo, CanonicalChain, OnChain, chainDb
<1>5. /\ ledgerOf = CanonicalChain
      /\ ledgerOf' = CanonicalChain \cup {b}
      /\ topOf = tip
      /\ topOf' = b
  BY <1>3, <1>4 DEF ledgerOf, topOf
<1>6. Ledger!Continues(tip, b)
  BY <1>2 DEF Connects, Ledger!Continues
<1>7. /\ IsCoinbase(Body[b].coinbase)
      /\ \A t \in Regular(b) : ValidTransaction(utxo, t, Body[b].height)
      /\ CoinbaseInBounds(b)
      /\ CanApply(utxo, b)
      /\ utxo' = Apply(utxo, b)
  BY DEF CommitUtxo, ValidBlock
<1> QED
  BY <1>5, <1>6, <1>7, SameAmounts
     DEF Ledger!Append1, ledgerOf, topOf, Ledger!CanApply, CanApply,
         Ledger!Apply, Apply, Ledger!NewEntry, NewEntry

\* Every other step leaves the abstract ledger as it is.
LEMMA OtherStepsStutter ==
    ASSUME ChainInv,
           \/ PutBlock \/ PutHeight \/ PutTip \/ FinishAccept
           \/ \E b \in Blocks : AddOrphan(b)
           \/ \E t \in Offered : AddMempoolTx(t)
           \/ UNCHANGED vars
    PROVE  UNCHANGED <<ledgerOf, topOf, utxo>>
<1>1. CASE UNCHANGED <<index, tip, job, utxo>>
  BY <1>1 DEF ledgerOf, topOf, CanonicalChain, OnChain
<1>2. CASE PutHeight
  <2>1. UNCHANGED <<tip, job, utxo>>
    BY <1>2 DEF PutHeight
  <2> QED
    BY <1>2, <2>1, PutHeightKeepsCanonical DEF ledgerOf, topOf
<1>3. CASE PutTip
  <2>1. job # NoBlock /\ tip' = job /\ UNCHANGED <<job, utxo>>
    BY <1>3 DEF PutTip, ChainInv, TypeOK
  <2> QED
    BY <1>3, <2>1, PutTipExtendsCanonical DEF ledgerOf, topOf
<1>4. CASE FinishAccept
  <2>1. /\ tip = job /\ job # NoBlock /\ job' = NoBlock
        /\ UNCHANGED <<index, tip, utxo>>
    BY <1>4 DEF FinishAccept, ChainInv, TypeOK, JobExtends, chainDb
  <2>2. CanonicalChain' = CanonicalChain
    BY <2>1 DEF CanonicalChain, OnChain
  <2>3. tip \in CanonicalChain
    BY <2>1, TipOnChain
  <2> QED
    BY <2>1, <2>2, <2>3 DEF ledgerOf, topOf
<1> QED
  BY <1>1, <1>2, <1>3, <1>4 DEF PutBlock, AddOrphan, AddMempoolTx, vars, chainDb

\* The chain database and the UTXO database together implement the abstract ledger
\* as long as no write fails and the process is not ended (chain.rs accept_block).
THEOREM ChainImplementsLedger == ReliableSpec => ImplementsLedger
<1>1. Init => Ledger!LedgerInit
  <2>1. ASSUME Init PROVE ledgerOf = {} /\ topOf = NoBlock /\ utxo = EmptyUtxo
    BY <2>1, EmptyChain DEF Init, ledgerOf, topOf
  <2> QED
    BY <2>1 DEF Ledger!LedgerInit, ledgerOf, topOf, Ledger!EmptyUtxo, EmptyUtxo
<1>2. ChainInv /\ [Operation]_vars => [Ledger!LedgerNext]_(Ledger!ledgerVars)
  <2> SUFFICES ASSUME ChainInv, [Operation]_vars
               PROVE  [Ledger!LedgerNext]_(Ledger!ledgerVars)
    OBVIOUS
  <2>1. CASE \E b \in Blocks : CommitUtxo(b)
    BY <2>1, CommitIsAppend DEF Ledger!LedgerNext
  <2>2. CASE ~\E b \in Blocks : CommitUtxo(b)
    <3>1. UNCHANGED <<ledgerOf, topOf, utxo>>
      BY <2>2, OtherStepsStutter DEF Operation
    <3> QED
      BY <3>1 DEF Ledger!ledgerVars, ledgerOf, topOf
  <2> QED
    BY <2>1, <2>2
<1> QED
  BY <1>1, <1>2, ReliableInvariant, PTL
     DEF ReliableSpec, ImplementsLedger, Ledger!LedgerSpec

\* The two instances of the abstract specification are built from the same operators.
LEMMA SameLedgerAmounts ==
    /\ \A b : Ledger!Regular(b) = LedgerProofs!Regular(b)
    /\ \A b : Ledger!Spends(b) = LedgerProofs!Spends(b)
    /\ \A b : Ledger!Outputs(b) = LedgerProofs!Outputs(b)
    /\ \A b : Ledger!Creates(b) = LedgerProofs!Creates(b)
    /\ \A t : Ledger!IsCoinbase(t) <=> LedgerProofs!IsCoinbase(t)
    /\ \A u, t, h : Ledger!ValidTransaction(u, t, h) <=> LedgerProofs!ValidTransaction(u, t, h)
    /\ \A b : Ledger!CoinbaseInBounds(b) <=> LedgerProofs!CoinbaseInBounds(b)
    /\ \A S : Ledger!Worth(S) = LedgerProofs!Worth(S)
    /\ \A S : Ledger!Issued(S) = LedgerProofs!Issued(S)
<1> USE DEF Ledger!Range, LedgerProofs!Range, Ledger!Inputs, LedgerProofs!Inputs,
            Ledger!Makes, LedgerProofs!Makes, Ledger!Regular, LedgerProofs!Regular,
            Ledger!IsCoinbase, LedgerProofs!IsCoinbase, Ledger!Worth, LedgerProofs!Worth,
            Ledger!Saturated, LedgerProofs!Saturated, Ledger!OutputSum, LedgerProofs!OutputSum,
            Ledger!InputsOf, LedgerProofs!InputsOf, Ledger!ValueAt, LedgerProofs!ValueAt,
            Ledger!InputSum, LedgerProofs!InputSum, Ledger!Fee, LedgerProofs!Fee,
            Ledger!Uncles, LedgerProofs!Uncles, Ledger!UncleReward, LedgerProofs!UncleReward,
            Ledger!Subsidy, LedgerProofs!Subsidy,
            Ledger!UncleRewardBps, LedgerProofs!UncleRewardBps,
            Ledger!BpsDenom, LedgerProofs!BpsDenom,
            Ledger!MapThenSumSet, LedgerProofs!MapThenSumSet,
            Ledger!MapThenFoldSet, LedgerProofs!MapThenFoldSet
<1>1. /\ \A b : Ledger!Regular(b) = LedgerProofs!Regular(b)
      /\ \A b : Ledger!Spends(b) = LedgerProofs!Spends(b)
      /\ \A b : Ledger!Outputs(b) = LedgerProofs!Outputs(b)
      /\ \A b : Ledger!Creates(b) = LedgerProofs!Creates(b)
  BY DEF Ledger!Spends, LedgerProofs!Spends, Ledger!Outputs, LedgerProofs!Outputs,
         Ledger!Creates, LedgerProofs!Creates
<1>2. \A t : Ledger!IsCoinbase(t) <=> LedgerProofs!IsCoinbase(t)
  OBVIOUS
<1>3. \A u, t, h : Ledger!ValidTransaction(u, t, h) <=> LedgerProofs!ValidTransaction(u, t, h)
  BY DEF Ledger!ValidTransaction, LedgerProofs!ValidTransaction,
         Ledger!IsMature, LedgerProofs!IsMature
<1>4. \A b : Ledger!CoinbaseInBounds(b) <=> LedgerProofs!CoinbaseInBounds(b)
  BY DEF Ledger!CoinbaseInBounds, LedgerProofs!CoinbaseInBounds,
         Ledger!Allowed, LedgerProofs!Allowed, Ledger!RegularOf, LedgerProofs!RegularOf,
         Ledger!FeeAt, LedgerProofs!FeeAt, Ledger!BlockFees, LedgerProofs!BlockFees
<1>5. \A S : Ledger!Worth(S) = LedgerProofs!Worth(S)
  OBVIOUS
<1>6. \A S : Ledger!Issued(S) = LedgerProofs!Issued(S)
  BY DEF Ledger!Issued, LedgerProofs!Issued
<1> QED
  BY <1>1, <1>2, <1>3, <1>4, <1>5, <1>6

\* The two instances of the abstract specification are the same formula.
LEMMA SameLedgerSpec == ImplementsLedger => LedgerProofs!LedgerSpec
<1>1. /\ Ledger!LedgerInit => LedgerProofs!LedgerInit
      /\ [Ledger!LedgerNext]_(Ledger!ledgerVars)
           => [LedgerProofs!LedgerNext]_(LedgerProofs!ledgerVars)
  BY SameLedgerAmounts
     DEF Ledger!LedgerInit, LedgerProofs!LedgerInit,
         Ledger!LedgerNext, LedgerProofs!LedgerNext,
         Ledger!ledgerVars, LedgerProofs!ledgerVars,
         Ledger!Append1, LedgerProofs!Append1,
         Ledger!Continues, LedgerProofs!Continues,
         Ledger!EmptyUtxo, LedgerProofs!EmptyUtxo,
         Ledger!CanApply, LedgerProofs!CanApply, Ledger!Apply, LedgerProofs!Apply,
         Ledger!NewEntry, LedgerProofs!NewEntry
<1> QED
  BY <1>1, PTL DEF ImplementsLedger, Ledger!LedgerSpec, LedgerProofs!LedgerSpec

\* What DbcLedgerProofs proves holds of this ledger: the node meets the assumptions.
LEMMA AbstractTheorems ==
    LedgerProofs!LedgerSpec =>
        /\ []LedgerProofs!LedgerInv
        /\ []LedgerProofs!NoDoubleSpend
        /\ []LedgerProofs!SupplyIsIssued
        /\ []LedgerProofs!HistoryInv
<1>1. /\ LedgerProofs!BlockAssumption /\ LedgerProofs!OutpointAssumption
      /\ LedgerProofs!FiniteAssumption /\ LedgerProofs!SupplyAssumption
      /\ LedgerProofs!UtxoAssumption
  BY BlockAssumption, OutpointAssumption, FiniteAssumption, SupplyAssumption, UtxoAssumption
     DEF BlockBody, TxBody, Heights, UtxoEntry, IsFiniteSet, LedgerProofs!IsFiniteSet,
         LedgerProofs!BlockBody, LedgerProofs!TxBody, LedgerProofs!Heights,
         LedgerProofs!UtxoEntry, LedgerProofs!BlockAssumption,
         LedgerProofs!OutpointAssumption, LedgerProofs!FiniteAssumption,
         LedgerProofs!SupplyAssumption, LedgerProofs!UtxoAssumption,
         IsInjective, LedgerProofs!IsInjective, Makes, LedgerProofs!Makes,
         Range, LedgerProofs!Range
<1> QED
  BY <1>1, LedgerProofs!LedgerInvariant, LedgerProofs!LedgerNoDoubleSpend,
     LedgerProofs!LedgerSupply, LedgerProofs!LedgerHistory

\* On a node that suffers no fault two blocks of the chain consume the same coin only if
\* a coinbase created it anew in between: the abstract theorem, carried over by the
\* refinement.
THEOREM ChainNeverDoubleSpends == ReliableSpec => []ChainNoDoubleSpend
<1>1. LedgerProofs!NoDoubleSpend => ChainNoDoubleSpend
  BY SameLedgerAmounts DEF ChainNoDoubleSpend, Ledger!NoDoubleSpend, LedgerProofs!NoDoubleSpend
<1> QED
  BY <1>1, AbstractTheorems, SameLedgerSpec, ChainImplementsLedger, PTL

\* While every block of such a node's chain is ordinary, no step makes value: the coins of
\* its UTXO database are worth no more than the subsidies and uncle bonuses of its chain
\* (validation.rs, the value rules).
THEOREM ChainNeverInflates == ReliableSpec => []ChainSupply
<1>1. \A b : LedgerProofs!Ordinary(b) <=> Ledger!Ordinary(b)
  BY SameLedgerAmounts
     DEF Ledger!Ordinary, LedgerProofs!Ordinary, Ledger!IsInjective, LedgerProofs!IsInjective,
         Ledger!Inputs, LedgerProofs!Inputs, Ledger!Makes, LedgerProofs!Makes,
         Ledger!Range, LedgerProofs!Range
<1>2. LedgerProofs!SupplyIsIssued => ChainSupply
  BY <1>1, SameLedgerAmounts
     DEF ChainSupply, Ledger!SupplyIsIssued, LedgerProofs!SupplyIsIssued,
         Ledger!Supply, LedgerProofs!Supply
<1> QED
  BY <1>2, AbstractTheorems, SameLedgerSpec, ChainImplementsLedger, PTL

-----------------------------------------------------------------------------
(* revert_block.                                                           *)

\* revert_block undoes apply_block exactly on the blocks whose coinbase creates nothing
\* that is already there and not consumed by the block: apply_block tests that of the
\* other outputs and not of the coinbase's (utxo.rs:421-450, 496-545).
THEOREM RevertInvertsFreshCoinbase ==
    ASSUME NEW b \in Blocks, NEW u \in UtxoSet, CanApply(u, b)
    PROVE  Revert(Apply(u, b), b, Undo(u, b)) = u
             <=> \A c \in Makes(Body[b].coinbase) \ Spends(b) : u[c] = Missing
<1> DEFINE v == Revert(Apply(u, b), b, Undo(u, b))
           M == Makes(Body[b].coinbase)
<1>1. M \subseteq Coins
  <2>1. Body[b].coinbase \in Txs
    BY BodyFields
  <2>2. Tx[Body[b].coinbase].outputs \in Seq(Coins)
    BY <2>1, BlockAssumption DEF TxBody
  <2> QED
    BY <2>2 DEF Makes, Range
<1>2. ASSUME NEW c \in Coins
      PROVE  /\ c \in Spends(b) => v[c] = u[c]
             /\ c \in Creates(b) \ Spends(b) => v[c] = Missing
             /\ c \notin Spends(b) \cup Creates(b) => v[c] = u[c]
  <2>1. c \in Spends(b) => v[c] = u[c]
    BY DEF Revert, Undo
  <2>2. c \in Creates(b) \ Spends(b) => v[c] = Missing
    BY DEF Revert
  <2>3. c \notin Spends(b) \cup Creates(b) => v[c] = Apply(u, b)[c]
    BY DEF Revert
  <2>4. c \notin Spends(b) \cup Creates(b) => Apply(u, b)[c] = u[c]
    BY DEF Apply, Creates
  <2> QED
    BY <2>1, <2>2, <2>3, <2>4
<1>3. v = [c \in Coins |-> v[c]] /\ u = [c \in Coins |-> u[c]]
  BY DEF Revert, UtxoSet
<1>4. Creates(b) = Outputs(b) \cup M /\ \A c \in Outputs(b) : u[c] = Missing
  BY DEF Creates, CanApply
<1> HIDE DEF v, M
<1>5. ASSUME \A c \in M \ Spends(b) : u[c] = Missing
      PROVE  v = u
  <2>1. \A c \in Coins : v[c] = u[c]
    BY <1>2, <1>4, <1>5
  <2> QED
    BY <1>3, <2>1, Zenon
<1>6. ASSUME v = u, NEW c \in M \ Spends(b)
      PROVE  u[c] = Missing
  BY <1>1, <1>2, <1>4, <1>6
<1>7. v = u <=> \A c \in M \ Spends(b) : u[c] = Missing
  BY <1>5, <1>6
<1> QED
  BY <1>7 DEF v, M

-----------------------------------------------------------------------------
(* What became of the coins: LedgerInv of DbcLedgerProofs, in this node's terms. *)

CoinHistory ==
    /\ \A b \in ledgerOf : IsCoinbase(Body[b].coinbase)
    /\ \A c \in Coins : utxo[c] # Missing =>
          \E k \in ledgerOf :
              /\ c \in Creates(k)
              /\ utxo[c].height = Body[k].height
              /\ utxo[c].is_coinbase <=> c \notin Outputs(k)
              /\ \A a \in ledgerOf : c \in Spends(a) => Body[a].height <= Body[k].height
    /\ \A b \in ledgerOf : \A c \in Creates(b) :
          utxo[c] # Missing \/ \E a \in ledgerOf : c \in Spends(a)
    /\ \A a \in ledgerOf : \A c \in Spends(a) :
          \E j \in ledgerOf :
              /\ c \in Creates(j)
              /\ Body[j].height < Body[a].height
              /\ c \in Outputs(j) \/ Body[a].height - Body[j].height >= Maturity

\* A node that suffers no fault keeps it so.
LEMMA CoinsKeepHistory == ReliableSpec => []CoinHistory
<1>1. ReliableSpec => LedgerProofs!LedgerSpec
  BY ChainImplementsLedger, SameLedgerSpec, PTL
<1>2. LedgerProofs!LedgerInv => CoinHistory
  <2>1. /\ \A b : LedgerProofs!Creates(b) = Creates(b)
        /\ \A b : LedgerProofs!Outputs(b) = Outputs(b)
        /\ \A b : LedgerProofs!Spends(b) = Spends(b)
        /\ \A t : LedgerProofs!IsCoinbase(t) <=> IsCoinbase(t)
    BY SameAmounts, SameLedgerAmounts
  <2> QED
    BY <2>1
       DEF CoinHistory, ledgerOf, LedgerProofs!LedgerInv, LedgerProofs!CoinbasesShaped,
           LedgerProofs!CoinsTellOrigin, LedgerProofs!CreatedOrSpent, LedgerProofs!SpentMature
<1> QED
  BY <1>1, <1>2, AbstractTheorems, PTL

-----------------------------------------------------------------------------
(* The databases.                                                          *)

\* What is stored, between any two of the writes of put_block.
StoredInv ==
    /\ stage \in {"idle", "utxo", "tip"} => blocks = CanonicalChain
    /\ stage \in {"block", "height"} => blocks = CanonicalChain \cup {job}

\* Every step of a node without faults keeps the stored blocks and the chain together.
LEMMA StepKeepsStored == ChainInv /\ StoredInv /\ [Operation]_vars => StoredInv'
<1> SUFFICES ASSUME ChainInv, StoredInv, [Operation]_vars PROVE StoredInv'
  OBVIOUS
<1>1. CASE UNCHANGED <<index, tip>>
  <2>1. CanonicalChain' = CanonicalChain
    BY <1>1 DEF CanonicalChain, OnChain
  <2>2. ASSUME NEW b \in Blocks, CommitUtxo(b) PROVE StoredInv'
    <3>1. stage = "idle"
      BY <2>2, ReadyIsReceived DEF CommitUtxo
    <3> QED
      BY <2>1, <2>2, <3>1 DEF CommitUtxo, StoredInv, chainDb
  <2>3. CASE PutBlock
    BY <2>1, <2>3 DEF PutBlock, StoredInv
  <2>4. CASE PutTip
    BY <1>1, <2>4, BlockAssumption, ConnectsAbove, BodyFields
       DEF PutTip, ChainInv, TypeOK, JobExtends
  <2>5. CASE PutHeight
    BY <2>1, <2>5 DEF PutHeight, StoredInv
  <2>6. CASE FinishAccept
    BY <2>1, <2>6 DEF FinishAccept, StoredInv, chainDb
  <2>7. CASE \/ \E b \in Blocks : AddOrphan(b)
             \/ \E t \in Offered : AddMempoolTx(t)
             \/ UNCHANGED vars
    BY <2>1, <2>7 DEF AddOrphan, AddMempoolTx, StoredInv, chainDb, vars
  <2> QED
    BY <2>2, <2>3, <2>4, <2>5, <2>6, <2>7 DEF Operation
<1>2. CASE PutHeight
  BY <1>2, PutHeightKeepsCanonical DEF PutHeight, StoredInv
<1>3. CASE PutTip
  BY <1>3, PutTipExtendsCanonical DEF PutTip, StoredInv
<1> QED
  BY <1>1, <1>2, <1>3
     DEF Operation, CommitUtxo, PutBlock, FinishAccept, AddOrphan, AddMempoolTx, vars, chainDb

\* StoredInv holds in every state of a node that suffers no fault.
LEMMA StoredInvariant == ReliableSpec => []StoredInv
<1>1. Init => StoredInv
  BY EmptyChain DEF Init, StoredInv
<1> QED
  BY <1>1, StepKeepsStored, ReliableInvariant, PTL DEF ReliableSpec

\* While nothing fails, "already stored" means "on the chain" whenever accept_block
\* asks (chain.rs:124), so answering Ok(None) loses no block.
THEOREM StoredMeansCanonical == ReliableSpec => []StoredIsCanonical
<1>1. StoredInv => StoredIsCanonical
  BY DEF StoredInv, StoredIsCanonical
<1> QED
  BY <1>1, StoredInvariant, PTL

-----------------------------------------------------------------------------
(* The mempool.                                                            *)

\* The height of the ledger's top, counting the block in hand.
TopHeight == IF topOf = NoBlock THEN 0 ELSE Body[topOf].height

\* What was once true of the coins a transaction names stays true: blocks of the chain
\* created them, and those that a coinbase created are deep enough.
Funded(t) ==
    /\ NullCoin \notin Inputs(t)
    /\ InputSum(t) >= OutputSum(t)
    /\ \A c \in Inputs(t) :
          \E k \in ledgerOf :
              /\ c \in Creates(k)
              /\ c \in Outputs(k) \/ TopHeight - Body[k].height >= Maturity

PoolInv == \A t \in mempool : IsCoinbase(t) \/ Funded(t)

\* The block that comes next raises the top by at most one.
LEMMA NextTop ==
    ASSUME ChainInv, NEW b \in Blocks, CommitUtxo(b)
    PROVE  /\ b \in Ready
           /\ ledgerOf' = ledgerOf \cup {b}
           /\ TopHeight \in Nat /\ TopHeight' \in Nat
           /\ TopHeight' >= TopHeight
<1>1. b \in Ready /\ stage = "idle" /\ Connects(tip, b)
  BY ReadyIsReceived DEF CommitUtxo
<1>2. job = NoBlock /\ job' = b /\ b # NoBlock /\ tip' = tip
  BY <1>1, BlockAssumption DEF ChainInv, TypeOK, CommitUtxo, chainDb
<1>3. CanonicalChain' = CanonicalChain
  BY DEF CommitUtxo, CanonicalChain, OnChain, chainDb
<1>4. topOf = tip /\ topOf' = b
  BY <1>2 DEF topOf
<1>5. Body[b].height \in Nat
  BY BodyFields
<1>6. TopHeight' = Body[b].height
  BY <1>2, <1>4 DEF TopHeight
<1>7. CASE tip = NoBlock
  <2>1. TopHeight = 0
    BY <1>4, <1>7 DEF TopHeight
  <2> QED
    BY <1>1, <1>2, <1>3, <1>5, <1>6, <2>1 DEF ledgerOf
<1>8. CASE tip # NoBlock
  <2>1. /\ TopHeight = Body[tip].height /\ Body[tip].height \in Nat
        /\ Body[b].height = Body[tip].height + 1
    BY <1>1, <1>4, <1>8, ConnectsAbove DEF TopHeight
  <2> QED
    BY <1>1, <1>2, <1>3, <1>5, <1>6, <2>1 DEF ledgerOf
<1> QED
  BY <1>7, <1>8

\* A transaction that entered the mempool is funded.
LEMMA EntersFunded ==
    ASSUME ChainInv, CoinHistory, NEW t \in Offered, AddMempoolTx(t)
    PROVE  IsCoinbase(t) \/ Funded(t)
<1>1. stage = "idle" /\ job = NoBlock /\ t \in Txs
  BY OfferAssumption DEF AddMempoolTx, ChainInv, TypeOK
<1>2. TopHeight = TipHeight
  BY <1>1 DEF TopHeight, TipHeight, topOf
<1>3. SUFFICES ASSUME ~IsCoinbase(t) PROVE Funded(t)
  OBVIOUS
<1>4. /\ NullCoin \notin Inputs(t) /\ InputSum(t) >= OutputSum(t)
      /\ \A c \in Inputs(t) : utxo[c] # Missing /\ IsMature(utxo[c], TopHeight)
  BY <1>2, <1>3 DEF AddMempoolTx, ValidTransaction
<1>5. Inputs(t) \subseteq Coins
  <2>1. Tx[t].inputs \in Seq(Coins)
    BY <1>1, BlockAssumption DEF TxBody
  <2> QED
    BY <2>1 DEF Inputs, Range
<1>6. ASSUME NEW c \in Inputs(t)
      PROVE  \E k \in ledgerOf :
                /\ c \in Creates(k)
                /\ c \in Outputs(k) \/ TopHeight - Body[k].height >= Maturity
  <2>1. PICK k \in ledgerOf :
           /\ c \in Creates(k)
           /\ utxo[c].height = Body[k].height
           /\ utxo[c].is_coinbase <=> c \notin Outputs(k)
    BY <1>4, <1>5 DEF CoinHistory
  <2> QED
    BY <1>4, <2>1 DEF IsMature
<1> QED
  BY <1>4, <1>6 DEF Funded

\* Funds do not go away while the ledger grows.
LEMMA FundedStays ==
    ASSUME NEW t, Funded(t), ledgerOf \subseteq ledgerOf', ledgerOf \subseteq Blocks,
           TopHeight \in Nat, TopHeight' \in Nat, TopHeight' >= TopHeight
    PROVE  Funded(t)'
<1>1. ASSUME NEW c \in Inputs(t)
      PROVE  \E k \in ledgerOf' :
                /\ c \in Creates(k)
                /\ c \in Outputs(k) \/ TopHeight' - Body[k].height >= Maturity
  <2>1. PICK k \in ledgerOf :
           /\ c \in Creates(k)
           /\ c \in Outputs(k) \/ TopHeight - Body[k].height >= Maturity
    BY DEF Funded
  <2>2. Body[k].height \in Nat /\ Maturity \in Nat
    BY BodyFields, UtxoAssumption
  <2> QED
    BY <2>1, <2>2
<1> QED
  BY <1>1 DEF Funded

\* The ledger holds blocks, and its top has a height.
LEMMA LedgerTypes ==
    ASSUME ChainInv
    PROVE  ledgerOf \subseteq Blocks /\ TopHeight \in Nat
<1>1. tip \in Blocks \cup {NoBlock} /\ job \in Blocks \cup {NoBlock}
  BY DEF ChainInv, TypeOK
<1>2. CanonicalChain \subseteq Blocks
  <2> SUFFICES ASSUME NEW h \in Heights, OnChain(h) PROVE index[h] \in Blocks
    BY DEF CanonicalChain
  <2>1. tip # NoBlock /\ h \in 0..Body[tip].height
    BY BlockAssumption DEF OnChain, Heights
  <2> QED
    BY <2>1 DEF ChainInv, Linked, Db, TypeOK
<1>3. topOf \in Blocks \cup {NoBlock}
  BY <1>1 DEF topOf
<1>4. TopHeight \in Nat
  BY <1>3, BodyFields DEF TopHeight
<1> QED
  BY <1>1, <1>2, <1>4 DEF ledgerOf

\* Every step of a node without faults keeps PoolInv.
LEMMA StepKeepsPool ==
    ChainInv /\ CoinHistory /\ PoolInv /\ [Operation]_vars => PoolInv'
<1> SUFFICES ASSUME ChainInv, CoinHistory, PoolInv, [Operation]_vars PROVE PoolInv'
  OBVIOUS
<1>1. ledgerOf \subseteq Blocks /\ TopHeight \in Nat
  BY LedgerTypes
<1>2. CASE \E b \in Blocks : CommitUtxo(b)
  <2>1. PICK b \in Blocks : CommitUtxo(b)
    BY <1>2
  <2>2. mempool' = mempool
    BY <2>1 DEF CommitUtxo
  <2>3. ledgerOf \subseteq ledgerOf' /\ TopHeight' \in Nat /\ TopHeight' >= TopHeight
    BY <2>1, NextTop
  <2> QED
    BY <1>1, <2>2, <2>3, FundedStays DEF PoolInv
<1>3. CASE ~\E b \in Blocks : CommitUtxo(b)
  <2>1. UNCHANGED <<ledgerOf, topOf, utxo>>
    BY <1>3, OtherStepsStutter DEF Operation
  <2>2. TopHeight' = TopHeight
    BY <2>1 DEF TopHeight
  <2>3. \A t : Funded(t) => Funded(t)'
    BY <1>1, <2>1, <2>2, FundedStays
  <2>4. ASSUME NEW t \in Offered, AddMempoolTx(t) PROVE PoolInv'
    <3>1. IsCoinbase(t) \/ Funded(t)
      BY <2>4, EntersFunded
    <3>2. mempool' \subseteq mempool \cup {t}
      BY <2>4 DEF AddMempoolTx
    <3> QED
      BY <2>3, <3>1, <3>2 DEF PoolInv
  <2>5. CASE ~\E t \in Offered : AddMempoolTx(t)
    <3>1. mempool' \subseteq mempool
      BY <1>3, <2>5 DEF Operation, PutBlock, PutHeight, PutTip, FinishAccept, AddOrphan, vars
    <3> QED
      BY <2>3, <3>1 DEF PoolInv
  <2> QED
    BY <2>4, <2>5
<1> QED
  BY <1>2, <1>3

\* What a transaction creates was not there before, unless the transaction itself is on
\* the chain already.
LEMMA NewCoinsFree ==
    ASSUME ChainInv, CoinHistory, NEW t \in Txs, ~IsCoinbase(t),
           \A b \in ledgerOf : t \notin Regular(b),
           NEW c \in Makes(t), utxo[c] # Missing
    PROVE  FALSE
<1>1. c \in Coins
  <2>1. Tx[t].outputs \in Seq(Coins)
    BY BlockAssumption DEF TxBody
  <2> QED
    BY <2>1 DEF Makes, Range
<1>2. PICK k \in ledgerOf : c \in Creates(k)
  BY <1>1 DEF CoinHistory
<1>3. k \in Blocks
  BY LedgerTypes
<1>4. PICK s \in Regular(k) \cup {Body[k].coinbase} : c \in Makes(s)
  BY <1>2 DEF Creates, Outputs
<1>5. s \in Txs
  BY <1>3, BodyFields
<1>6. s = t
  BY <1>4, <1>5, OutpointAssumption
<1> QED
  BY <1>4, <1>6 DEF CoinHistory

\* The coins of a funded transaction are there and mature, if no block took one of them
\* and no two blocks created one of them.
LEMMA FundsUsable ==
    ASSUME ChainInv, CoinHistory, NEW t \in Txs, Funded(t), NEW c \in Inputs(t),
           \A b \in ledgerOf : c \notin Spends(b),
           \A a, b \in ledgerOf : c \in Creates(a) \cap Creates(b) => a = b
    PROVE  utxo[c] # Missing /\ IsMature(utxo[c], TopHeight + 1)
<1>1. c \in Coins
  <2>1. Tx[t].inputs \in Seq(Coins)
    BY BlockAssumption DEF TxBody
  <2> QED
    BY <2>1 DEF Inputs, Range
<1>2. PICK k \in ledgerOf :
         /\ c \in Creates(k)
         /\ c \in Outputs(k) \/ TopHeight - Body[k].height >= Maturity
  BY DEF Funded
<1>3. utxo[c] # Missing
  BY <1>2 DEF CoinHistory
<1>4. PICK j \in ledgerOf :
         /\ c \in Creates(j)
         /\ utxo[c].height = Body[j].height
         /\ utxo[c].is_coinbase <=> c \notin Outputs(j)
  BY <1>1, <1>3 DEF CoinHistory
<1>5. j = k
  BY <1>2, <1>4
<1>6. TopHeight \in Nat /\ Body[k].height \in Nat /\ Maturity \in Nat
  BY LedgerTypes, BodyFields, UtxoAssumption
<1>7. utxo[c].is_coinbase => (TopHeight + 1) - utxo[c].height >= Maturity
  BY <1>2, <1>4, <1>5, <1>6
<1> QED
  BY <1>3, <1>7, Zenon DEF IsMature

\* While nothing fails, a waiting transaction that no block can take any more has the
\* shape of a coinbase, is on the chain, lost a coin to a block of the chain, or spends one
\* that two blocks created: maturity, a replaced parent or another entry never make it so
\* (mempool.rs remove_confirmed leaves such entries behind).
THEOREM OnlyConflictsMakeStale == ReliableSpec => []StaleOnlyByConflict
<1>1. Init => PoolInv
  BY DEF Init, PoolInv
<1>2. ChainInv /\ CoinHistory /\ PoolInv => StaleOnlyByConflict
  <2> SUFFICES ASSUME ChainInv, CoinHistory, PoolInv, stage = "idle", NEW t \in mempool,
                      ~IsCoinbase(t),
                      \A b \in CanonicalChain : t \notin Regular(b) /\ Inputs(t) \cap Spends(b) = {},
                      ~MadeTwice(Inputs(t))
               PROVE  Includable(t)
    BY DEF StaleOnlyByConflict
  <2>1. job = NoBlock /\ t \in Txs
    BY DEF ChainInv, TypeOK
  <2>2. ledgerOf = CanonicalChain /\ TopHeight = TipHeight
    BY <2>1 DEF ledgerOf, topOf, TopHeight, TipHeight
  <2>3. Funded(t)
    BY DEF PoolInv
  <2>4. ASSUME NEW c \in Inputs(t)
        PROVE  utxo[c] # Missing /\ IsMature(utxo[c], TipHeight + 1)
    <3>1. \A b \in ledgerOf : c \notin Spends(b)
      BY <2>2
    <3>2. \A a, b \in ledgerOf : c \in Creates(a) \cap Creates(b) => a = b
      BY <2>2 DEF MadeTwice
    <3> QED
      BY <2>1, <2>2, <2>3, <3>1, <3>2, FundsUsable
  <2>5. ASSUME NEW c \in Makes(t)
        PROVE  utxo[c] = Missing
    BY <2>1, <2>2, NewCoinsFree
  <2> QED
    BY <2>3, <2>4, <2>5 DEF Includable, ValidTransaction, Funded
<1> QED
  BY <1>1, <1>2, StepKeepsPool, ReliableInvariant, CoinsKeepHistory, PTL DEF ReliableSpec

-----------------------------------------------------------------------------
(* The coin set is the replay of the chain.                                *)

\* g replays the first n + 1 blocks of a height index, as CoinsAfter does.
Replays(g, idx, n) ==
    g = [h \in -1..n |-> IF h = -1 THEN EmptyUtxo ELSE Apply(g[h - 1], idx[h])]

\* Induction over the natural numbers, the inductive hypothesis being membership in F.
LEMMA NaturalInduction ==
    ASSUME NEW F, 0 \in F, \A n \in Nat : n \in F => n + 1 \in F
    PROVE  \A n \in Nat : n \in F
<1> DEFINE Bad == {n \in Nat : n \notin F}
           Less == OpToRel(<, Nat)
<1>1. SUFFICES ASSUME Bad # {}
               PROVE  FALSE
  OBVIOUS
<1>2. PICK n \in Bad : \A m \in Bad : ~(<<m, n>> \in Less)
  <2>1. IsWellFoundedOn(Less, Nat) /\ Bad \subseteq Nat
    BY NatLessThanWellFounded, Zenon
  <2> HIDE DEF Bad, Less
  <2> QED
    BY <1>1, <2>1, WFMin
<1>3. n \in Nat \ {0} /\ n - 1 \in Nat /\ n - 1 < n
  OBVIOUS
<1>4. <<n - 1, n>> \in Less
  BY <1>3, Zenon DEF OpToRel
<1>5. n - 1 \in F
  BY <1>2, <1>3, <1>4
<1> QED
  BY <1>3, <1>5

\* Every part of an index can be replayed.
LEMMA ReplayExists ==
    ASSUME NEW idx, NEW n \in Nat
    PROVE  \E g : Replays(g, idx, n - 1)
<1> DEFINE F == {m \in Nat : \E g : Replays(g, idx, m - 1)}
<1>1. 0 \in F
  <2>1. Replays([h \in -1..-1 |-> EmptyUtxo], idx, -1)
    BY DEF Replays
  <2> QED
    BY <2>1
<1>2. ASSUME NEW m \in Nat, m \in F
      PROVE  m + 1 \in F
  <2>1. PICK g : Replays(g, idx, m - 1)
    BY <1>2
  <2> DEFINE h == [k \in -1..m |-> IF k < m THEN g[k] ELSE Apply(g[m - 1], idx[m])]
  <2>2. ASSUME NEW k \in -1..m
        PROVE  h[k] = IF k = -1 THEN EmptyUtxo ELSE Apply(h[k - 1], idx[k])
    <3>1. CASE k = m
      BY <3>1
    <3>2. CASE k # m
      <4>1. k \in -1..m - 1 /\ h[k] = g[k] /\ (k # -1 => h[k - 1] = g[k - 1])
        BY <3>2
      <4>2. g[k] = IF k = -1 THEN EmptyUtxo ELSE Apply(g[k - 1], idx[k])
        BY <2>1, <4>1 DEF Replays
      <4> QED
        BY <4>1, <4>2
    <3> QED
      BY <3>1, <3>2
  <2>3. Replays(h, idx, m)
    <3> HIDE DEF h
    <3>1. h = [k \in -1..m |-> h[k]]
      BY DEF h
    <3> QED
      BY <2>2, <3>1, Zenon DEF Replays
  <2>4. m = (m + 1) - 1
    OBVIOUS
  <2> QED
    BY <2>3, <2>4
<1>3. n \in F
  <2> HIDE DEF F
  <2> QED
    BY <1>1, <1>2, NaturalInduction
<1> QED
  BY <1>3

\* Two indexes that agree up to a height have the same coins there.
LEMMA ReplayOnce ==
    ASSUME NEW i, NEW j, NEW g, NEW h, NEW m \in Nat, NEW n \in Nat,
           Replays(g, i, m - 1), Replays(h, j, n - 1),
           n <= m, \A x \in 0..n - 1 : i[x] = j[x]
    PROVE  g[n - 1] = h[n - 1]
<1> DEFINE F == {x \in Nat : x <= n => g[x - 1] = h[x - 1]}
<1>1. \A x \in -1..n - 1 : /\ g[x] = IF x = -1 THEN EmptyUtxo ELSE Apply(g[x - 1], i[x])
                          /\ h[x] = IF x = -1 THEN EmptyUtxo ELSE Apply(h[x - 1], j[x])
  <2>1. \A x \in -1..n - 1 : x \in -1..m - 1
    OBVIOUS
  <2> QED
    BY <2>1, Zenon DEF Replays
<1>2. 0 \in F
  BY <1>1
<1>3. ASSUME NEW x \in Nat, x \in F
      PROVE  x + 1 \in F
  <2>1. SUFFICES ASSUME x + 1 <= n PROVE g[x] = h[x]
    OBVIOUS
  <2>2. x \in -1..n - 1 /\ x # -1 /\ x \in 0..n - 1 /\ x <= n
    BY <2>1
  <2>3. g[x - 1] = h[x - 1] /\ i[x] = j[x]
    BY <1>3, <2>2
  <2> QED
    BY <1>1, <2>2, <2>3
<1>4. n \in F
  <2> HIDE DEF F
  <2> QED
    BY <1>2, <1>3, NaturalInduction
<1> QED
  BY <1>4

\* CoinsAfter is such a replay.
LEMMA CoinsAfterReplays ==
    ASSUME NEW idx, NEW n \in Nat
    PROVE  \E g : Replays(g, idx, n - 1) /\ CoinsAfter(idx, n - 1) = g[n - 1]
<1>1. \E g : Replays(g, idx, n - 1)
  BY ReplayExists
<1> QED
  BY <1>1, Zenon DEF CoinsAfter, Replays

LEMMA CoinsAfterNone == \A idx : CoinsAfter(idx, -1) = EmptyUtxo
<1> SUFFICES ASSUME NEW idx PROVE CoinsAfter(idx, -1) = EmptyUtxo
  OBVIOUS
<1>1. PICK g : Replays(g, idx, 0 - 1) /\ CoinsAfter(idx, 0 - 1) = g[0 - 1]
  BY CoinsAfterReplays
<1> QED
  BY <1>1 DEF Replays

\* One block more is one block applied.
LEMMA CoinsAfterNext ==
    ASSUME NEW idx, NEW n \in Nat
    PROVE  CoinsAfter(idx, n) = Apply(CoinsAfter(idx, n - 1), idx[n])
<1> DEFINE m == n + 1
<1>0. m \in Nat /\ n <= m
  OBVIOUS
<1>1. m - 1 = n /\ n \in -1..n /\ n # -1
  OBVIOUS
<1> HIDE DEF m
<1>2. PICK g : Replays(g, idx, m - 1) /\ CoinsAfter(idx, m - 1) = g[m - 1]
  BY <1>0, CoinsAfterReplays
<1>3. PICK h : Replays(h, idx, n - 1) /\ CoinsAfter(idx, n - 1) = h[n - 1]
  BY CoinsAfterReplays
<1>4. g[n - 1] = h[n - 1]
  BY <1>0, <1>2, <1>3, ReplayOnce
<1>5. g[n] = Apply(g[n - 1], idx[n])
  BY <1>1, <1>2 DEF Replays
<1> QED
  BY <1>1, <1>2, <1>3, <1>4, <1>5

\* The coins depend on the part of the index that is replayed only.
LEMMA CoinsAfterSame ==
    ASSUME NEW i, NEW j, NEW n \in Nat, \A x \in 0..n - 1 : i[x] = j[x]
    PROVE  CoinsAfter(i, n - 1) = CoinsAfter(j, n - 1)
<1>1. PICK g : Replays(g, i, n - 1) /\ CoinsAfter(i, n - 1) = g[n - 1]
  BY CoinsAfterReplays
<1>2. PICK h : Replays(h, j, n - 1) /\ CoinsAfter(j, n - 1) = h[n - 1]
  BY CoinsAfterReplays
<1>3. n <= n
  OBVIOUS
<1>4. g[n - 1] = h[n - 1]
  BY <1>1, <1>2, <1>3, ReplayOnce
<1> QED
  BY <1>1, <1>2, <1>4

\* The height of the tip, -1 on an empty chain.
Top == IF tip = NoBlock THEN -1 ELSE Body[tip].height

\* What the coins are, between any two writes of put_block: the UTXO batch is one block
\* ahead of the chain until the "tip" put.
ReplayInv ==
    /\ stage \in {"idle", "tip"} => utxo = CoinsAfter(index, Top)
    /\ stage \in {"utxo", "block", "height"} => utxo = Apply(CoinsAfter(index, Top), job)

LEMMA TopType == ASSUME ChainInv PROVE Top + 1 \in Nat /\ Top \in Int /\ Top >= -1
<1>1. tip # NoBlock => tip \in Blocks
  BY DEF ChainInv, TypeOK
<1>2. tip # NoBlock => Body[tip].height \in Nat
  BY <1>1, BodyFields
<1> QED
  BY <1>2 DEF Top

\* A block that connects comes right above the tip.
LEMMA ConnectsAtTop ==
    ASSUME ChainInv, NEW b \in Blocks, Connects(tip, b)
    PROVE  Body[b].height = Top + 1
<1>1. CASE tip = NoBlock
  BY <1>1, ConnectsAbove DEF Top
<1>2. CASE tip # NoBlock
  BY <1>2, ConnectsAbove DEF Top
<1> QED
  BY <1>1, <1>2

\* The "h:" put is above the tip, and the "tip" put counts the block whose coins are there.
LEMMA PutHeightKeepsReplay ==
    ASSUME ChainInv, ReplayInv, PutHeight
    PROVE  ReplayInv'
<1>1. /\ job \in Blocks /\ Connects(tip, job)
      /\ index' = [index EXCEPT ![Body[job].height] = job]
      /\ index \in [Heights -> Blocks \cup {NoBlock}]
      /\ stage = "height" \/ stage = "block"
      /\ stage' = "height"
      /\ UNCHANGED <<tip, utxo, job>>
  BY DEF PutHeight, ChainInv, TypeOK, JobExtends
<1>2. Top' = Top
  BY <1>1 DEF Top
<1>3. \A x \in 0..Top : index[x] = index'[x]
  <2>1. ASSUME NEW x \in 0..Top PROVE index[x] = index'[x]
    <3>1. Body[job].height = Top + 1 /\ Top \in Int
      BY <1>1, ConnectsAtTop, TopType
    <3>2. x # Body[job].height
      BY <3>1
    <3> QED
      BY <1>1, <3>2
  <2> QED
    BY <2>1
<1>4. CoinsAfter(index, Top) = CoinsAfter(index', Top)
  <2> DEFINE n == Top + 1
  <2>1. n \in Nat /\ n - 1 = Top
    BY TopType
  <2> HIDE DEF n
  <2> QED
    BY <1>3, <2>1, CoinsAfterSame
<1> QED
  BY <1>1, <1>2, <1>4 DEF ReplayInv

LEMMA PutTipKeepsReplay ==
    ASSUME ChainInv, ReplayInv, PutTip
    PROVE  ReplayInv'
<1>1. /\ job \in Blocks /\ job # NoBlock /\ Connects(tip, job)
      /\ index[Body[job].height] = job
      /\ stage = "height" /\ stage' = "tip"
      /\ tip' = job
      /\ UNCHANGED <<index, utxo>>
  BY BlockAssumption DEF PutTip, ChainInv, TypeOK, JobExtends
<1>2. Body[job].height = Top + 1 /\ Top' = Body[job].height
  BY <1>1, ConnectsAtTop DEF Top
<1>3. CoinsAfter(index, Top + 1) = Apply(CoinsAfter(index, Top), index[Top + 1])
  <2>1. Top + 1 \in Nat /\ (Top + 1) - 1 = Top
    BY TopType
  <2> QED
    BY <2>1, CoinsAfterNext
<1> QED
  BY <1>1, <1>2, <1>3 DEF ReplayInv

LEMMA StepKeepsReplay == ChainInv /\ ReplayInv /\ [Operation]_vars => ReplayInv'
<1> SUFFICES ASSUME ChainInv, ReplayInv, [Operation]_vars PROVE ReplayInv'
  OBVIOUS
<1>1. CASE PutHeight
  BY <1>1, PutHeightKeepsReplay
<1>2. CASE PutTip
  BY <1>2, PutTipKeepsReplay
<1>3. CASE UNCHANGED <<index, tip>>
  <2>1. Top' = Top
    BY <1>3 DEF Top
  <2>2. ASSUME NEW b \in Blocks, CommitUtxo(b) PROVE ReplayInv'
    <3>1. stage = "idle"
      BY <2>2, ReadyIsReceived DEF CommitUtxo
    <3> QED
      BY <1>3, <2>1, <2>2, <3>1 DEF CommitUtxo, ReplayInv
  <2>3. CASE PutBlock \/ FinishAccept
    BY <1>3, <2>1, <2>3 DEF PutBlock, FinishAccept, ReplayInv
  <2>4. CASE \/ \E b \in Blocks : AddOrphan(b)
             \/ \E t \in Offered : AddMempoolTx(t)
             \/ UNCHANGED vars
    BY <1>3, <2>1, <2>4 DEF AddOrphan, AddMempoolTx, ReplayInv, vars
  <2> QED
    BY <1>1, <1>2, <2>2, <2>3, <2>4 DEF Operation
<1> QED
  BY <1>1, <1>2, <1>3
     DEF Operation, CommitUtxo, PutBlock, FinishAccept, AddOrphan, AddMempoolTx, vars, chainDb

\* While nothing fails, the UTXO database is what replaying the chain up to the tip gives,
\* whenever accept_block is not writing (chain.rs apply_block, types/utxo.rs:7).
THEOREM CoinsAreReplay == ReliableSpec => []UtxoIsTipView
<1>1. Init => ReplayInv
  BY CoinsAfterNone DEF Init, ReplayInv, Top
<1>2. ReplayInv => UtxoIsTipView
  BY DEF ReplayInv, UtxoIsTipView, Top
<1> QED
  BY <1>1, <1>2, StepKeepsReplay, ReliableInvariant, PTL DEF ReliableSpec
-----------------------------------------------------------------------------
(* What a user is told of an address (DbcWallet).                          *)

\* The sum a history adds up to.
EntryValue(e) == Value[e.coin]
EntrySums == INSTANCE DbcSums WITH Val <- EntryValue

LEMMA SameCredits ==
    /\ \A E : Credits(E) = EntrySums!Sum(E)
    /\ \A S : EntrySums!IsFiniteSet(S) <=> IsFiniteSet(S)
<1>1. \A E : Credits(E) = EntrySums!Sum(E)
  BY DEF Credits, EntrySums!Sum, EntryValue, EntrySums!MapThenSumSet, MapThenSumSet,
         EntrySums!MapThenFoldSet, MapThenFoldSet
<1>2. \A S : EntrySums!IsFiniteSet(S) <=> IsFiniteSet(S)
  BY DEF IsFiniteSet, EntrySums!IsFiniteSet
<1> QED
  BY <1>1, <1>2

CoinsOf(E) == {e.coin : e \in E}

\* Entries of a history that never show a coin twice are finitely many.
LEMMA EntriesFinite ==
    ASSUME NEW E, CoinsOf(E) \subseteq Coins, \A d, e \in E : d.coin = e.coin => d = e
    PROVE  IsFiniteSet(E) /\ Cardinality(E) <= Cardinality(Coins)
<1> DEFINE f == [e \in E |-> e.coin]
<1>1. f \in [E -> Coins] /\ IsInjective(f)
  BY DEF CoinsOf, IsInjective
<1>2. f \in Injection(E, Coins)
  <2> HIDE DEF f
  <2> QED
    BY <1>1 DEF Injection
<1> QED
  <2> HIDE DEF f
  <2> QED
    BY <1>2, FiniteAssumption, FS_Injection

\* They add up to the worth of the coins they show.
LEMMA CreditsAreWorth ==
    ASSUME NEW E, CoinsOf(E) \subseteq Coins, \A d, e \in E : d.coin = e.coin => d = e
    PROVE  Credits(E) = Worth(CoinsOf(E))
<1> DEFINE F == {T \in SUBSET E : EntrySums!Sum(T) = Values!Sum(CoinsOf(T))}
<1>1. IsFiniteSet(E)
  BY EntriesFinite
<1>2. /\ \A c \in Coins : ValueOf(c) \in Int
      /\ \A e \in E : EntryValue(e) = ValueOf(e.coin) /\ e.coin \in Coins
  BY SupplyAssumption DEF ValueOf, EntryValue, CoinsOf
<1>3. {} \in F
  <2>1. CoinsOf({}) = {}
    BY DEF CoinsOf
  <2> QED
    BY <2>1, EntrySums!SumEmpty, Values!SumEmpty
<1>4. ASSUME NEW T \in SUBSET E, NEW x \in T, T \ {x} \in F
      PROVE  T \in F
  <2> DEFINE U == T \ {x}
             C == CoinsOf(U)
  <2>1. /\ CoinsOf(T) = C \cup {x.coin} /\ x.coin \notin C
        /\ C \cup {x.coin} \subseteq Coins /\ C \subseteq Coins
    BY DEF CoinsOf
  <2>2. IsFiniteSet(T) /\ IsFiniteSet(C)
    BY <1>1, <2>1, FiniteAssumption, FS_Subset
  <2>3. EntrySums!Sum(T) = EntryValue(x) + EntrySums!Sum(U)
    <3>1. \A e \in T : EntryValue(e) \in Int
      BY <1>2
    <3> QED
      BY <2>2, <3>1, EntrySums!SumRemove, SameCredits
  <2>4. Values!Sum(C \cup {x.coin}) = Values!Sum(C) + ValueOf(x.coin)
    <3> HIDE DEF C
    <3>1. \A c \in C \cup {x.coin} : ValueOf(c) \in Int
      BY <1>2, <2>1
    <3> QED
      BY <2>1, <2>2, <3>1, Values!SumAdd, SameSums
  <2>5. Values!Sum(C) \in Int /\ ValueOf(x.coin) \in Int
    <3> HIDE DEF C
    <3> QED
      BY <1>2, <2>1, <2>2, Values!SumType, SameSums
  <2>6. EntrySums!Sum(U) = Values!Sum(C)
    BY <1>4
  <2>7. EntrySums!Sum(T) = Values!Sum(CoinsOf(T))
    <3> HIDE DEF C, U
    <3> QED
      BY <1>2, <2>1, <2>3, <2>4, <2>5, <2>6
  <2> QED
    BY <2>7
<1>5. E \in F
  <2>1. \A T \in SUBSET E : \A x \in T : T \ {x} \in F => T \in F
    BY <1>4
  <2> HIDE DEF F
  <2> QED
    BY <1>1, <1>3, <2>1, Values!FiniteInduction, SameSums, Zenon
<1> QED
  BY <1>5, SameSums, SameCredits

-----------------------------------------------------------------------------

\* The node between two calls of accept_block, with a chain.
Answering == stage = "idle" /\ tip # NoBlock /\ ChainInv /\ CoinHistory

\* The whole history of an address.
Shown(a) == UNION {Entries(a, h) : h \in {i \in Heights : OnChain(i)}}

\* What the height index holds up to the tip.
LEMMA Indexed ==
    ASSUME Answering
    PROVE  /\ ledgerOf = CanonicalChain
           /\ TipHeight \in Nat
           /\ \A h \in Heights : OnChain(h) <=> h <= TipHeight
           /\ \A h \in 0..TipHeight : h \in Heights
           /\ \A h \in Heights : h \in Nat
           /\ \A h \in Heights : OnChain(h) =>
                 /\ index[h] \in CanonicalChain
                 /\ index[h] \in Blocks
                 /\ Body[index[h]].height = h
           /\ \A b \in CanonicalChain : \E h \in Heights : OnChain(h) /\ b = index[h]
<1>1. job = NoBlock /\ tip \in Blocks
  BY DEF Answering, ChainInv, TypeOK
<1>2. ledgerOf = CanonicalChain
  BY <1>1 DEF ledgerOf
<1>3. TipHeight = Body[tip].height /\ TipHeight \in Heights /\ TipHeight \in Nat
  BY <1>1, BodyFields DEF TipHeight, Answering
<1>4. \A h \in Heights : h \in Nat
  BY BlockAssumption DEF Heights
<1>5. \A h \in 0..TipHeight : h \in Heights
  BY <1>3, BlockAssumption DEF Heights
<1>6. \A h \in Heights : OnChain(h) <=> h <= TipHeight
  BY <1>3 DEF OnChain, Answering
<1>7. ASSUME NEW h \in Heights, OnChain(h)
      PROVE  index[h] \in Blocks /\ Body[index[h]].height = h
  <2>1. h \in 0..Body[tip].height
    BY <1>3, <1>4, <1>6, <1>7
  <2> QED
    BY <2>1 DEF Answering, ChainInv, Linked, Db, TypeOK
<1>8. /\ \A h \in Heights : OnChain(h) => index[h] \in CanonicalChain
      /\ \A b \in CanonicalChain : \E h \in Heights : OnChain(h) /\ b = index[h]
  BY DEF CanonicalChain
<1> QED
  BY <1>2, <1>3, <1>4, <1>5, <1>6, <1>7, <1>8

\* What a history shows of output k of transaction n of the block at height h.
Row(h, n, k) ==
    [height |-> h, tx |-> n,
     kind   |-> IF n # 0 THEN "received" ELSE IF k = 1 THEN "coinbase" ELSE "output",
     coin   |-> Tx[TxAt(h, n)].outputs[k]]

\* The rows of one block.
LEMMA EntryFields ==
    ASSUME NEW a, NEW h, index[h] \in Blocks, NEW e
    PROVE  e \in Entries(a, h) <=>
              \E n \in Places(h) : \E k \in DOMAIN Tx[TxAt(h, n)].outputs :
                  e = Row(h, n, k) /\ Owner[e.coin] = a
<1>1. DOMAIN Body[index[h]].txs = 1..Len(Body[index[h]].txs) /\ Len(Body[index[h]].txs) \in Nat
  BY BodyFields
<1>2. /\ 0 \in Places(h) /\ TxAt(h, 0) = Body[index[h]].coinbase
      /\ \A n \in DOMAIN Body[index[h]].txs :
            n \in Places(h) /\ n # 0 /\ TxAt(h, n) = Body[index[h]].txs[n]
      /\ \A n \in Places(h) : n # 0 => n \in DOMAIN Body[index[h]].txs
  BY <1>1 DEF Places, TxAt
<1>3. ASSUME NEW n, NEW t
      PROVE  e \in Rows(a, h, n, t) <=>
                \E k \in DOMAIN Tx[t].outputs :
                    /\ Owner[Tx[t].outputs[k]] = a
                    /\ e = [height |-> h, tx |-> n,
                            kind |-> IF n # 0 THEN "received"
                                     ELSE IF k = 1 THEN "coinbase" ELSE "output",
                            coin |-> Tx[t].outputs[k]]
  BY DEF Rows
<1>4. ASSUME NEW n \in Places(h)
      PROVE  e \in Rows(a, h, n, TxAt(h, n)) <=>
                \E k \in DOMAIN Tx[TxAt(h, n)].outputs : e = Row(h, n, k) /\ Owner[e.coin] = a
  BY <1>3 DEF Row
<1>5. e \in Entries(a, h) <=> \E n \in Places(h) : e \in Rows(a, h, n, TxAt(h, n))
  <2>1. e \in Entries(a, h) <=>
           \/ e \in Rows(a, h, 0, Body[index[h]].coinbase)
           \/ \E n \in DOMAIN Body[index[h]].txs : e \in Rows(a, h, n, Body[index[h]].txs[n])
    BY DEF Entries
  <2> QED
    BY <1>2, <2>1
<1> QED
  BY <1>4, <1>5

\* The coins a block of the chain creates, by the place of the transaction.
LEMMA CreatedAt ==
    ASSUME Answering, NEW h \in Heights, OnChain(h)
    PROVE  /\ \A n \in Places(h) : TxAt(h, n) \in Txs
           /\ 0 \in Places(h) /\ TxAt(h, 0) = Body[index[h]].coinbase
           /\ \A c : c \in Outputs(index[h]) <=>
                 \E n \in Places(h) : n # 0 /\ c \in Makes(TxAt(h, n))
           /\ \A c : c \in Creates(index[h]) <=>
                 \E n \in Places(h) : c \in Makes(TxAt(h, n))
<1>1. index[h] \in Blocks
  BY Indexed
<1>2. /\ Body[index[h]].coinbase \in Txs /\ Body[index[h]].txs \in Seq(Txs)
      /\ DOMAIN Body[index[h]].txs = 1..Len(Body[index[h]].txs)
      /\ Len(Body[index[h]].txs) \in Nat
  BY <1>1, BodyFields
<1>3. /\ 0 \in Places(h) /\ TxAt(h, 0) = Body[index[h]].coinbase
      /\ \A n \in DOMAIN Body[index[h]].txs :
            n \in Places(h) /\ n # 0 /\ TxAt(h, n) = Body[index[h]].txs[n]
      /\ \A n \in Places(h) : n # 0 => n \in DOMAIN Body[index[h]].txs
  BY <1>2 DEF Places, TxAt
<1>4. \A n \in Places(h) : TxAt(h, n) \in Txs
  BY <1>2, <1>3
<1>5. \A c : c \in Outputs(index[h]) <=>
         \E n \in Places(h) : n # 0 /\ c \in Makes(TxAt(h, n))
  BY <1>3 DEF Outputs, Regular, Range
<1>6. \A c : c \in Creates(index[h]) <=>
         \E n \in Places(h) : c \in Makes(TxAt(h, n))
  BY <1>3, <1>5 DEF Creates
<1> QED
  BY <1>3, <1>4, <1>5, <1>6

\* While no transaction repeats another, no coin is created at two places.
LEMMA PlacedOnce ==
    ASSUME Answering, TxsOnce,
           NEW g \in Heights, OnChain(g), NEW m \in Places(g),
           NEW h \in Heights, OnChain(h), NEW n \in Places(h),
           NEW c \in Makes(TxAt(g, m)) \cap Makes(TxAt(h, n))
    PROVE  g = h /\ m = n
<1>1. TxAt(g, m) \in Txs /\ TxAt(h, n) \in Txs
  BY CreatedAt
<1>2. TxAt(g, m) = TxAt(h, n)
  BY <1>1, OutpointAssumption
<1> QED
  BY <1>2 DEF TxsOnce

\* Then one block creates it, as a reward or as a payment and never as both.
LEMMA CreatedOnce ==
    ASSUME Answering, TxsOnce
    PROVE  /\ \A b, d \in CanonicalChain : \A c \in Creates(b) \cap Creates(d) : b = d
           /\ \A b \in CanonicalChain : Makes(Body[b].coinbase) \cap Outputs(b) = {}
<1>1. ASSUME NEW b \in CanonicalChain, NEW d \in CanonicalChain, NEW c \in Creates(b) \cap Creates(d)
      PROVE  b = d
  <2>1. PICK g \in Heights : OnChain(g) /\ b = index[g]
    BY Indexed
  <2>2. PICK h \in Heights : OnChain(h) /\ d = index[h]
    BY Indexed
  <2>3. PICK m \in Places(g) : c \in Makes(TxAt(g, m))
    BY <2>1, CreatedAt
  <2>4. PICK n \in Places(h) : c \in Makes(TxAt(h, n))
    BY <2>2, CreatedAt
  <2>5. g = h
    BY <2>1, <2>2, <2>3, <2>4, PlacedOnce
  <2> QED
    BY <2>1, <2>2, <2>5
<1>2. ASSUME NEW b \in CanonicalChain, NEW c \in Makes(Body[b].coinbase) \cap Outputs(b)
      PROVE  FALSE
  <2>1. PICK h \in Heights : OnChain(h) /\ b = index[h]
    BY Indexed
  <2>2. 0 \in Places(h) /\ c \in Makes(TxAt(h, 0))
    BY <1>2, <2>1, CreatedAt
  <2>3. PICK n \in Places(h) : n # 0 /\ c \in Makes(TxAt(h, n))
    BY <1>2, <2>1, CreatedAt
  <2> QED
    BY <2>1, <2>2, <2>3, PlacedOnce
<1> QED
  BY <1>1, <1>2

\* No coin is shown twice.
LEMMA ShownOnce ==
    ASSUME Answering, TxsOnce, NEW a, NEW d \in Shown(a), NEW e \in Shown(a), d.coin = e.coin
    PROVE  d = e
<1>1. PICK g \in Heights : OnChain(g) /\ d \in Entries(a, g)
  BY DEF Shown
<1>2. PICK h \in Heights : OnChain(h) /\ e \in Entries(a, h)
  BY DEF Shown
<1>3. index[g] \in Blocks /\ index[h] \in Blocks
  BY <1>1, <1>2, Indexed
<1>4. PICK m, j :
           /\ m \in Places(g) /\ j \in DOMAIN Tx[TxAt(g, m)].outputs
           /\ d = Row(g, m, j)
  BY <1>1, <1>3, EntryFields
<1>5. PICK n, k :
           /\ n \in Places(h) /\ k \in DOMAIN Tx[TxAt(h, n)].outputs
           /\ e = Row(h, n, k)
  BY <1>2, <1>3, EntryFields
<1>6. d.coin = Tx[TxAt(g, m)].outputs[j] /\ e.coin = Tx[TxAt(h, n)].outputs[k]
  BY <1>4, <1>5 DEF Row
<1>7. d.coin \in Makes(TxAt(g, m)) /\ d.coin \in Makes(TxAt(h, n))
  BY <1>4, <1>5, <1>6 DEF Makes, Range
<1>8. g = h /\ m = n
  BY <1>1, <1>2, <1>4, <1>5, <1>7, PlacedOnce
<1>9. TxAt(g, m) \in Txs
  BY <1>1, <1>4, CreatedAt
<1>10. IsInjective(Tx[TxAt(g, m)].outputs)
  BY <1>9, OutpointAssumption
<1>11. j = k
  BY <1>4, <1>5, <1>6, <1>8, <1>10 DEF IsInjective
<1> QED
  BY <1>4, <1>5, <1>8, <1>11

\* The outpoints the chain created.
Created == UNION {Creates(b) : b \in CanonicalChain}

\* The history shows every coin the chain ever paid to the address.
LEMMA ShownCoins ==
    ASSUME Answering, NEW a
    PROVE  CoinsOf(Shown(a)) = Paying(a, Created) /\ CoinsOf(Shown(a)) \subseteq Coins
<1>1. ASSUME NEW e \in Shown(a)
      PROVE  e.coin \in Paying(a, Created)
  <2>1. PICK h \in Heights : OnChain(h) /\ e \in Entries(a, h)
    BY <1>1 DEF Shown
  <2>2. index[h] \in CanonicalChain /\ index[h] \in Blocks
    BY <2>1, Indexed
  <2>3. PICK n, k :
           /\ n \in Places(h) /\ k \in DOMAIN Tx[TxAt(h, n)].outputs
           /\ e = Row(h, n, k) /\ Owner[e.coin] = a
    BY <2>1, <2>2, EntryFields
  <2>4. e.coin \in Makes(TxAt(h, n))
    BY <2>3 DEF Row, Makes, Range
  <2>5. e.coin \in Creates(index[h])
    BY <2>1, <2>3, <2>4, CreatedAt
  <2> QED
    BY <2>2, <2>3, <2>5 DEF Created, Paying
<1>2. ASSUME NEW c \in Paying(a, Created)
      PROVE  \E e \in Shown(a) : e.coin = c
  <2>1. PICK b \in CanonicalChain : c \in Creates(b) /\ Owner[c] = a
    BY <1>2 DEF Created, Paying
  <2>2. PICK h \in Heights : OnChain(h) /\ b = index[h]
    BY Indexed
  <2>3. PICK n \in Places(h) : c \in Makes(TxAt(h, n))
    BY <2>1, <2>2, CreatedAt
  <2>4. PICK k \in DOMAIN Tx[TxAt(h, n)].outputs : c = Tx[TxAt(h, n)].outputs[k]
    BY <2>3 DEF Makes, Range
  <2>5. Row(h, n, k).coin = c
    BY <2>4 DEF Row
  <2>6. index[h] \in Blocks
    BY <2>2, Indexed
  <2>7. Row(h, n, k) \in Entries(a, h)
    BY <2>1, <2>4, <2>5, <2>6, EntryFields
  <2>8. Row(h, n, k) \in Shown(a)
    BY <2>2, <2>7 DEF Shown
  <2> QED
    BY <2>5, <2>8
<1>3. Paying(a, Created) \subseteq Coins
  <2>1. ASSUME NEW t \in Txs PROVE Makes(t) \subseteq Coins
    <3>1. Tx[t].outputs \in Seq(Coins)
      BY BlockAssumption DEF TxBody
    <3> QED
      BY <3>1 DEF Makes, Range
  <2>2. \A h \in Heights : OnChain(h) => Creates(index[h]) \subseteq Coins
    BY <2>1, CreatedAt
  <2>3. \A b \in CanonicalChain : Creates(b) \subseteq Coins
    BY <2>2, Indexed
  <2> QED
    BY <2>3 DEF Paying, Created
<1> QED
  BY <1>1, <1>2, <1>3 DEF CoinsOf

\* The limit NoLimit stops no scan: a history has no more entries than there are coins.
LEMMA ScansAll ==
    ASSUME Answering, TxsOnce, NEW a
    PROVE  History(a, NoLimit) = Shown(a)
<1>1. /\ IsFiniteSet(Shown(a)) /\ Cardinality(Shown(a)) <= Cardinality(Coins)
      /\ Cardinality(Coins) \in Nat
  BY ShownCoins, ShownOnce, EntriesFinite, FiniteAssumption, FS_CardinalityType
<1>2. ASSUME NEW h \in Heights, OnChain(h)
      PROVE  Cardinality(UNION {Entries(a, k) : k \in h + 1..TipHeight}) < NoLimit
  <2> DEFINE X == UNION {Entries(a, k) : k \in h + 1..TipHeight}
  <2>1. \A k \in h + 1..TipHeight : k \in Heights /\ OnChain(k)
    <3>1. /\ h \in Nat /\ TipHeight \in Nat
          /\ \A k \in 0..TipHeight : k \in Heights
          /\ \A k \in Heights : OnChain(k) <=> k <= TipHeight
      BY <1>2, Indexed
    <3> QED
      BY <3>1
  <2>2. X \subseteq Shown(a)
    BY <2>1 DEF Shown
  <2>3. Cardinality(X) <= Cardinality(Shown(a)) /\ Cardinality(X) \in Nat
    <3> HIDE DEF X
    <3> QED
      BY <1>1, <2>2, FS_Subset, FS_CardinalityType
  <2>4. Cardinality(Shown(a)) \in Nat
    BY <1>1, FS_CardinalityType
  <2> HIDE DEF X
  <2>5. Cardinality(X) < NoLimit
    BY <1>1, <2>3, <2>4 DEF NoLimit
  <2> QED
    BY <2>5 DEF X
<1>3. Scanned(a, NoLimit) = {h \in Heights : OnChain(h)}
  BY <1>2 DEF Scanned
<1> QED
  BY <1>3 DEF History, Shown

\* The coins an address holds are those it was paid and did not spend.
LEMMA HeldIsUnspent ==
    ASSUME Answering, TxsOnce, NEW a
    PROVE  LET spent == Paying(a, UNION {Spends(b) : b \in CanonicalChain})
           IN  /\ spent \subseteq Paying(a, Created)
               /\ Held(a) = Paying(a, Created) \ spent
<1> DEFINE spent == Paying(a, UNION {Spends(b) : b \in CanonicalChain})
<1>1. ledgerOf = CanonicalChain /\ CoinHistory
  BY Indexed DEF Answering
<1>2. spent \subseteq Paying(a, Created)
  BY <1>1 DEF CoinHistory, Paying, Created
<1>3. Paying(a, Created) \subseteq Coins
  BY ShownCoins
<1>4. ASSUME NEW c \in Coins, Owner[c] = a
      PROVE  utxo[c] # Missing <=> c \in Paying(a, Created) \ spent
  <2>1. CASE utxo[c] # Missing
    <3>1. PICK k \in CanonicalChain :
             /\ c \in Creates(k)
             /\ \A d \in CanonicalChain : c \in Spends(d) => Body[d].height <= Body[k].height
      BY <1>1, <2>1 DEF CoinHistory
    <3>2. ASSUME NEW d \in CanonicalChain, c \in Spends(d)
          PROVE  FALSE
      <4>1. PICK j \in CanonicalChain : c \in Creates(j) /\ Body[j].height < Body[d].height
        BY <1>1, <3>2 DEF CoinHistory
      <4>2. j = k
        BY <3>1, <4>1, CreatedOnce
      <4>3. d \in Blocks /\ k \in Blocks
        BY Indexed
      <4>4. Body[d].height \in Nat /\ Body[k].height \in Nat
        BY <4>3, BodyFields
      <4> QED
        BY <3>1, <3>2, <4>1, <4>2, <4>4
    <3>3. c \in Paying(a, Created)
      BY <1>4, <3>1 DEF Paying, Created
    <3>4. c \notin spent
      BY <3>2 DEF Paying
    <3> QED
      BY <2>1, <3>3, <3>4
  <2>2. CASE utxo[c] = Missing /\ c \in Paying(a, Created)
    <3>1. PICK b \in CanonicalChain : c \in Creates(b)
      BY <2>2 DEF Paying, Created
    <3>2. \E d \in CanonicalChain : c \in Spends(d)
      BY <1>1, <2>2, <3>1 DEF CoinHistory
    <3> QED
      BY <1>4, <2>2, <3>2 DEF Paying
  <2> QED
    BY <2>1, <2>2
<1>5. Held(a) = Paying(a, Created) \ spent
  BY <1>3, <1>4 DEF Held, Paying
<1> QED
  BY <1>2, <1>5

\* A reward the chain created less than Maturity heights ago is there, and immature.
LEMMA RewardWaits ==
    ASSUME Answering, TxsOnce, NEW h \in Heights, OnChain(h), h > TipHeight - Maturity,
           NEW c \in Makes(Body[index[h]].coinbase), c \in Coins
    PROVE  utxo[c] # Missing /\ ~IsMature(utxo[c], TipHeight)
<1>1. ledgerOf = CanonicalChain /\ CoinHistory /\ TipHeight \in Nat /\ Maturity \in Nat
  BY Indexed, UtxoAssumption DEF Answering
<1>2. /\ index[h] \in CanonicalChain /\ Body[index[h]].height = h /\ h \in Nat
  BY Indexed
<1>3. c \in Creates(index[h]) /\ c \notin Outputs(index[h])
  BY <1>2, CreatedOnce DEF Creates
<1>4. ASSUME NEW d \in CanonicalChain, c \in Spends(d)
      PROVE  FALSE
  <2>1. PICK j \in CanonicalChain :
           c \in Creates(j) /\ (c \in Outputs(j) \/ Body[d].height - Body[j].height >= Maturity)
    BY <1>1, <1>4 DEF CoinHistory
  <2>2. j = index[h]
    BY <1>2, <1>3, <2>1, CreatedOnce
  <2>3. Body[d].height - h >= Maturity
    BY <1>2, <1>3, <2>1, <2>2
  <2>4. Body[d].height \in Nat /\ Body[d].height <= TipHeight
    BY Indexed
  <2> QED
    BY <1>1, <1>2, <2>3, <2>4
<1>5. utxo[c] # Missing
  BY <1>1, <1>2, <1>3, <1>4 DEF CoinHistory
<1>6. PICK k \in CanonicalChain :
         /\ c \in Creates(k)
         /\ utxo[c].height = Body[k].height
         /\ utxo[c].is_coinbase <=> c \notin Outputs(k)
  BY <1>1, <1>5 DEF CoinHistory
<1>7. k = index[h]
  BY <1>2, <1>3, <1>6, CreatedOnce
<1>8. utxo[c].height = h /\ utxo[c].is_coinbase
  BY <1>2, <1>3, <1>6, <1>7
<1> QED
  BY <1>1, <1>2, <1>5, <1>8 DEF IsMature

\* The coins an address cannot spend yet are the rewards its history shows as immature.
LEMMA ImmatureIsShown ==
    ASSUME Answering, TxsOnce, NEW a
    PROVE  {c \in Held(a) : ~IsMature(utxo[c], TipHeight)}
             = CoinsOf({e \in Shown(a) : Immature(e)})
<1>1. ledgerOf = CanonicalChain /\ CoinHistory /\ TipHeight \in Nat /\ Maturity \in Nat
  BY Indexed, UtxoAssumption DEF Answering
<1>2. ASSUME NEW c \in Held(a), ~IsMature(utxo[c], TipHeight)
      PROVE  \E e \in Shown(a) : Immature(e) /\ e.coin = c
  <2>1. c \in Coins /\ Owner[c] = a /\ utxo[c] # Missing
    BY <1>2 DEF Held, Paying
  <2>2. PICK b \in CanonicalChain :
           /\ c \in Creates(b)
           /\ utxo[c].height = Body[b].height
           /\ utxo[c].is_coinbase <=> c \notin Outputs(b)
    BY <1>1, <2>1 DEF CoinHistory
  <2>3. PICK h \in Heights : OnChain(h) /\ b = index[h]
    BY Indexed
  <2>4. Body[b].height = h /\ h \in Nat /\ b \in Blocks
    BY <2>3, Indexed
  <2>5. c \notin Outputs(b) /\ ~(TipHeight - h >= Maturity)
    BY <1>2, <2>2, <2>4 DEF IsMature
  <2>6. 0 \in Places(h) /\ TxAt(h, 0) = Body[b].coinbase
    BY <2>3, CreatedAt
  <2>7. PICK k \in DOMAIN Tx[TxAt(h, 0)].outputs : c = Tx[TxAt(h, 0)].outputs[k]
    BY <2>2, <2>5, <2>6 DEF Creates, Makes, Range
  <2>8. /\ Row(h, 0, k).coin = c /\ Row(h, 0, k).height = h
        /\ Row(h, 0, k).kind \in {"coinbase", "output"}
    BY <2>7 DEF Row
  <2>9. Row(h, 0, k) \in Entries(a, h)
    BY <2>1, <2>3, <2>4, <2>6, <2>8, EntryFields
  <2>10. Row(h, 0, k) \in Shown(a)
    BY <2>3, <2>9 DEF Shown
  <2>11. Immature(Row(h, 0, k))
    BY <1>1, <2>4, <2>5, <2>8 DEF Immature
  <2> QED
    BY <2>8, <2>10, <2>11
<1>3. ASSUME NEW e \in Shown(a), Immature(e)
      PROVE  e.coin \in Held(a) /\ ~IsMature(utxo[e.coin], TipHeight)
  <2>1. PICK h \in Heights : OnChain(h) /\ e \in Entries(a, h)
    BY <1>3 DEF Shown
  <2>2. index[h] \in Blocks
    BY <2>1, Indexed
  <2>3. PICK n, k :
           /\ n \in Places(h) /\ k \in DOMAIN Tx[TxAt(h, n)].outputs
           /\ e = Row(h, n, k) /\ Owner[e.coin] = a
    BY <2>1, <2>2, EntryFields
  <2>4. e.height = h /\ (n # 0 => e.kind = "received")
    BY <2>3 DEF Row
  <2>5. n = 0 /\ h > TipHeight - Maturity
    BY <1>3, <2>4 DEF Immature
  <2>6. e.coin = Tx[Body[index[h]].coinbase].outputs[k]
        /\ k \in DOMAIN Tx[Body[index[h]].coinbase].outputs
    BY <2>3, <2>5 DEF Row, TxAt
  <2>7. e.coin \in Makes(Body[index[h]].coinbase)
    BY <2>6 DEF Makes, Range
  <2>8. e.coin \in Coins
    BY <1>3, ShownCoins DEF CoinsOf
  <2>9. utxo[e.coin] # Missing /\ ~IsMature(utxo[e.coin], TipHeight)
    BY <2>1, <2>5, <2>7, <2>8, RewardWaits
  <2> QED
    BY <2>3, <2>8, <2>9 DEF Held, Paying
<1> QED
  BY <1>2, <1>3 DEF CoinsOf

\* While nothing fails, the balance the UTXO database gives and the history the chain
\* database gives agree for every address whose money fits in a word, and all that is not
\* spendable yet is the rewards of the newest blocks, as long as no coinbase repeats an
\* older transaction (wallet_query.rs:123, api/http.rs).
THEOREM BalanceAgreesWithHistory == ReliableSpec => []BalanceIsHistory
<1>1. ASSUME Answering, TxsOnce, NEW a \in Addresses, Worth(Held(a)) < WordSize
      PROVE  LET shown == History(a, NoLimit) IN
             /\ Balance(a).confirmed = Credits(shown) - Debits(a)
             /\ Balance(a).spendable = Balance(a).confirmed
                                         - Credits({e \in shown : Immature(e)})
  <2> DEFINE paid == Paying(a, Created)
             spent == Paying(a, UNION {Spends(b) : b \in CanonicalChain})
             young == {e \in Shown(a) : Immature(e)}
             locked == {c \in Held(a) : ~IsMature(utxo[c], TipHeight)}
             ripe == {c \in Held(a) : IsMature(utxo[c], TipHeight)}
  <2>1. /\ paid \subseteq Coins /\ spent \subseteq paid /\ Held(a) = paid \ spent
        /\ IsFiniteSet(paid) /\ IsFiniteSet(Held(a))
    <3>1. paid \subseteq Coins /\ spent \subseteq paid /\ Held(a) = paid \ spent
      BY <1>1, ShownCoins, HeldIsUnspent
    <3> HIDE DEF paid, spent
    <3> QED
      BY <3>1, FiniteAssumption, FS_Subset
  <2>2. \A c \in Coins : ValueOf(c) \in Nat /\ ValueOf(c) \in Int
    BY SupplyAssumption DEF ValueOf
  <2>3. Credits(Shown(a)) = Worth(paid)
    BY <1>1, ShownCoins, ShownOnce, CreditsAreWorth
  <2>4. Values!Sum(Held(a)) = Values!Sum(paid) - Values!Sum(spent)
    <3> HIDE DEF paid, spent
    <3> QED
      BY <2>1, <2>2, Values!SumDifference, SameSums
  <2>5. Saturated(Worth(Held(a))) = Worth(Held(a)) /\ Saturated(Worth(ripe)) = Worth(ripe)
    <3>1. ripe \in SUBSET Held(a) /\ Held(a) \subseteq Coins
      BY <2>1
    <3> HIDE DEF ripe
    <3>2. Values!Sum(ripe) <= Values!Sum(Held(a))
      BY <2>1, <2>2, <3>1, Values!SumGrows, SameSums
    <3>3. Values!Sum(Held(a)) \in Nat /\ Values!Sum(ripe) \in Nat
      BY <2>1, <2>2, <3>1, Values!SumNat, FS_Subset, SameSums
    <3>4. Worth(ripe) < WordSize
      BY <1>1, <3>2, <3>3, SameSums, SupplyAssumption
    <3> QED
      BY <1>1, <3>4 DEF Saturated
  <2>6. Balance(a).confirmed = Credits(Shown(a)) - Debits(a)
    BY <2>3, <2>4, <2>5, SameSums DEF Balance, Debits
  <2>7. Credits(young) = Worth(locked)
    <3>1. CoinsOf(young) \subseteq CoinsOf(Shown(a))
      BY DEF CoinsOf
    <3>2. /\ CoinsOf(young) \subseteq Coins
          /\ \A d, e \in young : d.coin = e.coin => d = e
      BY <1>1, <3>1, ShownCoins, ShownOnce
    <3>3. locked = CoinsOf(young)
      BY <1>1, ImmatureIsShown
    <3> HIDE DEF young, locked
    <3> QED
      BY <3>2, <3>3, CreditsAreWorth
  <2>8. Values!Sum(ripe) = Values!Sum(Held(a)) - Values!Sum(locked)
    <3>1. locked \subseteq Held(a) /\ ripe = Held(a) \ locked /\ Held(a) \subseteq Coins
      BY <2>1
    <3> HIDE DEF locked, ripe
    <3> QED
      BY <2>1, <2>2, <3>1, Values!SumDifference, SameSums
  <2>9. Balance(a).spendable = Balance(a).confirmed - Credits(young)
    BY <2>5, <2>7, <2>8, SameSums DEF Balance
  <2> QED
    BY <1>1, <2>6, <2>9, ScansAll
<1>2. ChainInv /\ CoinHistory => BalanceIsHistory
  BY <1>1 DEF BalanceIsHistory, Answering
<1> QED
  BY <1>2, ReliableInvariant, CoinsKeepHistory, PTL
=============================================================================
