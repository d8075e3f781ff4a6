--------------------------- MODULE DbcLedgerProofs ---------------------------
(***************************************************************************)
(* The abstract ledger never lets two blocks consume a coin that was       *)
(* created once, never loses or changes a coin that no block consumed, and *)
(* holds no more value than it issued as long as its blocks are ordinary.  *)
(*                                                                         *)
(* NoDoubleSpend is not inductive: that a coin was consumed only keeps it  *)
(* from being consumed again while it stays out of the coin set, and it    *)
(* may return, since a coinbase is put into the set whatever is there.     *)
(* LedgerInv therefore ties every unspent coin to a block that created it  *)
(* after all that consumed it, and says that heights tell blocks apart.    *)
(***************************************************************************)
EXTENDS DbcLedger, FiniteSetTheorems, TLAPS

\* The sums of the code: values, inputs, fees, uncle bonuses, and what blocks issue.
ValueOf(c) == Value[c]
BonusOf(u) == (Subsidy(Body[u].height) * UncleRewardBps) \div BpsDenom
IssuedBy(b) == Subsidy(Body[b].height) + UncleReward(b)

Values == INSTANCE DbcSums WITH Val <- ValueOf
InputSums == INSTANCE DbcSums WITH Val <- ValueAt
FeeSums == INSTANCE DbcSums WITH Val <- FeeAt
Bonuses == INSTANCE DbcSums WITH Val <- BonusOf
Issues == INSTANCE DbcSums WITH Val <- IssuedBy

\* The top is the highest block of the ledger, and no two blocks share a height.
Heightened ==
    /\ top = NoBlock => ledger = {}
    /\ top # NoBlock => top \in ledger
    /\ \A b \in ledger : Body[b].height <= Body[top].height
    /\ \A a, b \in ledger : Body[a].height = Body[b].height => a = b

\* The first transaction of every block has the null outpoint for its input.
CoinbasesShaped == \A b \in ledger : IsCoinbase(Body[b].coinbase)

\* An unspent coin was created by a block of the ledger, which its entry tells the height
\* and the kind of output of, after every block that consumed it.
CoinsTellOrigin ==
    \A c \in Coins : coins[c] # Missing =>
        \E k \in ledger :
            /\ c \in Creates(k)
            /\ coins[c].height = Body[k].height
            /\ coins[c].is_coinbase <=> c \notin Outputs(k)
            /\ \A a \in ledger : c \in Spends(a) => Body[a].height <= Body[k].height

\* A coin that was created is there until a later block consumes it.
CreatedOrSpent ==
    \A b \in ledger : \A c \in Creates(b) :
        \/ coins[c] # Missing
        \/ \E a \in ledger : c \in Spends(a) /\ Body[b].height < Body[a].height

\* A consumed coin was created by an earlier block, by Maturity heights if by a coinbase.
SpentMature ==
    \A a \in ledger : \A c \in Spends(a) :
        \E j \in ledger :
            /\ c \in Creates(j)
            /\ Body[j].height < Body[a].height
            /\ c \in Outputs(j) \/ Body[a].height - Body[j].height >= Maturity

LedgerInv ==
    /\ LedgerTypeOK
    /\ Heightened
    /\ CoinbasesShaped
    /\ CoinsTellOrigin
    /\ CreatedOrSpent
    /\ SpentMature
    /\ NoDoubleSpend

-----------------------------------------------------------------------------

\* The transactions and the outpoints of a block are what the universe has, and the
\* height is a number.
LEMMA BodyTypes ==
    ASSUME NEW b \in Blocks
    PROVE  /\ Body[b].txs \in Seq(Txs)
           /\ Body[b].coinbase \in Txs
           /\ Body[b].uncles \in Seq(Blocks)
           /\ Body[b].height \in Heights
           /\ Body[b].height \in Nat
           /\ Regular(b) \subseteq Txs
<1>1. Body[b] \in BlockBody
  BY BlockAssumption
<1>2. /\ Body[b].txs \in Seq(Txs)
      /\ Body[b].coinbase \in Txs
      /\ Body[b].uncles \in Seq(Blocks)
      /\ Body[b].height \in Heights
  BY <1>1 DEF BlockBody
<1>3. Body[b].height \in Nat
  BY <1>2, BlockAssumption DEF Heights
<1>4. Regular(b) \subseteq Txs
  BY <1>2 DEF Regular, Range
<1> QED
  BY <1>2, <1>3, <1>4

LEMMA TxTypes ==
    ASSUME NEW t \in Txs
    PROVE  /\ Tx[t].inputs \in Seq(Coins) /\ Tx[t].outputs \in Seq(Coins)
           /\ Inputs(t) \subseteq Coins /\ Makes(t) \subseteq Coins
<1>1. Tx[t].inputs \in Seq(Coins) /\ Tx[t].outputs \in Seq(Coins)
  BY BlockAssumption DEF TxBody
<1> QED
  BY <1>1 DEF Inputs, Makes, Range

LEMMA CoinTypes ==
    ASSUME NEW b \in Blocks
    PROVE  /\ Spends(b) \subseteq Coins
           /\ Outputs(b) \subseteq Coins
           /\ Makes(Body[b].coinbase) \subseteq Coins
           /\ Creates(b) \subseteq Coins
<1>1. \A t \in Txs : Inputs(t) \subseteq Coins /\ Makes(t) \subseteq Coins
  BY TxTypes
<1>2. Regular(b) \subseteq Txs /\ Body[b].coinbase \in Txs
  BY BodyTypes
<1> QED
  BY <1>1, <1>2 DEF Spends, Outputs, Creates

\* Applying a block to a coin set gives a coin set.
LEMMA ApplyType ==
    ASSUME NEW b \in Blocks, NEW u \in UtxoSet
    PROVE  Apply(u, b) \in UtxoSet
<1>1. Body[b].height \in Heights
  BY BodyTypes
<1>2. ASSUME NEW c \in Coins
      PROVE  Apply(u, b)[c] \in UtxoEntry \cup {Missing}
  BY <1>1 DEF Apply, NewEntry, UtxoSet, UtxoEntry
<1>3. Apply(u, b) = [c \in Coins |-> Apply(u, b)[c]]
  BY DEF Apply
<1> QED
  BY <1>2, <1>3 DEF UtxoSet

\* What applying a block does to one coin.
LEMMA ApplyAt ==
    ASSUME NEW b \in Blocks, NEW u \in UtxoSet, NEW c \in Coins
    PROVE  /\ c \in Creates(b) => /\ Apply(u, b)[c] # Missing
                                  /\ Apply(u, b)[c].height = Body[b].height
                                  /\ Apply(u, b)[c].is_coinbase <=> c \notin Outputs(b)
           /\ c \notin Creates(b) /\ c \in Spends(b) => Apply(u, b)[c] = Missing
           /\ c \notin Creates(b) /\ c \notin Spends(b) => Apply(u, b)[c] = u[c]
<1>1. Body[b].height \in Heights
  BY BodyTypes
<1>2. NewEntry(b, TRUE) # Missing /\ NewEntry(b, FALSE) # Missing
  <2>1. NewEntry(b, TRUE) \in UtxoEntry /\ NewEntry(b, FALSE) \in UtxoEntry
    BY <1>1 DEF UtxoEntry, NewEntry
  <2> QED
    BY <2>1, UtxoAssumption
<1>3. Outputs(b) \subseteq Creates(b)
  BY DEF Creates
<1>4. CASE c \in Outputs(b)
  <2>1. Apply(u, b)[c] = NewEntry(b, FALSE)
    BY <1>4 DEF Apply
  <2>2. NewEntry(b, FALSE).height = Body[b].height /\ ~NewEntry(b, FALSE).is_coinbase
    BY DEF NewEntry
  <2> QED
    BY <1>2, <1>3, <1>4, <2>1, <2>2
<1>5. CASE c \in Creates(b) /\ c \notin Outputs(b)
  <2>1. Apply(u, b)[c] = NewEntry(b, TRUE)
    BY <1>5 DEF Apply
  <2>2. NewEntry(b, TRUE).height = Body[b].height /\ NewEntry(b, TRUE).is_coinbase
    BY DEF NewEntry
  <2> QED
    BY <1>2, <1>5, <2>1, <2>2
<1>6. CASE c \notin Creates(b)
  BY <1>3, <1>6 DEF Apply
<1> QED
  BY <1>4, <1>5, <1>6

\* The null outpoint is never in the coin set, so no regular transaction of a block that
\* applies has the shape of a coinbase.
LEMMA NoCoinbaseInside ==
    ASSUME LedgerInv, NEW b \in Blocks, CanApply(coins, b), NEW t \in Regular(b)
    PROVE  ~IsCoinbase(t)
<1>1. coins[NullCoin] = Missing
  <2>1. \A s \in Txs : NullCoin \notin Makes(s)
    BY OutpointAssumption
  <2>2. \A k \in ledger : NullCoin \notin Creates(k)
    BY <2>1, BodyTypes DEF Creates, Outputs, LedgerInv, LedgerTypeOK
  <2> QED
    BY <2>2, BlockAssumption DEF LedgerInv, CoinsTellOrigin
<1>2. ASSUME IsCoinbase(t)
      PROVE  NullCoin \in Spends(b)
  <2>1. NullCoin \in Inputs(t)
    BY <1>2 DEF IsCoinbase, Inputs, Range
  <2> QED
    BY <2>1 DEF Spends
<1> QED
  BY <1>1, <1>2 DEF CanApply

\* A block that is appended is higher than every block of the ledger.
LEMMA AppendedAbove ==
    ASSUME LedgerInv, NEW b \in Blocks, Continues(top, b)
    PROVE  \A a \in ledger : Body[a].height < Body[b].height
<1> SUFFICES ASSUME NEW a \in ledger PROVE Body[a].height < Body[b].height
  OBVIOUS
<1>1. a \in Blocks /\ top \in Blocks /\ top # NoBlock
  BY BlockAssumption DEF LedgerInv, LedgerTypeOK, Heightened
<1>2. Body[b].height = Body[top].height + 1 /\ Body[a].height <= Body[top].height
  BY <1>1 DEF Continues, LedgerInv, Heightened
<1>3. Body[a].height \in Nat /\ Body[b].height \in Nat /\ Body[top].height \in Nat
  BY <1>1, BodyTypes
<1> QED
  BY <1>2, <1>3

\* The invariant survives the appending of a block.
LEMMA AppendKeepsInv ==
    ASSUME LedgerInv, NEW b \in Blocks, Append1(b)
    PROVE  LedgerInv'
<1>1. /\ ledger \subseteq Blocks
      /\ coins \in UtxoSet
      /\ ledger' = ledger \cup {b}
      /\ top' = b
      /\ coins' = Apply(coins, b)
      /\ Continues(top, b)
      /\ CanApply(coins, b)
      /\ IsCoinbase(Body[b].coinbase)
      /\ \A t \in Regular(b) : ValidTransaction(coins, t, Body[b].height)
  BY DEF Append1, LedgerInv, LedgerTypeOK
<1>2. \A a \in ledger : /\ Body[a].height < Body[b].height
                        /\ Body[a].height \in Nat
  BY <1>1, AppendedAbove, BodyTypes
<1>3. Body[b].height \in Nat /\ b \notin ledger
  BY <1>2, BodyTypes
<1>4. \A a \in ledger \cup {b} : Spends(a) \subseteq Coins /\ Creates(a) \subseteq Coins
  BY <1>1, CoinTypes
<1>5. \A c \in Spends(b) : c \in Coins /\ coins[c] # Missing
  BY <1>1, <1>4 DEF CanApply
<1>6. LedgerTypeOK'
  BY <1>1, ApplyType DEF LedgerTypeOK
<1>7. Heightened'
  <2>1. b # NoBlock
    BY BlockAssumption
  <2>2. \A a \in ledger' : Body[a].height <= Body[b].height
    BY <1>1, <1>2, <1>3
  <2>3. \A a, d \in ledger' : Body[a].height = Body[d].height => a = d
    <3>1. \A a, d \in ledger : Body[a].height = Body[d].height => a = d
      BY DEF LedgerInv, Heightened
    <3> QED
      BY <1>1, <1>2, <1>3, <3>1
  <2> QED
    BY <1>1, <2>1, <2>2, <2>3 DEF Heightened
<1>8. CoinbasesShaped'
  BY <1>1 DEF CoinbasesShaped, LedgerInv
<1>9. CoinsTellOrigin'
  <2> SUFFICES ASSUME NEW c \in Coins, coins'[c] # Missing
               PROVE  \E k \in ledger \cup {b} :
                         /\ c \in Creates(k)
                         /\ coins'[c].height = Body[k].height
                         /\ coins'[c].is_coinbase <=> c \notin Outputs(k)
                         /\ \A a \in ledger \cup {b} : c \in Spends(a) => Body[a].height <= Body[k].height
    BY <1>1 DEF CoinsTellOrigin
  <2>1. CASE c \in Creates(b)
    <3>1. \A a \in ledger \cup {b} : Body[a].height <= Body[b].height
      BY <1>2, <1>3
    <3> QED
      BY <1>1, <2>1, <3>1, ApplyAt
  <2>2. CASE c \notin Creates(b)
    <3>1. c \notin Spends(b) /\ coins'[c] = coins[c] /\ coins[c] # Missing
      BY <1>1, <2>2, ApplyAt
    <3>2. PICK k \in ledger :
             /\ c \in Creates(k)
             /\ coins[c].height = Body[k].height
             /\ coins[c].is_coinbase <=> c \notin Outputs(k)
             /\ \A a \in ledger : c \in Spends(a) => Body[a].height <= Body[k].height
      BY <3>1 DEF LedgerInv, CoinsTellOrigin
    <3> QED
      BY <3>1, <3>2
  <2> QED
    BY <2>1, <2>2
<1>10. CreatedOrSpent'
  <2> SUFFICES ASSUME NEW a \in ledger \cup {b}, NEW c \in Creates(a)
               PROVE  \/ coins'[c] # Missing
                      \/ \E d \in ledger \cup {b} : c \in Spends(d) /\ Body[a].height < Body[d].height
    BY <1>1 DEF CreatedOrSpent
  <2>1. c \in Coins
    BY <1>4
  <2>2. CASE c \in Creates(b)
    BY <1>1, <2>1, <2>2, ApplyAt
  <2>3. CASE c \notin Creates(b) /\ c \in Spends(b)
    BY <1>2, <2>3
  <2>4. CASE c \notin Creates(b) /\ c \notin Spends(b)
    <3>1. a \in ledger /\ coins'[c] = coins[c]
      BY <1>1, <2>1, <2>4, ApplyAt
    <3> QED
      BY <3>1 DEF LedgerInv, CreatedOrSpent
  <2> QED
    BY <2>2, <2>3, <2>4
<1>11. ASSUME NEW c \in Spends(b)
       PROVE  \E k \in ledger :
                 /\ c \in Creates(k)
                 /\ \A a \in ledger : c \in Spends(a) => Body[a].height <= Body[k].height
                 /\ c \in Outputs(k) \/ Body[b].height - Body[k].height >= Maturity
  <2>1. PICK k \in ledger :
           /\ c \in Creates(k)
           /\ coins[c].height = Body[k].height
           /\ coins[c].is_coinbase <=> c \notin Outputs(k)
           /\ \A a \in ledger : c \in Spends(a) => Body[a].height <= Body[k].height
    BY <1>5 DEF LedgerInv, CoinsTellOrigin
  <2>2. PICK t \in Regular(b) : c \in Inputs(t)
    BY DEF Spends
  <2>3. ~IsCoinbase(t)
    BY <1>1, NoCoinbaseInside
  <2>4. IsMature(coins[c], Body[b].height)
    BY <1>1, <2>2, <2>3 DEF ValidTransaction
  <2> QED
    BY <2>1, <2>4 DEF IsMature
<1>12. SpentMature'
  <2> SUFFICES ASSUME NEW a \in ledger \cup {b}, NEW c \in Spends(a)
               PROVE  \E j \in ledger \cup {b} :
                         /\ c \in Creates(j)
                         /\ Body[j].height < Body[a].height
                         /\ c \in Outputs(j) \/ Body[a].height - Body[j].height >= Maturity
    BY <1>1 DEF SpentMature
  <2>1. CASE a \in ledger
    BY <2>1 DEF LedgerInv, SpentMature
  <2>2. CASE a = b
    BY <1>2, <1>11, <2>2
  <2> QED
    BY <2>1, <2>2
<1>13. NoDoubleSpend'
  <2> SUFFICES ASSUME NEW a \in ledger \cup {b}, NEW d \in ledger \cup {b},
                      NEW c \in Spends(a) \cap Spends(d), Body[a].height < Body[d].height
               PROVE  \E k \in ledger \cup {b} :
                         /\ Body[k].height \in Body[a].height..Body[d].height - 1
                         /\ c \in Creates(k)
    BY <1>1 DEF NoDoubleSpend
  <2>1. a \in ledger
    BY <1>2, <1>3
  <2>2. CASE d \in ledger
    BY <2>1, <2>2 DEF LedgerInv, NoDoubleSpend
  <2>3. CASE d = b
    <3>1. PICK k \in ledger : c \in Creates(k) /\ Body[a].height <= Body[k].height
      BY <1>11, <2>1, <2>3
    <3>2. Body[k].height \in Body[a].height..Body[b].height - 1
      BY <1>2, <1>3, <2>1, <3>1
    <3> QED
      BY <2>3, <3>1, <3>2
  <2> QED
    BY <2>2, <2>3
<1> QED
  BY <1>6, <1>7, <1>8, <1>9, <1>10, <1>12, <1>13 DEF LedgerInv

\* LedgerInv holds in every state of the abstract ledger.
THEOREM LedgerInvariant == LedgerSpec => []LedgerInv
<1> USE DEF LedgerInv, LedgerTypeOK, Heightened, CoinbasesShaped, CoinsTellOrigin,
            CreatedOrSpent, SpentMature, NoDoubleSpend
<1>1. LedgerInit => LedgerInv
  BY UtxoAssumption DEF LedgerInit, EmptyUtxo, UtxoSet
<1>2. LedgerInv /\ [LedgerNext]_ledgerVars => LedgerInv'
  <2>1. SUFFICES ASSUME LedgerInv, [LedgerNext]_ledgerVars
                 PROVE  LedgerInv'
    OBVIOUS
  <2>2. CASE LedgerNext
    <3> HIDE DEF LedgerInv
    <3> QED
      BY <2>1, <2>2, AppendKeepsInv DEF LedgerNext
  <2>3. CASE UNCHANGED ledgerVars
    BY <2>1, <2>3 DEF ledgerVars
  <2> QED
    BY <2>1, <2>2, <2>3
<1> QED
  BY <1>1, <1>2, PTL DEF LedgerSpec

\* Whatever blocks are appended, two of them consume the same coin only if a coinbase made
\* it again in between (chain.rs apply_block over the UTXO set): the property
\* NoDoubleSpend, for every universe of blocks.
THEOREM LedgerNoDoubleSpend == LedgerSpec => []NoDoubleSpend
<1>1. LedgerInv => NoDoubleSpend
  BY DEF LedgerInv
<1> QED
  BY <1>1, LedgerInvariant, PTL

\* What became of each coin.
HistoryInv == CoinsTellOrigin /\ CreatedOrSpent /\ SpentMature

\* Every coin of the ledger's blocks is there, with the height and the kind of the output
\* that made it, until a block consumes it, and no reward is consumed early
\* (validate_transaction's maturity rule, utxo.rs is_mature).
THEOREM LedgerHistory == LedgerSpec => []HistoryInv
<1>1. LedgerInv => HistoryInv
  BY DEF LedgerInv, HistoryInv
<1> QED
  BY <1>1, LedgerInvariant, PTL

-----------------------------------------------------------------------------
(* The supply.                                                             *)

\* The coins of the coin set.
Live(u) == {c \in Coins : u[c] # Missing}

\* An instance of DbcSums means by a finite set what this module does.
LEMMA SameFinite ==
    \A S : /\ Values!IsFiniteSet(S) <=> IsFiniteSet(S)
           /\ InputSums!IsFiniteSet(S) <=> IsFiniteSet(S)
           /\ FeeSums!IsFiniteSet(S) <=> IsFiniteSet(S)
           /\ Bonuses!IsFiniteSet(S) <=> IsFiniteSet(S)
           /\ Issues!IsFiniteSet(S) <=> IsFiniteSet(S)
  BY DEF IsFiniteSet, Values!IsFiniteSet, InputSums!IsFiniteSet, FeeSums!IsFiniteSet,
         Bonuses!IsFiniteSet, Issues!IsFiniteSet

\* The sums of the model are instances of the sums of DbcSums.
LEMMA SameSums ==
    /\ \A S : Worth(S) = Values!Sum(S)
    /\ \A S : MapThenSumSet(ValueAt, S) = InputSums!Sum(S)
    /\ \A S : MapThenSumSet(FeeAt, S) = FeeSums!Sum(S)
    /\ \A b \in Blocks : UncleReward(b) = Bonuses!Sum(Uncles(b))
    /\ \A S : Issued(S) = Issues!Sum(S)
    /\ Supply = Values!Sum(Live(coins))
    /\ Supply' = Values!Sum(Live(coins'))
<1>1. \A S : Worth(S) = Values!Sum(S)
  BY DEF Worth, Values!Sum, ValueOf, Values!MapThenSumSet, MapThenSumSet,
         Values!MapThenFoldSet, MapThenFoldSet
<1>2. \A S : MapThenSumSet(ValueAt, S) = InputSums!Sum(S)
  BY DEF InputSums!Sum, InputSums!MapThenSumSet, MapThenSumSet,
         InputSums!MapThenFoldSet, MapThenFoldSet
<1>3. \A S : MapThenSumSet(FeeAt, S) = FeeSums!Sum(S)
  BY DEF FeeSums!Sum, FeeSums!MapThenSumSet, MapThenSumSet,
         FeeSums!MapThenFoldSet, MapThenFoldSet
<1>4. \A b \in Blocks : UncleReward(b) = Bonuses!Sum(Uncles(b))
  BY DEF UncleReward, Bonuses!Sum, BonusOf, Bonuses!MapThenSumSet, MapThenSumSet,
         Bonuses!MapThenFoldSet, MapThenFoldSet
<1>5. \A S : Issued(S) = Issues!Sum(S)
  BY DEF Issued, IssuedBy, Issues!Sum, Issues!MapThenSumSet, MapThenSumSet,
         Issues!MapThenFoldSet, MapThenFoldSet
<1>6. Supply = Values!Sum(Live(coins)) /\ Supply' = Values!Sum(Live(coins'))
  BY <1>1 DEF Supply, Live
<1> QED
  BY <1>1, <1>2, <1>3, <1>4, <1>5, <1>6

\* A power of two is positive: it counts the subsets of a set.
LEMMA PowerOfTwo ==
    ASSUME NEW n \in Nat
    PROVE  2^n \in Nat \ {0}
<1>1. IsFiniteSet(1..n) /\ Cardinality(1..n) = n
  BY FS_Interval
<1>2. IsFiniteSet(SUBSET (1..n)) /\ Cardinality(SUBSET (1..n)) = 2^n
  BY <1>1, FS_SUBSET
<1>3. SUBSET (1..n) # {}
  OBVIOUS
<1> QED
  BY <1>2, <1>3, FS_CardinalityType, FS_EmptySet

LEMMA SubsidyType ==
    ASSUME NEW h \in Nat
    PROVE  Subsidy(h) \in Nat
<1> DEFINE halvings == h \div HalvingInterval
<1>1. halvings \in Nat /\ InitialSubsidy \in Nat
  BY SupplyAssumption
<1>2. 2^halvings \in Nat \ {0}
  <2> HIDE DEF halvings
  <2> QED
    BY <1>1, PowerOfTwo
<1>3. InitialSubsidy \div 2^halvings \in Nat
  BY <1>1, <1>2
<1> QED
  BY <1>3 DEF Subsidy

\* The sum of the values of a set of coins is a natural number.
LEMMA WorthType ==
    ASSUME NEW S \in SUBSET Coins
    PROVE  /\ IsFiniteSet(S) /\ \A c \in S : ValueOf(c) \in Nat
           /\ Values!Sum(S) \in Nat
<1>1. IsFiniteSet(S)
  BY FiniteAssumption, FS_Subset
<1>2. \A c \in S : ValueOf(c) \in Nat
  BY SupplyAssumption DEF ValueOf
<1> QED
  BY <1>1, <1>2, Values!SumNat, SameFinite

\* What blocks issue are natural numbers.
LEMMA IssueTypes ==
    \A b \in Blocks : UncleReward(b) \in Nat /\ IssuedBy(b) \in Nat
<1>1. ASSUME NEW u \in Blocks
      PROVE  BonusOf(u) \in Nat
  <2>1. Subsidy(Body[u].height) \in Nat
    BY BodyTypes, SubsidyType
  <2> QED
    BY <2>1 DEF BonusOf, UncleRewardBps, BpsDenom
<1>2. ASSUME NEW b \in Blocks
      PROVE  UncleReward(b) \in Nat
  <2>1. Uncles(b) \subseteq Blocks
    BY BodyTypes DEF Uncles, Range
  <2>2. IsFiniteSet(Uncles(b))
    BY <2>1, FiniteAssumption, FS_Subset
  <2>3. Bonuses!Sum(Uncles(b)) \in Nat
    BY <1>1, <2>1, <2>2, Bonuses!SumNat, SameFinite
  <2> QED
    BY <2>3, SameSums
<1>3. ASSUME NEW b \in Blocks
      PROVE  IssuedBy(b) \in Nat
  <2>1. Subsidy(Body[b].height) \in Nat
    BY BodyTypes, SubsidyType
  <2> QED
    BY <1>2, <2>1 DEF IssuedBy
<1> QED
  BY <1>2, <1>3

\* A sum that fits in a word is its own remainder.
LEMMA FitsWord ==
    ASSUME NEW n \in Nat, n < WordSize
    PROVE  n % WordSize = n
  BY SupplyAssumption

LEMMA SaturatedBelow ==
    ASSUME NEW n \in Int
    PROVE  Saturated(n) <= n /\ Saturated(n) \in Int
  BY SupplyAssumption DEF Saturated

\* A list has finitely many places.
LEMMA PlacesFinite ==
    ASSUME NEW S, NEW q \in Seq(S), NEW x
    PROVE  IsFiniteSet(DOMAIN q) /\ IsFiniteSet({x} \X DOMAIN q)
<1>1. DOMAIN q = 1..Len(q) /\ Len(q) \in Nat
  OBVIOUS
<1>2. IsFiniteSet(1..Len(q))
  BY <1>1, FS_Interval
<1>3. IsFiniteSet(DOMAIN q)
  BY <1>1, <1>2
<1>4. IsFiniteSet({x})
  BY FS_Singleton
<1> QED
  BY <1>3, <1>4, FS_Product

\* The inputs of a transaction that names no coin twice are worth the sum over their
\* places.
LEMMA InputsAreWorth ==
    ASSUME NEW t \in Txs, IsInjective(Tx[t].inputs)
    PROVE  InputSums!Sum(InputsOf(t)) = Values!Sum(Inputs(t))
<1> DEFINE At(T) == {Tx[t].inputs[p[2]] : p \in T}
           S == InputsOf(t)
           F == {T \in SUBSET S : InputSums!Sum(T) = Values!Sum(At(T))}
<1>1. Tx[t].inputs \in Seq(Coins)
  BY TxTypes
<1>2. /\ IsFiniteSet(S)
      /\ \A p \in S : /\ p[2] \in DOMAIN Tx[t].inputs
                      /\ p = <<t, p[2]>>
                      /\ Tx[t].inputs[p[2]] \in Coins
                      /\ ValueAt(p) = ValueOf(Tx[t].inputs[p[2]])
                      /\ ValueAt(p) \in Int
  <2>2. IsFiniteSet(S)
    BY <1>1, PlacesFinite DEF InputsOf
  <2>3. ASSUME NEW p \in S
        PROVE  /\ p[2] \in DOMAIN Tx[t].inputs
               /\ p = <<t, p[2]>>
               /\ Tx[t].inputs[p[2]] \in Coins
               /\ ValueAt(p) = ValueOf(Tx[t].inputs[p[2]])
    BY <1>1 DEF InputsOf, ValueAt, ValueOf
  <2>4. \A c \in Coins : ValueOf(c) \in Int
    BY SupplyAssumption DEF ValueOf
  <2> QED
    BY <2>2, <2>3, <2>4
<1>3. {} \in F
  <2>1. At({}) = {}
    OBVIOUS
  <2> QED
    BY <2>1, InputSums!SumEmpty, Values!SumEmpty
<1>4. ASSUME NEW T \in SUBSET S, NEW p \in T, T \ {p} \in F
      PROVE  T \in F
  <2> DEFINE U == T \ {p}
             c == Tx[t].inputs[p[2]]
  <2>1. InputSums!Sum(T) = ValueAt(p) + InputSums!Sum(U)
    <3>1. IsFiniteSet(T) /\ \A x \in T : ValueAt(x) \in Int
      BY <1>2, FS_Subset
    <3> QED
      BY <3>1, InputSums!SumRemove, SameFinite
  <2>2. At(T) = At(U) \cup {c}
    OBVIOUS
  <2>3. c \notin At(U)
    <3> SUFFICES ASSUME NEW q \in U, Tx[t].inputs[q[2]] = c PROVE FALSE
      OBVIOUS
    <3>1. q[2] = p[2]
      BY <1>2 DEF IsInjective
    <3>2. q = p
      BY <1>2, <3>1
    <3> QED
      BY <3>2
  <2>4. At(U) \subseteq Coins /\ c \in Coins
    BY <1>2
  <2>5. Values!Sum(At(U) \cup {c}) = Values!Sum(At(U)) + ValueOf(c)
    <3>1. IsFiniteSet(At(U)) /\ \A x \in At(U) \cup {c} : ValueOf(x) \in Int
      BY <2>4, WorthType, SupplyAssumption DEF ValueOf
    <3> HIDE DEF U, c, At
    <3> QED
      BY <2>3, <3>1, Values!SumAdd, SameFinite
  <2>6. Values!Sum(At(U)) \in Int /\ ValueOf(c) \in Int
    <3> HIDE DEF U, c, At
    <3> QED
      BY <2>4, WorthType, SupplyAssumption DEF ValueOf
  <2>7. ValueAt(p) = ValueOf(c) /\ InputSums!Sum(U) = Values!Sum(At(U))
    BY <1>2, <1>4
  <2>8. InputSums!Sum(T) = Values!Sum(At(T))
    <3> HIDE DEF U, c, At
    <3> QED
      BY <2>1, <2>2, <2>5, <2>6, <2>7
  <2> QED
    BY <2>8
<1>5. S \in F
  <2>1. \A T \in SUBSET S : \A p \in T : T \ {p} \in F => T \in F
    BY <1>4
  <2> HIDE DEF F, S
  <2> QED
    BY <1>2, <1>3, <2>1, Values!FiniteInduction, SameFinite, Zenon
<1>6. At(S) = Inputs(t)
  <2>1. ASSUME NEW i \in DOMAIN Tx[t].inputs
        PROVE  Tx[t].inputs[i] \in At(S)
    <3>1. <<t, i>> \in S /\ <<t, i>>[2] = i
      BY DEF InputsOf
    <3> QED
      BY <3>1
  <2>2. Inputs(t) \subseteq At(S)
    BY <2>1 DEF Inputs, Range
  <2>3. At(S) \subseteq Inputs(t)
    BY <1>2 DEF Inputs, Range
  <2> QED
    BY <2>2, <2>3
<1> QED
  BY <1>5, <1>6

\* A regular transaction that names no coin twice and whose outputs fit in a word pays no
\* more in fees than it spends beyond what it creates.
LEMMA FeeWithin ==
    ASSUME NEW t \in Txs, ~IsCoinbase(t), IsInjective(Tx[t].inputs), Worth(Makes(t)) < WordSize
    PROVE  Fee(t) \in Int /\ Fee(t) <= Values!Sum(Inputs(t)) - Values!Sum(Makes(t))
<1>1. Values!Sum(Inputs(t)) \in Nat /\ Values!Sum(Makes(t)) \in Nat
  BY TxTypes, WorthType
<1>2. OutputSum(t) = Values!Sum(Makes(t))
  BY <1>1, FitsWord, SameSums DEF OutputSum
<1>3. InputSum(t) <= Values!Sum(Inputs(t)) /\ InputSum(t) \in Int
  <2>1. MapThenSumSet(ValueAt, InputsOf(t)) = Values!Sum(Inputs(t))
    BY InputsAreWorth, SameSums
  <2> QED
    BY <1>1, <2>1, SaturatedBelow DEF InputSum
<1> QED
  BY <1>1, <1>2, <1>3 DEF Fee

\* The transactions at some places of a block, what they spend and what they create.
TxOf(p) == Body[p[1]].txs[p[2]]
SpentBy(T) == UNION {Inputs(TxOf(p)) : p \in T}
MadeBy(T) == UNION {Makes(TxOf(p)) : p \in T}

\* What the places of a block are.
LEMMA PlacesOf ==
    ASSUME NEW b \in Blocks
    PROVE  /\ IsFiniteSet(RegularOf(b))
           /\ \A p \in RegularOf(b) : /\ p = <<b, p[2]>> /\ p[2] \in DOMAIN Body[b].txs
                                      /\ TxOf(p) = Body[b].txs[p[2]]
                                      /\ TxOf(p) \in Regular(b)
                                      /\ FeeAt(p) = Fee(TxOf(p))
           /\ \A t \in Regular(b) : \E p \in RegularOf(b) : TxOf(p) = t
<1>1. Body[b].txs \in Seq(Txs)
  BY BodyTypes
<1>2. IsFiniteSet(RegularOf(b))
  BY <1>1, PlacesFinite DEF RegularOf
<1>3. ASSUME NEW p \in RegularOf(b)
      PROVE  /\ p = <<b, p[2]>> /\ p[2] \in DOMAIN Body[b].txs
             /\ TxOf(p) = Body[b].txs[p[2]]
             /\ TxOf(p) \in Regular(b)
             /\ FeeAt(p) = Fee(TxOf(p))
  <2>1. p = <<b, p[2]>> /\ p[2] \in DOMAIN Body[b].txs /\ p[1] = b
    BY DEF RegularOf
  <2> QED
    BY <2>1 DEF TxOf, FeeAt, Regular, Range
<1>4. ASSUME NEW t \in Regular(b)
      PROVE  \E p \in RegularOf(b) : TxOf(p) = t
  <2>1. PICK i \in DOMAIN Body[b].txs : Body[b].txs[i] = t
    BY DEF Regular, Range
  <2>2. <<b, i>> \in RegularOf(b) /\ TxOf(<<b, i>>) = t
    BY <2>1 DEF RegularOf, TxOf
  <2> QED
    BY <2>2
<1> QED
  BY <1>2, <1>3, <1>4

\* The fees of an ordinary block are at most what its transactions spend less what they
\* create, since no two of them spend or create the same coin.
LEMMA FeesWithin ==
    ASSUME NEW b \in Blocks, Ordinary(b), \A t \in Regular(b) : ~IsCoinbase(t)
    PROVE  BlockFees(b) \in Int /\ BlockFees(b) <= Values!Sum(Spends(b)) - Values!Sum(Outputs(b))
<1> DEFINE S == RegularOf(b)
           F == {T \in SUBSET S :
                   /\ FeeSums!Sum(T) \in Int
                   /\ FeeSums!Sum(T) <= Values!Sum(SpentBy(T)) - Values!Sum(MadeBy(T))}
<1>1. /\ IsFiniteSet(S)
      /\ \A p \in S : /\ TxOf(p) \in Txs /\ TxOf(p) \in Regular(b)
                      /\ Inputs(TxOf(p)) \subseteq Coins /\ Makes(TxOf(p)) \subseteq Coins
                      /\ FeeAt(p) = Fee(TxOf(p)) /\ FeeAt(p) \in Int
                      /\ FeeAt(p) <= Values!Sum(Inputs(TxOf(p))) - Values!Sum(Makes(TxOf(p)))
  <2>1. IsFiniteSet(S) /\ Regular(b) \subseteq Txs
    BY PlacesOf, BodyTypes
  <2>2. ASSUME NEW p \in S
        PROVE  /\ TxOf(p) \in Txs /\ TxOf(p) \in Regular(b)
               /\ FeeAt(p) = Fee(TxOf(p))
    BY <2>1, PlacesOf
  <2>3. ASSUME NEW p \in S
        PROVE  /\ Fee(TxOf(p)) \in Int
               /\ Fee(TxOf(p)) <= Values!Sum(Inputs(TxOf(p))) - Values!Sum(Makes(TxOf(p)))
    BY <2>2, FeeWithin DEF Ordinary
  <2> QED
    BY <2>1, <2>2, <2>3, TxTypes
<1>2. \A p, q \in S : p # q => TxOf(p) # TxOf(q)
  <2> SUFFICES ASSUME NEW p \in S, NEW q \in S, TxOf(p) = TxOf(q) PROVE p = q
    OBVIOUS
  <2>1. /\ p = <<b, p[2]>> /\ p[2] \in DOMAIN Body[b].txs
        /\ q = <<b, q[2]>> /\ q[2] \in DOMAIN Body[b].txs
        /\ Body[b].txs[p[2]] = Body[b].txs[q[2]]
    BY PlacesOf
  <2>2. p[2] = q[2]
    BY <2>1 DEF Ordinary, IsInjective
  <2> QED
    BY <2>1, <2>2
<1>3. {} \in F
  <2>1. SpentBy({}) = {} /\ MadeBy({}) = {}
    BY DEF SpentBy, MadeBy
  <2>2. FeeSums!Sum({}) = 0 /\ Values!Sum(SpentBy({})) = 0 /\ Values!Sum(MadeBy({})) = 0
    BY <2>1, FeeSums!SumEmpty, Values!SumEmpty
  <2> QED
    BY <2>2
<1>4. ASSUME NEW T \in SUBSET S, NEW p \in T, T \ {p} \in F
      PROVE  T \in F
  <2> DEFINE U == T \ {p}
             I == Inputs(TxOf(p))
             M == Makes(TxOf(p))
  <2>1. FeeSums!Sum(T) = FeeAt(p) + FeeSums!Sum(U)
    <3>1. IsFiniteSet(T) /\ \A x \in T : FeeAt(x) \in Int
      BY <1>1, FS_Subset
    <3> QED
      BY <3>1, FeeSums!SumRemove, SameFinite
  <2>2. SpentBy(T) = SpentBy(U) \cup I /\ MadeBy(T) = MadeBy(U) \cup M
    BY DEF SpentBy, MadeBy
  <2>3. SpentBy(U) \cap I = {}
    <3>1. \A q \in U : Inputs(TxOf(q)) \cap I = {}
      BY <1>1, <1>2 DEF Ordinary
    <3> QED
      BY <3>1 DEF SpentBy
  <2>4. SpentBy(U) \in SUBSET Coins /\ MadeBy(U) \in SUBSET Coins /\ I \in SUBSET Coins /\ M \in SUBSET Coins
    BY <1>1 DEF SpentBy, MadeBy
  <2>5. Values!Sum(SpentBy(T)) = Values!Sum(SpentBy(U)) + Values!Sum(I)
    <3>1. /\ IsFiniteSet(SpentBy(U)) /\ IsFiniteSet(I)
          /\ \A c \in SpentBy(U) \cup I : ValueOf(c) \in Int
      <4> HIDE DEF U, I
      <4> QED
        BY <2>4, WorthType
    <3> HIDE DEF U, I
    <3> QED
      BY <2>2, <2>3, <3>1, Values!SumUnion, SameFinite
  <2>6. Values!Sum(MadeBy(T)) <= Values!Sum(MadeBy(U)) + Values!Sum(M)
    <3>1. /\ IsFiniteSet(MadeBy(U)) /\ IsFiniteSet(M)
          /\ \A c \in MadeBy(U) \cup M : ValueOf(c) \in Nat
      <4> HIDE DEF U, M
      <4> QED
        BY <2>4, WorthType
    <3> HIDE DEF U, M
    <3> QED
      BY <2>2, <3>1, Values!SumCover, SameFinite
  <2>7. /\ Values!Sum(SpentBy(U)) \in Nat /\ Values!Sum(MadeBy(U)) \in Nat
        /\ Values!Sum(I) \in Nat /\ Values!Sum(M) \in Nat
        /\ Values!Sum(MadeBy(T)) \in Nat
    <3> HIDE DEF U, I, M
    <3>1. MadeBy(T) \in SUBSET Coins
      BY <2>2, <2>4
    <3> QED
      BY <2>4, <3>1, WorthType
  <2>8. FeeAt(p) \in Int /\ FeeAt(p) <= Values!Sum(I) - Values!Sum(M)
    BY <1>1
  <2>9. /\ FeeSums!Sum(U) \in Int
        /\ FeeSums!Sum(U) <= Values!Sum(SpentBy(U)) - Values!Sum(MadeBy(U))
    BY <1>4
  <2>10. /\ FeeSums!Sum(T) \in Int
         /\ FeeSums!Sum(T) <= Values!Sum(SpentBy(T)) - Values!Sum(MadeBy(T))
    <3> HIDE DEF U, I, M
    <3> QED
      BY <2>1, <2>5, <2>6, <2>7, <2>8, <2>9
  <2> QED
    BY <2>10
<1>5. S \in F
  <2>1. \A T \in SUBSET S : \A p \in T : T \ {p} \in F => T \in F
    BY <1>4
  <2> HIDE DEF F, S
  <2> QED
    BY <1>1, <1>3, <2>1, Values!FiniteInduction, SameFinite, Zenon
<1>6. SpentBy(S) = Spends(b) /\ MadeBy(S) = Outputs(b)
  <2>1. {TxOf(p) : p \in S} = Regular(b)
    BY PlacesOf
  <2> QED
    BY <2>1 DEF SpentBy, MadeBy, Spends, Outputs
<1>7. BlockFees(b) <= FeeSums!Sum(S) /\ BlockFees(b) \in Int
  BY <1>5, SaturatedBelow, SameSums DEF BlockFees
<1>8. Values!Sum(Spends(b)) \in Nat /\ Values!Sum(Outputs(b)) \in Nat
  BY CoinTypes, WorthType
<1> QED
  BY <1>5, <1>6, <1>7, <1>8

\* What a block creates is worth at most what it spends and what it may issue.
LEMMA CreatesWithinIssue ==
    ASSUME NEW b \in Blocks, Ordinary(b), CoinbaseInBounds(b),
           \A t \in Regular(b) : ~IsCoinbase(t)
    PROVE  Values!Sum(Creates(b)) <= Values!Sum(Spends(b)) + IssuedBy(b)
<1> DEFINE M == Makes(Body[b].coinbase)
<1>1. /\ Outputs(b) \in SUBSET Coins /\ Spends(b) \in SUBSET Coins
      /\ M \in SUBSET Coins /\ Creates(b) \in SUBSET Coins
  BY CoinTypes
<1>2. /\ Values!Sum(Outputs(b)) \in Nat /\ Values!Sum(Spends(b)) \in Nat
      /\ Values!Sum(M) \in Nat /\ Values!Sum(Creates(b)) \in Nat
      /\ IsFiniteSet(Outputs(b)) /\ IsFiniteSet(M)
      /\ \A c \in Outputs(b) \cup M : ValueOf(c) \in Nat
  <2> HIDE DEF M
  <2> QED
    BY <1>1, WorthType
<1>3. Values!Sum(Creates(b)) <= Values!Sum(Outputs(b)) + Values!Sum(M)
  <2>1. Creates(b) = Outputs(b) \cup M
    BY DEF Creates
  <2> HIDE DEF M
  <2> QED
    BY <1>2, <2>1, Values!SumCover, SameFinite
<1>4. OutputSum(Body[b].coinbase) = Values!Sum(M)
  <2>1. Worth(M) < WordSize
    BY DEF Ordinary
  <2> QED
    BY <1>2, <2>1, FitsWord, SameSums DEF OutputSum
<1>5. BlockFees(b) \in Int /\ BlockFees(b) <= Values!Sum(Spends(b)) - Values!Sum(Outputs(b))
  BY FeesWithin
<1>6. Subsidy(Body[b].height) \in Nat /\ UncleReward(b) \in Nat
  BY BodyTypes, SubsidyType, IssueTypes
<1>7. Values!Sum(M) <= Subsidy(Body[b].height) + BlockFees(b) + UncleReward(b)
  <2> DEFINE n == Subsidy(Body[b].height) + BlockFees(b) + UncleReward(b)
  <2>1. n \in Int /\ Values!Sum(M) <= Saturated(n)
    BY <1>4, <1>5, <1>6 DEF CoinbaseInBounds, Allowed
  <2> HIDE DEF n, M
  <2>2. Values!Sum(M) <= n
    BY <1>2, <2>1, SaturatedBelow
  <2> QED
    BY <2>2 DEF n
<1>8. IssuedBy(b) = Subsidy(Body[b].height) + UncleReward(b)
  BY DEF IssuedBy
<1> HIDE DEF M
<1> QED
  BY <1>2, <1>3, <1>5, <1>6, <1>7, <1>8

\* The supply bound survives the appending of a block.
LEMMA AppendKeepsSupply ==
    ASSUME LedgerInv, SupplyIsIssued, NEW b \in Blocks, Append1(b)
    PROVE  SupplyIsIssued'
<1> DEFINE L == Live(coins)
           S == Spends(b)
           C == Creates(b)
<1>1. /\ ledger \subseteq Blocks /\ coins \in UtxoSet
      /\ ledger' = ledger \cup {b} /\ coins' = Apply(coins, b)
      /\ Continues(top, b) /\ CanApply(coins, b) /\ CoinbaseInBounds(b)
  BY DEF Append1, LedgerInv, LedgerTypeOK
<1> SUFFICES ASSUME \A a \in ledger \cup {b} : Ordinary(a)
             PROVE  Supply' <= Issued(ledger')
  BY <1>1 DEF SupplyIsIssued
<1>2. Supply <= Issued(ledger)
  BY DEF SupplyIsIssued
<1>3. S \subseteq L /\ Live(coins') = (L \ S) \cup C
  <2>1. S \subseteq Coins /\ C \subseteq Coins
    BY CoinTypes
  <2>2. S \subseteq L
    BY <1>1, <2>1 DEF CanApply, Live
  <2>3. ASSUME NEW c \in Coins
        PROVE  coins'[c] # Missing <=> c \in (L \ S) \cup C
    BY <1>1, ApplyAt DEF Live
  <2>4. L \subseteq Coins
    BY DEF Live
  <2> HIDE DEF L, S, C
  <2> QED
    BY <2>1, <2>2, <2>3, <2>4 DEF Live
<1>4. /\ L \in SUBSET Coins /\ C \in SUBSET Coins /\ S \in SUBSET Coins
      /\ L \ S \in SUBSET Coins /\ (L \ S) \cup C \in SUBSET Coins
  BY CoinTypes DEF Live
<1>5. /\ IsFiniteSet(L) /\ IsFiniteSet(L \ S) /\ IsFiniteSet(C)
      /\ \A c \in Coins : ValueOf(c) \in Nat
      /\ Values!Sum(L) \in Nat /\ Values!Sum(S) \in Nat /\ Values!Sum(C) \in Nat
      /\ Values!Sum(L \ S) \in Nat /\ Values!Sum((L \ S) \cup C) \in Nat
  <2> HIDE DEF L, S, C
  <2>1. \A c \in Coins : ValueOf(c) \in Nat
    BY SupplyAssumption DEF ValueOf
  <2> QED
    BY <1>4, <2>1, WorthType
<1>6. Values!Sum(Live(coins')) <= Values!Sum(L) - Values!Sum(S) + Values!Sum(C)
  <2> HIDE DEF L, S, C
  <2>1. Values!Sum(L \ S) = Values!Sum(L) - Values!Sum(S)
    <3>1. \A c \in L : ValueOf(c) \in Int
      BY <1>4, <1>5
    <3> QED
      BY <1>3, <1>5, <3>1, Values!SumDifference, SameFinite
  <2>2. Values!Sum((L \ S) \cup C) <= Values!Sum(L \ S) + Values!Sum(C)
    <3>1. \A c \in (L \ S) \cup C : ValueOf(c) \in Nat
      BY <1>4, <1>5
    <3> QED
      BY <1>5, <3>1, Values!SumCover, SameFinite
  <2> QED
    BY <1>3, <1>5, <2>1, <2>2
<1>7. Values!Sum(C) <= Values!Sum(S) + IssuedBy(b)
  <2>1. \A t \in Regular(b) : ~IsCoinbase(t)
    BY <1>1, NoCoinbaseInside
  <2>2. Ordinary(b)
    OBVIOUS
  <2> QED
    BY <1>1, <2>1, <2>2, CreatesWithinIssue
<1>8. /\ Issues!Sum(ledger') = Issues!Sum(ledger) + IssuedBy(b)
      /\ Issues!Sum(ledger) \in Int /\ IssuedBy(b) \in Int
  <2>1. b \notin ledger
    <3>1. \A a \in ledger : Body[a].height < Body[b].height
      BY <1>1, AppendedAbove
    <3>2. Body[b].height \in Nat
      BY BodyTypes
    <3> QED
      BY <3>1, <3>2
  <2>2. IsFiniteSet(ledger) /\ \A x \in ledger \cup {b} : IssuedBy(x) \in Int
    BY <1>1, FiniteAssumption, FS_Subset, IssueTypes
  <2> QED
    BY <1>1, <2>1, <2>2, Issues!SumAdd, Issues!SumType, SameFinite
<1>9. Values!Sum(L) <= Issues!Sum(ledger)
  BY <1>2, SameSums
<1>10. Values!Sum(Live(coins')) \in Nat
  BY <1>3, <1>5
<1>11. Values!Sum(Live(coins')) <= Issues!Sum(ledger')
  <2> HIDE DEF L, S, C
  <2> QED
    BY <1>5, <1>6, <1>7, <1>8, <1>9, <1>10
<1>12. Issued(ledger') = Issues!Sum(ledger')
  BY SameSums
<1> QED
  BY <1>11, <1>12, SameSums

\* However ordinary blocks are appended, the coins there are never exceed what the
\* subsidies and uncle bonuses issued: SupplyIsIssued, for every universe of blocks and
\* amounts.
THEOREM LedgerSupply == LedgerSpec => []SupplyIsIssued
<1>1. LedgerInit => SupplyIsIssued
  <2> SUFFICES ASSUME LedgerInit PROVE SupplyIsIssued
    OBVIOUS
  <2>1. Live(coins) = {} /\ ledger = {}
    BY DEF LedgerInit, EmptyUtxo, Live
  <2>2. Supply = 0 /\ Issued(ledger) = 0
    BY <2>1, SameSums, Values!SumEmpty, Issues!SumEmpty
  <2> QED
    BY <2>2 DEF SupplyIsIssued
<1>2. LedgerInv /\ SupplyIsIssued /\ [LedgerNext]_ledgerVars => SupplyIsIssued'
  <2> SUFFICES ASSUME LedgerInv, SupplyIsIssued, [LedgerNext]_ledgerVars
               PROVE  SupplyIsIssued'
    OBVIOUS
  <2>1. CASE LedgerNext
    BY <2>1, AppendKeepsSupply DEF LedgerNext
  <2>2. CASE UNCHANGED ledgerVars
    <3>1. ledger' = ledger /\ coins' = coins
      BY <2>2 DEF ledgerVars
    <3>2. Supply' = Supply
      BY <3>1, SameSums
    <3> QED
      BY <3>1, <3>2 DEF SupplyIsIssued
  <2> QED
    BY <2>1, <2>2
<1> QED
  BY <1>1, <1>2, LedgerInvariant, PTL DEF LedgerSpec
=============================================================================
