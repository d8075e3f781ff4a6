------------------------------ MODULE DbcSupply ------------------------------
(***************************************************************************)
(* Amounts (consensus.rs, node/uncles.rs, node/validation.rs): what a coin *)
(* is worth, what a block may issue and what its coinbase may claim.       *)
(*                                                                         *)
(* Amounts are 64-bit words.  The totals of inputs, of fees and of what a  *)
(* coinbase may claim are saturating sums; total_output_value is a plain   *)
(* sum, which wraps in a release build.                                    *)
(***************************************************************************)
EXTENDS DbcBlocks, FiniteSetsExt

CONSTANTS
    WordSize,          \* 2^64, the number of values of a u64
    Value,             \* outpoint -> value of the output it names, in units
    InitialSubsidy,    \* INITIAL_SUBSIDY_UNITS
    HalvingInterval    \* HALVING_INTERVAL_BLOCKS

ASSUME SupplyAssumption ==
    /\ WordSize \in Nat \ {0}
    /\ Value \in [Coins -> 0..WordSize - 1]
    /\ InitialSubsidy \in Nat
    /\ HalvingInterval \in Nat \ {0}

-----------------------------------------------------------------------------

\* What a set of outputs is worth together.
Worth(S) == MapThenSumSet(LAMBDA c : Value[c], S)

\* A sum of natural numbers as saturating_add gives it.
Saturated(n) == IF n < WordSize THEN n ELSE WordSize - 1

\* block_subsidy_units.
Subsidy(height) ==
    LET halvings == height \div HalvingInterval
    IN  IF halvings >= 64 THEN 0 ELSE InitialSubsidy \div 2^halvings

UncleRewardBps == 7500
BpsDenom == 10000

\* uncle_reward_units: a bonus on each uncle header, from the subsidy of its height.
UncleReward(b) ==
    MapThenSumSet(LAMBDA u : (Subsidy(Body[u].height) * UncleRewardBps) \div BpsDenom, Uncles(b))

\* total_output_value.
OutputSum(t) == Worth(Makes(t)) % WordSize

\* The inputs of a transaction, each with its place: a coin listed twice counts twice.
InputsOf(t) == {t} \X DOMAIN Tx[t].inputs
ValueAt(p) == Value[Tx[p[1]].inputs[p[2]]]

InputSum(t) == Saturated(MapThenSumSet(ValueAt, InputsOf(t)))

\* fees_units of validate_transaction.
Fee(t) == IF IsCoinbase(t) THEN 0 ELSE InputSum(t) - OutputSum(t)

\* The regular transactions of a block, each with its place.
RegularOf(b) == {b} \X DOMAIN Body[b].txs
FeeAt(p) == Fee(Body[p[1]].txs[p[2]])

BlockFees(b) == Saturated(MapThenSumSet(FeeAt, RegularOf(b)))

\* Mutant: the subsidy is the one of the parent's height.
AllowedOneLate(b) ==
    Saturated(Subsidy(IF Body[b].height = 0 THEN 0 ELSE Body[b].height - 1)
                + BlockFees(b) + UncleReward(b))

\* What the coinbase of a block may pay: subsidy, fees and uncle bonus.
Allowed(b) == Saturated(Subsidy(Body[b].height) + BlockFees(b) + UncleReward(b))

\* validate_block: otherwise CoinbasePaysTooMuch.
CoinbaseInBounds(b) == OutputSum(Body[b].coinbase) <= Allowed(b)
=============================================================================
