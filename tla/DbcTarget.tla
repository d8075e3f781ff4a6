------------------------------ MODULE DbcTarget ------------------------------
(***************************************************************************)
(* Block time and difficulty: consensus.rs, the timestamp and target rules *)
(* of validate_block, and the compact targets of types/dbc_types.rs.       *)
(*                                                                         *)
(* A target is a number of 2 * Half digits in base Base (32 bytes in the   *)
(* code); a machine word of the retarget arithmetic has Half digits        *)
(* (u128).  The chain is the sequence of its blocks' timestamps, genesis   *)
(* first: nothing else of a block is read here.                            *)
(***************************************************************************)
EXTENDS Integers, FiniteSets, Sequences

CONSTANTS
    Base,          \* 256
    Half,          \* 16
    Interval,      \* DIFFICULTY_ADJUST_INTERVAL_BLOCKS
    Window,        \* DIFFICULTY_AVG_WINDOW_BLOCKS
    Spacing,       \* TARGET_BLOCK_TIME_SECS
    MedianWindow,  \* MEDIAN_TIME_WINDOW_BLOCKS
    MaxFuture,     \* MAX_FUTURE_BLOCK_TIME_SECS
    GenesisTarget, \* GENESIS_DIFFICULTY_TARGET
    MaxTime,       \* the clock stops here (a bound of the model)
    MaxBlocks      \* blocks explored (a bound of the model)

\* The powers of the base.
Pow[n \in Nat] == IF n = 0 THEN 1 ELSE Base * Pow[n - 1]

\* A compact target (nBits): one digit of exponent, three of mantissa.
CompactTarget == [exponent : 0..2 * Half, mantissa : 0..Pow[3] - 1]

ASSUME TargetAssumption ==
    /\ Base \in Nat /\ Base > 1
    /\ Half \in Nat /\ Half > 2
    /\ Interval \in Nat \ {0} /\ Window \in Nat \ {0} /\ MedianWindow \in Nat \ {0}
    /\ Spacing \in Nat /\ MaxFuture \in Nat
    /\ GenesisTarget \in CompactTarget
    /\ MaxTime \in Nat /\ MaxBlocks \in Nat \ {0}

VARIABLES
    stamps,        \* timestamps of blocks 0..tip
    target,        \* difficulty_target of the tip
    now,           \* the clock all nodes read
    ahead          \* heights whose timestamp was ahead of the clock (history)

vars == <<stamps, target, now, ahead>>

\* The type invariant.
TypeOK ==
    /\ stamps \in Seq(0..MaxTime + MaxFuture)
    /\ Len(stamps) \in 1..MaxBlocks
    /\ target \in CompactTarget
    /\ now \in 0..MaxTime
    /\ ahead \subseteq 0..MaxBlocks

\* Genesis is imported.
Init ==
    /\ stamps = <<0>>
    /\ target = GenesisTarget
    /\ now = 0
    /\ ahead = {}

-----------------------------------------------------------------------------
(* Compact targets.                                                        *)

\* expand_compact_target; an exponent below 3 does not shift the mantissa down.  (The
\* code gives 0 for an exponent above the length too: no CompactTarget has one.)
Expand(c) ==
    IF c.exponent = 0 THEN 0
    ELSE c.mantissa * Pow[IF c.exponent > 3 THEN c.exponent - 3 ELSE 0]

\* Genesis itself was mined: its target leaves some hash below it.
ASSUME GenesisAssumption == Expand(GenesisTarget) > 0

MaxWord == Pow[Half] - 1

\* target_to_u128: the upper half of the digits.
UpperHalf(v) == v \div Pow[Half]

\* The digits of v without leading zeros.
Digits(v) == CHOOSE n \in 0..Half : v < Pow[n] /\ (n > 0 => v >= Pow[n - 1])

\* Mutant: the exponent counts the digits behind the mantissa only.
CompactShort(v) ==
    LET n == Digits(v) IN
    [exponent |-> IF n > 3 THEN n - 3 ELSE 0,
     mantissa |-> IF n > 3 THEN v \div Pow[n - 3] ELSE v * Pow[3 - n]]

\* Mutant: the mantissa is not cut to three digits.
CompactWhole(v) == [exponent |-> Digits(v), mantissa |-> v]

\* compact_from_u128: the three leading digits and the length of the WORD.
CompactFromWord(v) ==
    LET n == Digits(v) IN
    [exponent |-> n,
     mantissa |-> IF n > 3 THEN v \div Pow[n - 3] ELSE v * Pow[3 - n]]

Clamp(v, low, high) == IF v < low THEN low ELSE IF v > high THEN high ELSE v

\* adjust_compact_target, with its saturating product.
Adjust(c, actual, expected) ==
    IF actual = 0 \/ expected = 0 THEN c
    ELSE LET product == Clamp(UpperHalf(Expand(c)) * actual, 0, MaxWord)
         IN  CompactFromWord(Clamp(product \div expected, 1, MaxWord \div 2))

-----------------------------------------------------------------------------
(* What the chain demands of the next block.                               *)

NextBlock == Len(stamps)

\* Timestamps of the last n blocks, or of all of them.
Recent(n) ==
    LET len == Len(stamps) IN SubSeq(stamps, IF len > n THEN len - n + 1 ELSE 1, len)

\* saturating_sub of the first timestamp of the window from the last one.
ActualSecs ==
    LET w == Recent(Window)
        d == w[Len(w)] - w[1]
    IN  IF d > 0 THEN d ELSE 0

ExpectedSecs == (Len(Recent(Window)) - 1) * Spacing

Retargets == NextBlock % Interval = 0 /\ Len(Recent(Window)) >= 2

\* next_difficulty_target.
NextTarget == IF Retargets THEN Adjust(target, ActualSecs, ExpectedSecs) ELSE target

\* Mutant: the greatest recent timestamp takes the place of the median.
LatestOf(w) == CHOOSE m \in {w[i] : i \in DOMAIN w} : \A i \in DOMAIN w : w[i] <= m

\* stamps[len / 2] of the sorted window.
MedianOf(w) ==
    CHOOSE m \in {w[i] : i \in DOMAIN w} :
        /\ Cardinality({i \in DOMAIN w : w[i] < m}) <= Len(w) \div 2
        /\ Cardinality({i \in DOMAIN w : w[i] <= m}) > Len(w) \div 2

\* median_time_past.
MedianTimePast == MedianOf(Recent(MedianWindow))

\* Mutant: the median is not compared.
ValidTimeForwardOnly(s) == s <= now + MaxFuture

\* The timestamp rules of validate_block.
ValidTime(s) == s <= now + MaxFuture /\ s >= MedianTimePast

-----------------------------------------------------------------------------

\* A node accepts a block with timestamp s, mined by anyone, honest or with a clock
\* of its own.  Some hash must lie below the target.
AcceptBlock(s) ==
    /\ NextBlock < MaxBlocks
    /\ ValidTime(s)
    /\ Expand(NextTarget) > 0
    /\ stamps' = Append(stamps, s)
    /\ target' = NextTarget
    /\ ahead' = IF s > now THEN ahead \cup {NextBlock} ELSE ahead
    /\ UNCHANGED now

Tick ==
    /\ now < MaxTime
    /\ now' = now + 1
    /\ UNCHANGED <<stamps, target, ahead>>

Next == (\E s \in 0..MaxTime + MaxFuture : AcceptBlock(s)) \/ Tick

Spec == Init /\ [][Next]_vars

-----------------------------------------------------------------------------
(* Properties.                                                             *)

\* Median time past never moves back, although single timestamps do and the oldest
\* one leaves the window with every block (validation.rs:236-243).
MedianNeverFalls == [][MedianTimePast' >= MedianTimePast]_vars

\* As long as fewer than half of the blocks in the median window were stamped ahead of
\* the clock, a miner that stamps with the clock (miner.rs:56) is not refused.
HonestStampAccepted ==
    LET len == Len(Recent(MedianWindow))
        fast == {h \in ahead : h >= NextBlock - len}
    IN  2 * Cardinality(fast) < len => ValidTime(now)

\* No retarget, nor any sequence of them, ends in a target that no hash is below.
StaysMinable == Expand(NextTarget) > 0

\* "Higher actual time -> easier target" (consensus.rs:158): blocks that came slower
\* than Spacing never make the next ones harder.
SlowBlocksEase ==
    [][Retargets /\ ActualSecs > ExpectedSecs => Expand(target') >= Expand(target)]_vars
=============================================================================
