----------------------------- MODULE BlockRewards -----------------------------
(***************************************************************************)
(* calculatePoolReward and calculateBaseFarmerReward                       *)
(* (core/src/utils/blockRewards.ts): the coinbase reward of the block at a *)
(* height, split 7/8 to the pool and 1/8 to the farmer, halving every      *)
(* three years of blocks after the genesis pre-farm.                       *)
(*                                                                         *)
(* The code multiplies big.js decimals, which is exact.  Every amount it   *)
(* can produce is a whole multiple of 1/64 coin (MOJO_PER_LITTLELAMBOCOIN  *)
(* / 64 mojo), so amounts are kept as integers in that unit: the genesis   *)
(* amount, 21000000 * 64, still fits TLC's 32-bit integers while the same  *)
(* amount in mojo would not.                                               *)
(*                                                                         *)
(* The checked heights walk up the chain: a step goes to any higher        *)
(* height of Heights.                                                      *)
(***************************************************************************)
EXTENDS Integers

CONSTANTS
    Heights        \* the block heights checked

VARIABLE height

\* Amounts are in 1/64 coin.
UNIT_PER_LITTLELAMBOCOIN == 64
BLOCKS_PER_YEAR == 1681920
\* POOL_REWARD = '0.875' and FARMER_REWARD = '0.125', as eighths.
POOL_EIGHTHS   == 7
FARMER_EIGHTHS == 1

\* The coin amount a branch of calculatePoolReward multiplies by, in 1/8
\* coin: '21000000', '2', '1', '0.5', '0.25' or '0.125'.
PoolBaseEighths(h) ==
    CASE h = 0                    -> 21000000 * 8
      [] h < 3 * BLOCKS_PER_YEAR  -> 16
      [] h < 6 * BLOCKS_PER_YEAR  -> 8
      [] h < 9 * BLOCKS_PER_YEAR  -> 4
      [] h < 12 * BLOCKS_PER_YEAR -> 2
      [] OTHER                    -> 1

\* Variant: in the farmer's copy of the tiers, a boundary written with <=.
FarmerBaseEighthsInclusive(h) ==
    CASE h = 0                     -> 21000000 * 8
      [] h < 3 * BLOCKS_PER_YEAR   -> 16
      [] h <= 6 * BLOCKS_PER_YEAR  -> 8
      [] h < 9 * BLOCKS_PER_YEAR   -> 4
      [] h < 12 * BLOCKS_PER_YEAR  -> 2
      [] OTHER                     -> 1

\* The same, for calculateBaseFarmerReward, which repeats the tiers.
FarmerBaseEighths(h) ==
    CASE h = 0                    -> 21000000 * 8
      [] h < 3 * BLOCKS_PER_YEAR  -> 16
      [] h < 6 * BLOCKS_PER_YEAR  -> 8
      [] h < 9 * BLOCKS_PER_YEAR  -> 4
      [] h < 12 * BLOCKS_PER_YEAR -> 2
      [] OTHER                    -> 1

\* MOJO_PER_LITTLELAMBOCOIN.times(base).times(share): an eighth of a coin
\* times an eighth is a 1/64 coin unit.
calculatePoolReward(h) == PoolBaseEighths(h) * POOL_EIGHTHS

calculateBaseFarmerReward(h) == FarmerBaseEighths(h) * FARMER_EIGHTHS

Init == height \in Heights

Next == \E h \in Heights : h > height /\ height' = h

Spec == Init /\ [][Next]_height

-----------------------------------------------------------------------------
(* Reference                                                               *)

\* The schedule the two functions split, stated as halvings: 21 million
\* coins at genesis, then 2 coins halved once per three years of blocks,
\* four times at most.
RECURSIVE Halve(_, _)
Halve(x, k) == IF k = 0 THEN x ELSE Halve(x \div 2, k - 1)

ScheduledReward(h) ==
    IF h = 0
    THEN 21000000 * UNIT_PER_LITTLELAMBOCOIN
    ELSE LET halvings == h \div (3 * BLOCKS_PER_YEAR)
         IN Halve(2 * UNIT_PER_LITTLELAMBOCOIN, IF halvings > 4 THEN 4 ELSE halvings)

\* At every height the pool and farmer rewards add up to the scheduled
\* block reward and are split exactly 7 : 1.  The two functions repeat the
\* tier ladder, so the split also checks that the copies agree.
RewardsMatchSchedule ==
    /\ calculatePoolReward(height) + calculateBaseFarmerReward(height)
         = ScheduledReward(height)
    /\ calculatePoolReward(height) = 7 * calculateBaseFarmerReward(height)

=============================================================================
