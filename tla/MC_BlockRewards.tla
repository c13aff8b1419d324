--------------------------- MODULE MC_BlockRewards ---------------------------
(***************************************************************************)
(* Heights for TLC: genesis and the first blocks after it, and a window of *)
(* twelve blocks either side of every tier boundary (3, 6, 9 and 12 years  *)
(* of blocks) and of 15 years, where the last tier must hold.              *)
(***************************************************************************)
EXTENDS BlockRewards

MCHeights ==
    {0, 1, 2} \cup
    UNION {{k * BLOCKS_PER_YEAR + o : o \in -12..12} : k \in {3, 6, 9, 12, 15}}

=============================================================================
