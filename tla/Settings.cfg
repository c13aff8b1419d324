\* SecurityCard and PlotNFTSelectPool, the two stateful components of
\* Settings.tsx, interleaved.
SPECIFICATION MCSpec
INVARIANT PoolLoadingWhileSubmitting
