------------------------------ MODULE MC_Settings ------------------------------
(***************************************************************************)
(* The two stateful components of Settings.tsx side by side: SecurityCard  *)
(* and PlotNFTSelectPool share no state, so their composition interleaves  *)
(* their steps, each leaving the other's variables alone.                  *)
(***************************************************************************)
EXTENDS SecurityCard

VARIABLES walletLoading, hasBalance, loading, pc, target, answer

poolVars == <<walletLoading, hasBalance, loading, pc, target, answer>>

Pool == INSTANCE PlotNFTSelectPool

MCInit == Init /\ Pool!Init

MCNext ==
    \/ Next /\ UNCHANGED poolVars
    \/ Pool!Next /\ UNCHANGED vars

MCSpec == MCInit /\ [][MCNext]_<<vars, poolVars>>

\* The properties of both components, checked on the composition.
PoolLoadingWhileSubmitting == Pool!LoadingWhileSubmitting

=============================================================================
