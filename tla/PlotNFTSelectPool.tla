--------------------------- MODULE PlotNFTSelectPool ---------------------------
(***************************************************************************)
(* PlotNFTSelectPool (gui/src/components/settings/Settings.tsx, the third  *)
(* file of it): the form that chooses self pooling or a pool for a new     *)
(* plot NFT.  Its submit handler sets the loading flag, builds the initial *)
(* target state (asking the pool for its puzzle hash and lock height when  *)
(* a pool URL is given), awaits the parent's onSubmit and clears the flag  *)
(* in a finally block.  The form shows a spinner while the standard wallet *)
(* loads and the faucet while its balance is zero; only the form proper    *)
(* has the submit button, a ButtonLoading that is disabled while loading.  *)
(*                                                                         *)
(* Used stand-alone (no onCancel prop), which is when the component itself *)
(* renders the submit button.  The fee is left out: it is converted the    *)
(* same way on every path and no property is about it.                     *)
(***************************************************************************)
EXTENDS Naturals

\* What getPoolInfo may settle with: a rejection, or a JSON answer with a
\* puzzle hash or none and a relativeLockHeight that is missing (a record
\* without the field), zero or positive.
PoolAnswers ==
    [rejected : {TRUE}]
        \cup [rejected : {FALSE}, targetPuzzleHash : BOOLEAN]
        \cup [rejected : {FALSE}, targetPuzzleHash : BOOLEAN,
               relativeLockHeight : {0, 100}]

\* No answer yet.
NoAnswer == <<>>

\* The answer has a relativeLockHeight field.
HasLockHeight(a) == "relativeLockHeight" \in DOMAIN a

\* The initial target states prepareSubmitData builds: the state and whether
\* the pool's URL, puzzle hash and lock height were filled in.
TargetStates ==
    [state : {"SELF_POOLING", "FARMING_TO_POOL"}, pool : BOOLEAN]

VARIABLES
    walletLoading,  \* useStandardWallet().loading
    hasBalance,     \* !!balance && balance > 0
    loading,        \* the useState flag of the submit button
    pc,             \* where handleSubmit is: "idle", "poolInfo", "onSubmit"
    target,         \* the initialTargetState being submitted, or "none"
    answer          \* the pool's last answer to getPoolInfo, or NoAnswer

vars == <<walletLoading, hasBalance, loading, pc, target, answer>>

TypeOK ==
    /\ walletLoading \in BOOLEAN
    /\ hasBalance \in BOOLEAN
    /\ loading \in BOOLEAN
    /\ pc \in {"idle", "poolInfo", "onSubmit"}
    /\ target \in TargetStates \cup {"none"}
    /\ answer \in PoolAnswers \cup {NoAnswer}

Init ==
    /\ walletLoading \in BOOLEAN
    /\ hasBalance \in BOOLEAN
    /\ loading = FALSE
    /\ pc = "idle"
    /\ target = "none"
    /\ answer = NoAnswer

-----------------------------------------------------------------------------
(* prepareSubmitData and handleSubmit                                      *)

\* The target state before any pool is asked.
InitialTargetState(self) ==
    [state |-> IF self THEN "SELF_POOLING" ELSE "FARMING_TO_POOL", pool |-> FALSE]

\* prepareSubmitData throws unless the pool names a puzzle hash, and
\* compares the lock height with undefined (a lock height of 0 is valid).
PoolAnswerRejected(a) ==
    a.rejected \/ ~a.targetPuzzleHash \/ ~HasLockHeight(a)

\* Variant: setLoading(false) after the awaits instead of in a finally, so
\* a step that throws leaves the flag set.
FinallyOnSuccessOnly(failed) == loading' = failed

\* The finally block of handleSubmit: setLoading(false), whether the step
\* that ended the handler resolved or threw.
Finally(failed) == loading' = FALSE

\* The render: a spinner while the wallet loads, the faucet (with only a
\* back button) while the balance is zero, else the form and its submit
\* button.
SubmitButtonShown == ~walletLoading /\ hasBalance

\* The submit button is rendered, enabled, and clicked (or Enter pressed in
\* a field of the form): setLoading(true), then prepareSubmitData, which
\* awaits getPoolInfo when pooling to a URL and otherwise goes straight on
\* to onSubmit.
HandleSubmit ==
    /\ SubmitButtonShown
    /\ ~loading
    /\ \E self \in BOOLEAN, poolUrl \in BOOLEAN :
          /\ target' = InitialTargetState(self)
          /\ pc' = IF ~self /\ poolUrl THEN "poolInfo" ELSE "onSubmit"
    /\ loading' = TRUE
    /\ UNCHANGED <<walletLoading, hasBalance, answer>>

\* getPoolInfo settles.  A rejected answer throws out of handleSubmit into
\* its finally; an accepted one fills in the pool and awaits onSubmit.
PoolInfoAnswered ==
    /\ pc = "poolInfo"
    /\ \E a \in PoolAnswers :
          /\ answer' = a
          /\ IF PoolAnswerRejected(a)
                THEN /\ pc' = "idle"
                     /\ Finally(TRUE)
                     /\ UNCHANGED target
                ELSE /\ pc' = "onSubmit"
                     /\ target' = [target EXCEPT !.pool = TRUE]
                     /\ UNCHANGED loading
    /\ UNCHANGED <<walletLoading, hasBalance>>

\* The parent's onSubmit, called with the target state, resolves or rejects.
OnSubmitSettled ==
    /\ pc = "onSubmit"
    /\ \E ok \in BOOLEAN : Finally(~ok)
    /\ pc' = "idle"
    /\ UNCHANGED <<walletLoading, hasBalance, target, answer>>

\* useStandardWallet refetches: the wallet starts or stops loading, or its
\* balance becomes zero or positive.
WalletUpdated ==
    /\ \E l, b \in BOOLEAN :
          /\ <<l, b>> # <<walletLoading, hasBalance>>
          /\ walletLoading' = l
          /\ hasBalance' = b
    /\ UNCHANGED <<loading, pc, target, answer>>

Next == HandleSubmit \/ PoolInfoAnswered \/ OnSubmitSettled \/ WalletUpdated

Spec == Init /\ [][Next]_vars

-----------------------------------------------------------------------------
(* Properties                                                              *)

\* The submit button spins exactly while handleSubmit runs: a getPoolInfo
\* failure or an onSubmit rejection still ends in setLoading(false), so the
\* button never stays disabled after the handler is over.
LoadingWhileSubmitting == loading <=> pc # "idle"

=============================================================================
