----------------------------- MODULE OfferImport -----------------------------
(***************************************************************************)
(* SelectOfferFile (wallets/src/components/offers/OfferImport.tsx): the    *)
(* "View an Offer" screen.  An offer reaches it three ways: dropped on the *)
(* Dropzone (handleDrop), chosen in the native open dialog                 *)
(* (handleSelectOfferFile) or pasted (handlePasteOfferData).  Files go     *)
(* through handleOpen: fs.stat, a 1 MB size check, readFileSync; every     *)
(* path ends in parseOfferSummary, which extracts the bech32 offer and     *)
(* asks the wallet for its summary.  The outcome is a navigation to the    *)
(* offer view or an error dialog.  One React state, isParsing, drives the  *)
(* Dropzone's processing indicator for all of them.                        *)
(*                                                                         *)
(* Each element of Imports is one import the user started; the buttons    *)
(* are not disabled while another import runs, so imports interleave.     *)
(* Each action is one macrotask (a click, a dialog closing, the fs.stat    *)
(* callback, the RPC reply) with the synchronous code and microtasks it    *)
(* runs.  The raw text is abstracted to whether it contains an offer.      *)
(***************************************************************************)
EXTENDS Naturals

CONSTANTS
    Imports,       \* concurrent import slots
    MaxImports     \* bound on the number of imports started

VARIABLES
    mounted,       \* SelectOfferFile is mounted (navigate unmounts it)
    isParsing,     \* the isParsing React state
    pc,            \* pc[i]: where import i is suspended
    started,       \* started[i]: import i got past its dialog
    shown,         \* shown[i]: error dialogs and navigations of import i
    count          \* imports started so far

vars == <<mounted, isParsing, pc, started, shown, count>>

PcStates == {"idle", "fileDialog", "pasteDialog", "stat", "rpc"}

\* Outcomes of the fs.stat callback together with the synchronous rest of
\* continueOpen: an error, a file over 1 MB, readFileSync throwing, a file
\* without an offer in it, a file with one.
StatResults == {"err", "large", "unreadable", "garbage", "offer"}
\* getOfferSummary settles: {data: {success: true}}, {data: {success:
\* false}}, or {error} (response undefined, the destructuring throws).
RpcResults  == {"success", "failure", "error"}

\* parseOfferData: the text holds an offer1... bech32 string.  Leading and
\* trailing text are returned too, and unused.
parseOfferData(t) == t = "offer"

TypeOK ==
    /\ mounted \in BOOLEAN
    /\ isParsing \in BOOLEAN
    /\ pc \in [Imports -> PcStates]
    /\ started \in [Imports -> BOOLEAN]
    /\ shown \in [Imports -> 0..2]
    /\ count \in 0..MaxImports

Init ==
    /\ mounted = TRUE
    /\ isParsing = FALSE
    /\ pc = [i \in Imports |-> "idle"]
    /\ started = [i \in Imports |-> FALSE]
    /\ shown = [i \in Imports |-> 0]
    /\ count = 0

-----------------------------------------------------------------------------
(* Helpers                                                                 *)

\* setIsParsing(v): a no-op once the component has unmounted.
SetIsParsing(v) == isParsing' = IF mounted THEN v ELSE isParsing

\* errorDialog(...) or navigate(...) for import i, which then ends.
Finish(i) ==
    /\ shown' = [shown EXCEPT ![i] = @ + 1]
    /\ pc' = [pc EXCEPT ![i] = "idle"]

\* A new import starts from a click or a drop on the mounted screen.
Begin(i, next) ==
    /\ mounted
    /\ pc[i] = "idle"
    /\ count < MaxImports
    /\ count' = count + 1
    /\ pc' = [pc EXCEPT ![i] = next]
    /\ started' = [started EXCEPT ![i] = FALSE]
    /\ shown' = [shown EXCEPT ![i] = 0]

\* Variant: handleOpen without its setIsParsing(true).
HandleOpenNoFlag(i) ==
    /\ UNCHANGED isParsing
    /\ pc' = [pc EXCEPT ![i] = "stat"]
    /\ started' = [started EXCEPT ![i] = TRUE]

\* handleOpen(path): setIsParsing(true), then fs.stat is issued.
HandleOpen(i) ==
    /\ SetIsParsing(TRUE)
    /\ pc' = [pc EXCEPT ![i] = "stat"]
    /\ started' = [started EXCEPT ![i] = TRUE]

-----------------------------------------------------------------------------
(* Actions                                                                 *)

\* handleDrop(acceptedFiles): n files dropped.
HandleDrop(i, n) ==
    /\ mounted
    /\ pc[i] = "idle"
    /\ count < MaxImports
    /\ count' = count + 1
    /\ IF n # 1
       THEN /\ shown' = [shown EXCEPT ![i] = 1]
            /\ started' = [started EXCEPT ![i] = TRUE]
            /\ UNCHANGED <<pc, isParsing>>
       ELSE /\ shown' = [shown EXCEPT ![i] = 0]
            /\ HandleOpen(i)
    /\ UNCHANGED mounted

\* handleSelectOfferFile: ipcRenderer.invoke('showOpenDialog') is awaited.
ClickSelectOfferFile(i) ==
    /\ Begin(i, "fileDialog")
    /\ UNCHANGED <<mounted, isParsing>>

\* The open dialog answers: canceled or no path ends the import, else
\* handleOpen(filePaths[0]).
OpenDialogResult(i, picked) ==
    /\ pc[i] = "fileDialog"
    /\ IF picked
       THEN HandleOpen(i)
       ELSE /\ pc' = [pc EXCEPT ![i] = "idle"]
            /\ UNCHANGED <<isParsing, started>>
    /\ UNCHANGED <<mounted, shown, count>>

\* handlePasteOfferData: openDialog(<OfferDataEntryDialog />) is awaited.
ClickPasteOfferData(i) ==
    /\ Begin(i, "pasteDialog")
    /\ UNCHANGED <<mounted, isParsing>>

\* The entry dialog closes with text: "none" (empty or cancelled), or text
\* with or without an offer in it.  setIsParsing(true) and
\* parseOfferSummary; without an offer it shows its error and the finally
\* clears isParsing in the same microtask chain.
PasteDialogResult(i, text) ==
    /\ pc[i] = "pasteDialog"
    /\ \/ /\ text = "none"
          /\ pc' = [pc EXCEPT ![i] = "idle"]
          /\ UNCHANGED <<isParsing, started, shown>>
       \/ /\ text # "none"
          /\ ~parseOfferData(text)
          /\ started' = [started EXCEPT ![i] = TRUE]
          /\ Finish(i)
          /\ SetIsParsing(FALSE)
       \/ /\ parseOfferData(text)
          /\ started' = [started EXCEPT ![i] = TRUE]
          /\ pc' = [pc EXCEPT ![i] = "rpc"]
          /\ SetIsParsing(TRUE)
          /\ UNCHANGED shown
    /\ UNCHANGED <<mounted, count>>

\* Variant: the size check shows its error but falls through to the read.
StatCallbackNoElse(i, r) ==
    /\ pc[i] = "stat"
    /\ \/ /\ r = "err"
          /\ Finish(i)
          /\ UNCHANGED isParsing
       \/ /\ r = "large"
          /\ shown' = [shown EXCEPT ![i] = @ + 2]
          /\ pc' = [pc EXCEPT ![i] = "idle"]
          /\ SetIsParsing(FALSE)
       \/ /\ r \in {"unreadable", "garbage"}
          /\ Finish(i)
          /\ SetIsParsing(FALSE)
       \/ /\ r = "offer"
          /\ pc' = [pc EXCEPT ![i] = "rpc"]
          /\ UNCHANGED <<isParsing, shown>>
    /\ UNCHANGED <<mounted, started, count>>

\* The fs.stat callback.  err: errorDialog(err) and nothing else.
\* Otherwise continueOpen: over 1 MB, readFileSync throwing, or no offer in
\* the text each show one error dialog and its finally clears isParsing; an
\* offer issues getOfferSummary.
StatCallback(i, r) ==
    /\ pc[i] = "stat"
    /\ \/ /\ r = "err"
          /\ Finish(i)
          /\ UNCHANGED isParsing
       \/ /\ r \in {"large", "unreadable"} \/ (r = "garbage" /\ ~parseOfferData(r))
          /\ Finish(i)
          /\ SetIsParsing(FALSE)
       \/ /\ r = "offer"
          /\ parseOfferData(r)
          /\ pc' = [pc EXCEPT ![i] = "rpc"]
          /\ UNCHANGED <<isParsing, shown>>
    /\ UNCHANGED <<mounted, started, count>>

\* getOfferSummary settles.  success: navigate to the offer view, which
\* unmounts this screen; otherwise one error dialog (the "Could not parse"
\* one, or the caught TypeError).  The caller's finally clears isParsing.
OfferSummaryResult(i, r) ==
    /\ pc[i] = "rpc"
    /\ Finish(i)
    /\ SetIsParsing(FALSE)
    /\ mounted' = (mounted /\ r # "success")
    /\ UNCHANGED <<started, count>>

Next ==
    \E i \in Imports :
        \/ \E n \in {1, 2} : HandleDrop(i, n)
        \/ ClickSelectOfferFile(i)
        \/ \E b \in BOOLEAN : OpenDialogResult(i, b)
        \/ ClickPasteOfferData(i)
        \/ \E t \in {"none", "garbage", "offer"} : PasteDialogResult(i, t)
        \/ \E r \in StatResults : StatCallback(i, r)
        \/ \E r \in RpcResults : OfferSummaryResult(i, r)

\* Node's fs callbacks and the wallet's RPC reply eventually arrive.
Fairness ==
    \A i \in Imports :
        /\ WF_vars(\E r \in StatResults : StatCallback(i, r))
        /\ WF_vars(\E r \in RpcResults : OfferSummaryResult(i, r))

Spec == Init /\ [][Next]_vars /\ Fairness

-----------------------------------------------------------------------------
(* Properties                                                              *)

Busy(i) == pc[i] \in {"stat", "rpc"}

\* Every import that got past its dialog ends with exactly one outcome: one
\* error dialog or one navigation, never none and never two.
ExactlyOneOutcome ==
    \A i \in Imports : (pc[i] = "idle" /\ started[i]) => shown[i] = 1

\* While an import is reading or being summarised, the Dropzone shows it
\* is processing (isParsing).
ParsingShownWhileImporting ==
    mounted /\ (\E i \in Imports : Busy(i)) => isParsing

\* When no import is reading or being summarised, the Dropzone does not
\* show it is processing.
ParsingClearedWhenIdle ==
    mounted /\ (\A i \in Imports : ~Busy(i)) => ~isParsing

=============================================================================
