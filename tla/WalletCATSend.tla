---------------------------- MODULE WalletCATSend ----------------------------
(***************************************************************************)
(* WalletCATSend (core/src/components/Logo/Logo.tsx): the form that sends  *)
(* a CAT.  handleSubmit checks the wallet is synced, that the form may     *)
(* submit (canSubmit), that amount and fee are numeric, then normalises    *)
(* the address (the "retire" alias, coloured forms, the 0x prefix), calls  *)
(* spendCAT, awaits the result dialog and resets the form.  An error       *)
(* thrown from handleSubmit is shown by the Form wrapper.                  *)
(*                                                                         *)
(* Addresses are model values standing for the shapes the checks tell      *)
(* apart.  Each action is one macrotask: a click runs handleSubmit up to   *)
(* the spendCAT await; the reply and the closing of the dialog are the     *)
(* others.  The wallet's sync state, its loading and the currency code     *)
(* load and change independently of the form.                              *)
(***************************************************************************)
EXTENDS Naturals

CONSTANTS
    Addresses,     \* the address shapes a user may type
    MaxSubmits     \* bound on the number of submits

\* The shapes: a bech32 address, "retire", hex with 0x / 0X / no prefix,
\* colour_addr:// with this wallet's asset id or another, a colour_desc,
\* a littlelambocoin_addr:// address, and the burn address "retire"
\* stands for.
ASSUME Addresses \subseteq {"bech32", "retire", "hex0x", "hex0X", "hex",
                            "colourAddrOwn", "colourAddrOther", "colourDesc",
                            "lambAddr"}

VARIABLES
    state,         \* useWalletState().state: "SYNCED" or "SYNCING"
    currency,      \* useCurrencyCode() has a value (retireAddress defined)
    loading,       \* useWallet(walletId).loading
    pending,       \* spendCAT calls awaiting their reply
    dialog,        \* the result dialog is open (handleSubmit awaits it)
    form,          \* the form fields: "typed" or "empty" (after reset)
    sent,          \* the addresses spendCAT was called with
    shown,         \* the last outcome the user saw: "none", "error", "result"
    submits        \* submits so far

vars == <<state, currency, loading, pending, dialog, form, sent, shown, submits>>

\* The retire burn address toBech32m('00..00', currencyCode).
RetireAddress == "burn"
\* What spendCAT may be given: addresses without the prefixes the code strips.
BareAddresses == {"bech32", "hex", "burn"}

TypeOK ==
    /\ state \in {"SYNCED", "SYNCING"}
    /\ currency \in BOOLEAN
    /\ loading \in BOOLEAN
    /\ pending \in 0..MaxSubmits
    /\ dialog \in BOOLEAN
    /\ form \in {"typed", "empty"}
    /\ sent \subseteq Addresses \cup BareAddresses
    /\ shown \in {"none", "error", "result"}
    /\ submits \in 0..MaxSubmits

Init ==
    /\ state \in {"SYNCED", "SYNCING"}
    /\ currency \in BOOLEAN
    /\ loading \in BOOLEAN
    /\ pending = 0
    /\ dialog = FALSE
    /\ form = "typed"
    /\ sent = {}
    /\ shown = "none"
    /\ submits = 0

-----------------------------------------------------------------------------
(* Address handling, lines 130-155                                         *)

\* address.includes('colour') and includes('littlelambocoin_addr' or
\* 'colour_desc'), for each shape.
IncludesColour(a) == a \in {"colourAddrOwn", "colourAddrOther", "colourDesc"}
IncludesLambOrDesc(a) == a \in {"lambAddr", "colourDesc"}

\* Variant: only the lower-case 0x prefix is stripped.
StripHexLower(a) == IF a = "hex0x" THEN "hex" ELSE a

\* address.startsWith('0x') || startsWith('0X'): slice(2).
StripHex(a) == IF a \in {"hex0x", "hex0X"} THEN "hex" ELSE a

\* The result of the checks for typed address a: an error, or the address
\* spendCAT is called with.  The colour_addr:// branch (lines 142-148) and
\* the littlelambocoin_addr:// slice (150-152) are reached by no shape: every
\* colour_addr:// address includes 'colour' and is rejected at line 135, and
\* the slice compares 12 characters with a 23-character prefix.
CheckAddress(a, hasCurrency) ==
    LET b == IF a = "retire" /\ hasCurrency THEN RetireAddress ELSE a
    IN  CASE IncludesColour(b)     -> [ok |-> FALSE, addr |-> b]
          [] IncludesLambOrDesc(b) -> [ok |-> FALSE, addr |-> b]
          [] OTHER                 -> [ok |-> TRUE, addr |-> StripHex(b)]

-----------------------------------------------------------------------------
(* Actions                                                                 *)

\* canSubmit = wallet && !isSpendCatLoading && !loading; it also disables
\* the Send button.
CanSubmit == ~loading /\ pending = 0

\* The Send button is clicked (or Enter pressed) with typed data: an
\* address and whether amount and fee pass isNumeric.  No click reaches
\* the form while the result dialog is open.
Submit(a, amountOk, feeOk) ==
    LET r == CheckAddress(a, currency) IN
    /\ ~dialog
    /\ CanSubmit
    /\ submits < MaxSubmits
    /\ submits' = submits + 1
    /\ IF state # "SYNCED" \/ ~amountOk \/ ~feeOk \/ ~r.ok
       THEN /\ shown' = "error"
            /\ UNCHANGED <<pending, sent>>
       ELSE /\ pending' = pending + 1
            /\ sent' = sent \cup {r.addr}
            /\ UNCHANGED shown
    /\ UNCHANGED <<state, currency, loading, dialog, form>>

\* spendCAT(...).unwrap() settles.  A transaction result opens the result
\* dialog, which handleSubmit awaits; a rejection, or a result with no
\* dialog, throws and the error is shown with the form as typed.
SpendResult(ok) ==
    /\ pending > 0
    /\ pending' = pending - 1
    /\ IF ok
       THEN /\ dialog' = TRUE
            /\ UNCHANGED <<shown, form>>
       ELSE /\ shown' = "error"
            /\ UNCHANGED <<dialog, form>>
    /\ UNCHANGED <<state, currency, loading, sent, submits>>

\* The result dialog is closed; handleSubmit resumes and methods.reset().
DialogClosed ==
    /\ dialog
    /\ dialog' = FALSE
    /\ shown' = "result"
    /\ form' = "empty"
    /\ UNCHANGED <<state, currency, loading, pending, sent, submits>>

\* The user types into the emptied form again.
Type ==
    /\ form = "empty"
    /\ ~dialog
    /\ form' = "typed"
    /\ UNCHANGED <<state, currency, loading, pending, dialog, sent, shown, submits>>

\* The wallet's sync status changes.
SyncChange ==
    /\ state' = IF state = "SYNCED" THEN "SYNCING" ELSE "SYNCED"
    /\ UNCHANGED <<currency, loading, pending, dialog, form, sent, shown, submits>>

\* The network info arrives: currencyCode, and with it retireAddress.
CurrencyLoaded ==
    /\ ~currency
    /\ currency' = TRUE
    /\ UNCHANGED <<state, loading, pending, dialog, form, sent, shown, submits>>

\* useWallet(walletId) finishes loading.
WalletLoaded ==
    /\ loading
    /\ loading' = FALSE
    /\ UNCHANGED <<state, currency, pending, dialog, form, sent, shown, submits>>

Next ==
    \/ \E a \in Addresses, amountOk, feeOk \in BOOLEAN : Submit(a, amountOk, feeOk)
    \/ \E ok \in BOOLEAN : SpendResult(ok)
    \/ DialogClosed
    \/ Type
    \/ SyncChange
    \/ CurrencyLoaded
    \/ WalletLoaded

Spec == Init /\ [][Next]_vars

-----------------------------------------------------------------------------
(* Properties                                                              *)

\* spendCAT is never called with an address still carrying the 0x / 0X
\* prefix the form strips, or with a coloured or littlelambocoin_addr form.
\* ("retire" itself reaches it verbatim while currencyCode is undefined.)
SentAddressesBare ==
    \A a \in sent : a \in BareAddresses \cup {"retire"}

=============================================================================
