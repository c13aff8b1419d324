------------------------------ MODULE MC_Wallets ------------------------------
(***************************************************************************)
(* The offer import screen (OfferImport) and the CAT send form             *)
(* (WalletCATSend) side by side.  They share no state: each step of the    *)
(* composition is a step of one of them that leaves the other's variables  *)
(* unchanged.  Both modules name a variable shown; the instances rename    *)
(* them apart.                                                             *)
(***************************************************************************)
CONSTANTS
    Imports, MaxImports,     \* as in OfferImport
    Addresses, MaxSubmits    \* as in WalletCATSend

VARIABLES
    mounted, isParsing, pc, started, offerShown, count,
    state, currency, loading, pending, dialog, form, sent, catShown, submits

offerVars == <<mounted, isParsing, pc, started, offerShown, count>>
catVars   == <<state, currency, loading, pending, dialog, form, sent, catShown, submits>>

Offer == INSTANCE OfferImport WITH shown <- offerShown
Cat   == INSTANCE WalletCATSend WITH shown <- catShown

\* One import at a time.
MCOneImport == {"i1"}

\* Every address shape the checks of handleSubmit tell apart.
MCAddresses == {"bech32", "retire", "hex0x", "hex0X", "hex", "colourAddrOwn",
                "colourAddrOther", "colourDesc", "lambAddr"}

MCInit == Offer!Init /\ Cat!Init

MCNext ==
    \/ Offer!Next /\ UNCHANGED catVars
    \/ Cat!Next /\ UNCHANGED offerVars

MCSpec == MCInit /\ [][MCNext]_<<offerVars, catVars>>

ExactlyOneOutcome == Offer!ExactlyOneOutcome
ParsingShownWhileImporting == Offer!ParsingShownWhileImporting
SentAddressesBare == Cat!SentAddressesBare

=============================================================================
