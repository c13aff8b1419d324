\* One offer import at a time, twelve in a row; three CAT submits, enough
\* for a send, a failed send and a resend, and for a second click during a
\* pending spend.  The send form never stops (the wallet's sync state can
\* always change), so the composition never deadlocks.
CONSTANTS
    Imports <- MCOneImport
    MaxImports = 12
    Addresses <- MCAddresses
    MaxSubmits = 3

SPECIFICATION MCSpec

INVARIANT ExactlyOneOutcome
INVARIANT ParsingShownWhileImporting
INVARIANT SentAddressesBare
