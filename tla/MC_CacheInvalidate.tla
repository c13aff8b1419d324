------------------------- MODULE MC_CacheInvalidate -------------------------
(***************************************************************************)
(* Instance of CacheInvalidate for TLC: three descriptors, as the wallet   *)
(* queries pass them: an onUpdate descriptor with a walletId skip filter,  *)
(* an endpoint descriptor with the same filter, and an unfiltered          *)
(* endpoint descriptor.  Two payloads: one for this query's wallet ("own") *)
(* and one for another wallet ("other").                                   *)
(***************************************************************************)
EXTENDS CacheInvalidate

MCInvalidates == {"balance", "transactions", "syncStatus"}
MCOnUpdate    == {"balance"}
MCWithSkip    == {"balance", "transactions"}
MCPayloads    == {"own", "other"}
MCSkipTrue    == {"own"}

\* rtkQuery calls resolve, with or without an unsubscribe function.
MCOutcomesResolve == {"data", "noData"}
\* ... or also reject.
MCOutcomesAll     == {"data", "noData", "reject"}

=============================================================================
