------------------------ MODULE SubscriptionLifecycle ------------------------
(***************************************************************************)
(* What the push-driven cache synchronisation layer promises for ONE      *)
(* cache entry, independent of how the handler is written: remote         *)
(* subscriptions are opened only once the entry's data has loaded, they    *)
(* are closed only once the entry has been removed, a closed subscription  *)
(* is never reopened, and after removal every open subscription is         *)
(* eventually closed.                                                      *)
(***************************************************************************)

CONSTANTS
    Invalidates    \* the descriptors passed for this cache entry

VARIABLES
    entry,         \* "loading", "loaded" or "removed"
    subs           \* subs[d]: "none", "open" or "closed"

vars == <<entry, subs>>

EntryStates == {"loading", "loaded", "removed"}
SubStates   == {"none", "open", "closed"}

TypeOK ==
    /\ entry \in EntryStates
    /\ subs \in [Invalidates -> SubStates]

Init ==
    /\ entry = "loading"
    /\ subs = [d \in Invalidates |-> "none"]

Load ==
    /\ entry = "loading"
    /\ entry' = "loaded"
    /\ UNCHANGED subs

OpenSet == {d \in Invalidates : subs[d] = "open"}

\* subs with the subscriptions in S closed.
Closing(S) == [d \in Invalidates |-> IF d \in S THEN "closed" ELSE subs[d]]

\* The entry is removed; some of the open subscriptions may be closed in
\* the same step.
Remove(S) ==
    /\ entry \in {"loading", "loaded"}
    /\ entry' = "removed"
    /\ S \subseteq OpenSet
    /\ subs' = Closing(S)

\* A subscription may be established late, after removal, but never before
\* the entry's data loaded.
Open(d) ==
    /\ entry # "loading"
    /\ subs[d] = "none"
    /\ subs' = [subs EXCEPT ![d] = "open"]
    /\ UNCHANGED entry

\* Any non-empty batch of open subscriptions may be closed together, but
\* only after the entry is gone.
Close(S) ==
    /\ entry = "removed"
    /\ S # {}
    /\ S \subseteq OpenSet
    /\ subs' = Closing(S)
    /\ UNCHANGED entry

\* After removal, a subscription may be established and closed in one step,
\* together with a batch of the open ones.
OpenClosed(d, S) ==
    /\ entry = "removed"
    /\ subs[d] = "none"
    /\ S \subseteq OpenSet
    /\ subs' = Closing(S \cup {d})
    /\ UNCHANGED entry

Next ==
    \/ Load
    \/ \E S \in SUBSET Invalidates : Remove(S)
    \/ \E d \in Invalidates : Open(d)
    \/ \E S \in SUBSET Invalidates : Close(S)
    \/ \E d \in Invalidates, S \in SUBSET Invalidates : OpenClosed(d, S)

Spec == Init /\ [][Next]_vars

\* Once the entry is removed, a point is eventually reached from which no
\* subscription is open any more, late-established ones included.
RemovalEventuallyClosesAll ==
    (entry = "removed") ~> [](\A d \in Invalidates : subs[d] # "open")

=============================================================================
