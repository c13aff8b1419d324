--------------------------- MODULE CacheInvalidate ---------------------------
(***************************************************************************)
(* onCacheEntryAddedInvalidate(rtkQuery, invalidates)                      *)
(* (wallets/src/hooks/useIsWalletSynced.ts): the onCacheEntryAdded handler *)
(* of one cached query.  It waits for cacheDataLoaded, opens one remote    *)
(* subscription per descriptor with Promise.all over rtkQuery calls, lets  *)
(* each push either update the cached data or force a refetch of another   *)
(* endpoint, and in its finally block waits for cacheEntryRemoved and      *)
(* calls every unsubscribe it collected.                                   *)
(*                                                                         *)
(* Scheduling: the browser event loop.  Macrotasks (the entry loading or   *)
(* being removed, an RPC reply, a push over the websocket) interleave      *)
(* freely.  The chain of await continuations a macrotask releases runs as  *)
(* microtasks before the next macrotask, so each action below is one       *)
(* macrotask together with the continuations it resumes.                   *)
(***************************************************************************)
EXTENDS Naturals, FiniteSets

CONSTANTS
    Invalidates,   \* descriptor ids of the invalidates array
    OnUpdate,      \* those declaring onUpdate; the others declare endpoint
    WithSkip,      \* those declaring a skip predicate
    Payloads,      \* push payloads the daemon can send
    SkipTrue,      \* payloads for which skip(data, args) returns true
    Outcomes,      \* how an rtkQuery call can settle: "data", "noData", "reject"
    MaxPushes,     \* bound on the number of pushes delivered
    Undefined      \* JS undefined: no cached data yet, or a missing response.data

ASSUME OnUpdate \subseteq Invalidates /\ WithSkip \subseteq Invalidates
ASSUME SkipTrue \subseteq Payloads
ASSUME Outcomes \subseteq {"data", "noData", "reject"}
ASSUME MaxPushes \in Nat

VARIABLES
    entry,         \* RTK cache entry: "loading", "loaded", "removed"
    pc,            \* where the handler is suspended
    call,          \* call[d]: state of the rtkQuery subscribe call of d
    unsubscribes,  \* the unsubscribes array, as the set of what was pushed
    cached,        \* the cached data updateCachedData writes
    refetches,     \* forced refetches dispatched by endpoint descriptors
    pushes         \* pushes delivered so far (bounded by MaxPushes)

vars == <<entry, pc, call, unsubscribes, cached, refetches, pushes>>

(* pc: "awaitLoaded" (await cacheDataLoaded), "subscribing" (await          *)
(* Promise.all), "awaitRemoved" (await cacheEntryRemoved in finally),     *)
(* "done" (the forEach over unsubscribes has run).                         *)
PcStates   == {"awaitLoaded", "subscribing", "awaitRemoved", "done"}
(* call[d]: "idle" (not issued), "pending", "open" (resolved with an       *)
(* unsubscribe function, remote subscription live), "noData" (resolved    *)
(* without data), "rejected", "closed" (its unsubscribe was called).      *)
CallStates == {"idle", "pending", "open", "noData", "rejected", "closed"}

\* The unsubscribe function response.data of descriptor d is identified by d.
Handles == Invalidates

TypeOK ==
    /\ entry \in {"loading", "loaded", "removed"}
    /\ pc \in PcStates
    /\ call \in [Invalidates -> CallStates]
    /\ unsubscribes \in SUBSET Handles
    /\ cached \in Payloads \cup {Undefined}
    /\ refetches \in 0..MaxPushes
    /\ pushes \in 0..MaxPushes

Init ==
    /\ entry = "loading"
    /\ pc = "awaitLoaded"
    /\ call = [d \in Invalidates |-> "idle"]
    /\ unsubscribes = {}
    /\ cached = Undefined
    /\ refetches = 0
    /\ pushes = 0

-----------------------------------------------------------------------------
(* Helpers                                                                 *)

Settled(c) == c \in {"open", "noData", "rejected", "closed"}

\* The call state an rtkQuery call settling with outcome o leaves.
SettledAs(o) ==
    CASE o = "data"   -> "open"
      [] o = "noData" -> "noData"
      [] o = "reject" -> "rejected"

\* Variant: settles as soon as one call has resolved with data.
PromiseAllSettledAfterAny(c) ==
    \E d \in Invalidates : c[d] \in {"open", "rejected"}

\* Promise.all over the mapped calls settles once every call has settled, or
\* as soon as one of them rejects.
PromiseAllSettled(c) ==
    \/ \A d \in Invalidates : Settled(c[d])
    \/ \E d \in Invalidates : c[d] = "rejected"

\* finally { ...; unsubscribes.forEach((unsubscribe) => unsubscribe()) }:
\* every collected handle is called; the remote subscription closes.
CallUnsubscribes(c) ==
    [d \in Invalidates |-> IF d \in unsubscribes THEN "closed" ELSE c[d]]

\* Variant: finally does not await cacheEntryRemoved before unsubscribing.
ResumeFinallyEager(c, u) ==
    /\ pc' = "done"
    /\ call' = [d \in Invalidates |-> IF d \in u THEN "closed" ELSE c[d]]

\* Resumes the handler once Promise.all has settled, with the call states c
\* and the unsubscribes u it leaves.  With the entry already removed,
\* "await cacheEntryRemoved" resumes in the same microtask chain.
ResumeFinally(c, u) ==
    IF entry = "removed"
    THEN /\ pc' = "done"
         /\ call' = [d \in Invalidates |-> IF d \in u THEN "closed" ELSE c[d]]
    ELSE /\ pc' = "awaitRemoved"
         /\ call' = c

-----------------------------------------------------------------------------
(* Actions                                                                 *)

\* cacheDataLoaded resolves: invalidates.map(async ...) runs each callback
\* up to its first await, so every rtkQuery subscribe call is issued.
CacheDataLoaded ==
    /\ entry = "loading"
    /\ entry' = "loaded"
    /\ pc = "awaitLoaded"
    /\ pc' = "subscribing"
    /\ call' = [d \in Invalidates |-> "pending"]
    /\ UNCHANGED <<unsubscribes, cached, refetches, pushes>>

\* Variant: the removal never resumes a handler waiting in finally.
CacheEntryRemovedNoResume ==
    /\ entry \in {"loading", "loaded"}
    /\ entry' = "removed"
    /\ \/ /\ pc = "awaitLoaded"
          /\ pc' = "done"
          /\ UNCHANGED call
       \/ /\ pc \in {"awaitRemoved", "subscribing"}
          /\ UNCHANGED <<pc, call>>
    /\ UNCHANGED <<unsubscribes, cached, refetches, pushes>>

\* The entry is removed.  Whichever await the handler sits on decides what
\* runs: cacheDataLoaded rejects (finally: nothing collected yet), or the
\* awaited cacheEntryRemoved resolves and the forEach runs; while
\* Promise.all is pending nothing resumes.
CacheEntryRemoved ==
    /\ entry \in {"loading", "loaded"}
    /\ entry' = "removed"
    /\ \/ /\ pc = "awaitLoaded"
          /\ pc' = "done"
          /\ UNCHANGED call
       \/ /\ pc = "awaitRemoved"
          /\ pc' = "done"
          /\ call' = CallUnsubscribes(call)
       \/ /\ pc = "subscribing"
          /\ UNCHANGED <<pc, call>>
    /\ UNCHANGED <<unsubscribes, cached, refetches, pushes>>


\* Variant: response pushed without the if (response.data) guard.
RtkQueryResponseUnguarded(d, o) ==
    LET c == [call EXCEPT ![d] = SettledAs(o)]
        u == IF o = "reject" THEN unsubscribes
             ELSE unsubscribes \cup {IF o = "data" THEN d ELSE Undefined}
    IN
    /\ call[d] = "pending"
    /\ unsubscribes' = u
    /\ IF pc = "subscribing" /\ PromiseAllSettled(c)
       THEN ResumeFinally(c, u)
       ELSE /\ call' = c
            /\ UNCHANGED pc
    /\ UNCHANGED <<entry, cached, refetches, pushes>>

\* The rtkQuery call of d settles with outcome o.  "data": response.data is
\* the unsubscribe function and is pushed; "noData": the if skips it;
\* "reject": the async callback throws.  If this settles Promise.all while
\* the handler awaits it, the handler moves into finally.
RtkQueryResponse(d, o) ==
    LET c == [call EXCEPT ![d] = SettledAs(o)]
        u == IF o = "data" THEN unsubscribes \cup {d} ELSE unsubscribes
    IN
    /\ call[d] = "pending"
    /\ unsubscribes' = u
    /\ IF pc = "subscribing" /\ PromiseAllSettled(c)
       THEN ResumeFinally(c, u)
       ELSE /\ call' = c
            /\ UNCHANGED pc
    /\ UNCHANGED <<entry, cached, refetches, pushes>>


\* The daemon pushes data over the live subscription of d and the callback
\* passed in args runs: skip && !skip(data, args) returns early; onUpdate
\* goes through updateCachedData (a no-op once the entry is gone); endpoint
\* dispatches initiate(args, {subscribe: false, forceRefetch: true}).
PushData(d, data) ==
    /\ call[d] = "open"
    /\ pushes < MaxPushes
    /\ pushes' = pushes + 1
    /\ IF d \in WithSkip /\ data \notin SkipTrue
       THEN UNCHANGED <<cached, refetches>>
       ELSE /\ cached' = IF d \in OnUpdate /\ entry = "loaded" THEN data ELSE cached
            /\ refetches' = IF d \in OnUpdate THEN refetches ELSE refetches + 1
    /\ UNCHANGED <<entry, pc, call, unsubscribes>>

Next ==
    \/ CacheDataLoaded
    \/ CacheEntryRemoved
    \/ \E d \in Invalidates, o \in Outcomes : RtkQueryResponse(d, o)
    \/ \E d \in Invalidates, p \in Payloads : PushData(d, p)

\* The daemon answers every subscribe request it received: assumed of the
\* RPC client, which this handler neither times out nor retries.
Fairness ==
    \A d \in Invalidates : WF_vars(\E o \in Outcomes : RtkQueryResponse(d, o))

Spec == Init /\ [][Next]_vars /\ Fairness

-----------------------------------------------------------------------------
(* Properties                                                              *)

\* Once the handler has run its finally block to the end nothing will ever
\* call an unsubscribe again, so no remote subscription (an rtkQuery call
\* that resolved with an unsubscribe function) may still be live: the
\* handler must not return while a subscription it opened leaks.
NoOrphanSubscription ==
    pc = "done" => \A d \in Invalidates : call[d] # "open"

\* The handler implements the lifecycle promised by SubscriptionLifecycle:
\* a subscription is open exactly while its call resolved with data and its
\* unsubscribe has not been called.
Lifecycle == INSTANCE SubscriptionLifecycle
    WITH subs <- [d \in Invalidates |->
                    CASE call[d] = "open"   -> "open"
                      [] call[d] = "closed" -> "closed"
                      [] OTHER              -> "none"]

ImplementsLifecycle == Lifecycle!Spec

\* After cacheEntryRemoved every subscription is eventually closed, those
\* whose rtkQuery call resolves late included (spec section 5).
RemovalEventuallyClosesAll == Lifecycle!RemovalEventuallyClosesAll

=============================================================================
