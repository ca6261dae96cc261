----------------------------- MODULE ReactQuery -----------------------------
(***************************************************************************)
(* The React binding: the promise cache (packages/react/src/internal/      *)
(* cache.ts), the provider that owns it (provider.tsx) and the components  *)
(* that read it through useQSpecQuery (use-qspec-query.ts, resource.tsx).  *)
(* React is external: it renders a component that was marked and retries a *)
(* suspended one when its promise settles.  The provider is above the      *)
(* Suspense boundary of its readers (docs/architecture.md:522), so it and  *)
(* its cache live on while they suspend.                                   *)
(***************************************************************************)
EXTENDS Naturals, FiniteSets

CONSTANTS
    Readers,          \* components calling useQSpecQuery
    Resources,        \* resource names
    Bags,             \* parameter bags: a set of <<name, value>> pairs each
    Undefined,        \* the value `undefined` of a pair
    MaxRequests       \* bound: requests started

ASSUME ReactQueryAssumption ==
    /\ IsFiniteSet(Readers) /\ Resources # {} /\ Bags # {}
    /\ MaxRequests \in Nat /\ Cardinality(Readers) <= MaxRequests

VARIABLES
    reads,      \* per reader: the resource and parameters it passes
    entries,    \* the cache's Map: a set of [key, promise]
    requests,   \* per promise started: its key and how it settled
    count,      \* how many requests have been started
    phase,      \* per reader: "dirty", "suspended", "committed" or "crashed"
    shown,      \* per reader: the promise it last got, 0 before the first
    since       \* history: per key, `count` at the last invalidation covering it

vars == <<reads, entries, requests, count, phase, shown, since>>

(* serializeObject skips a pair whose value is undefined and sorts the rest. *)
CacheKey(resource, bag) == <<resource, {pair \in bag : pair[2] # Undefined}>>

Queries == Resources \X Bags
Keys == {CacheKey(q[1], q[2]) : q \in Queries}
KeyOf(r) == CacheKey(reads[r][1], reads[r][2])
Promises == 1 .. MaxRequests

TypeOK ==
    /\ reads \in [Readers -> Queries]
    /\ entries \subseteq [key : Keys, promise : Promises]
    /\ requests \in [Promises -> [key : Keys, state : {"unsent", "pending", "resolved", "rejected"}]]
    /\ count \in 0 .. MaxRequests
    /\ phase \in [Readers -> {"dirty", "suspended", "committed", "crashed"}]
    /\ shown \in [Readers -> 0 .. MaxRequests]
    /\ since \in [Keys -> 0 .. MaxRequests]

Init ==
    /\ reads \in [Readers -> Queries]
    /\ entries = {} /\ count = 0
    /\ requests = [p \in Promises |-> [key |-> CHOOSE k \in Keys : TRUE, state |-> "unsent"]]
    /\ phase = [r \in Readers |-> "dirty"]
    /\ shown = [r \in Readers |-> 0]
    /\ since = [k \in Keys |-> 0]

-----------------------------------------------------------------------------
(* Rendering.                                                              *)

(* cache.get: the entry's promise, or the request it starts and stores. *)
Hit(key) == {entry.promise : entry \in {x \in entries : x.key = key}}

(* Mutant: the promise is not stored.                                      *)
Get_NotStored(key, promise) ==
    /\ count < MaxRequests
    /\ promise = count + 1 /\ count' = count + 1
    /\ requests' = [requests EXCEPT ![promise] = [key |-> key, state |-> "pending"]]
    /\ UNCHANGED entries

Get(key, promise) ==
    \/ /\ promise \in Hit(key)
       /\ UNCHANGED <<entries, requests, count>>
    \/ /\ Hit(key) = {} /\ count < MaxRequests
       /\ promise = count + 1
       /\ count' = count + 1
       /\ entries' = entries \cup {[key |-> key, promise |-> promise]}
       /\ requests' = [requests EXCEPT ![promise] = [key |-> key, state |-> "pending"]]

(* use(promise): commit, rethrow to the error boundary, or suspend. *)
Render(r) ==
    /\ phase[r] = "dirty"
    /\ \E promise \in Promises :
        /\ Get(KeyOf(r), promise)
        /\ shown' = [shown EXCEPT ![r] = promise]
        /\ phase' = [phase EXCEPT ![r] =
                        CASE requests'[promise].state = "resolved" -> "committed"
                          [] requests'[promise].state = "rejected" -> "crashed"
                          [] requests'[promise].state = "pending" -> "suspended"]
    /\ UNCHANGED <<reads, since>>

(* Mutant: the cache forgets a rejected promise.                           *)
RequestSettles_ForgetsRejected(p, state) ==
    /\ requests[p].state = "pending"
    /\ requests' = [requests EXCEPT ![p].state = state]
    /\ entries' = {x \in entries : state = "rejected" => x.promise # p}
    /\ UNCHANGED <<reads, count, phase, shown, since>>

RequestSettles(p, state) ==
    /\ requests[p].state = "pending"
    /\ requests' = [requests EXCEPT ![p].state = state]
    /\ UNCHANGED <<reads, entries, count, phase, shown, since>>

(* React retries a component when the promise it suspended on has settled. *)
Retry(r) ==
    /\ phase[r] = "suspended" /\ requests[shown[r]].state # "pending"
    /\ phase' = [phase EXCEPT ![r] = "dirty"]
    /\ UNCHANGED <<reads, entries, requests, count, shown, since>>

(* Each reader marked for rendering can start one more request. *)
MayMark == count + Cardinality(Readers) <= MaxRequests

(* The host renders a reader with other arguments, or resets its boundary. *)
Rerender(r, query) ==
    /\ MayMark
    /\ query # reads[r] \/ phase[r] = "crashed"
    /\ reads' = [reads EXCEPT ![r] = query]
    /\ phase' = [phase EXCEPT ![r] = "dirty"]
    /\ UNCHANGED <<entries, requests, count, shown, since>>

-----------------------------------------------------------------------------
(* Invalidation.                                                           *)

(* Mutant: the provider does not re-render after an invalidation.          *)
Drop_NoRender(dropped, covered) ==
    /\ MayMark
    /\ entries' = entries \ dropped
    /\ since' = [k \in Keys |-> IF k \in covered THEN count ELSE since[k]]
    /\ UNCHANGED <<reads, requests, count, phase, shown>>

(* The provider's invalidate: drop entries, then re-render every consumer.  *)
(* A crashed reader is no consumer until its error boundary is reset.       *)
Drop(dropped, covered) ==
    /\ MayMark
    /\ entries' = entries \ dropped
    /\ phase' = [r \in Readers |-> IF phase[r] = "crashed" THEN "crashed" ELSE "dirty"]
    /\ since' = [k \in Keys |-> IF k \in covered THEN count ELSE since[k]]
    /\ UNCHANGED <<reads, requests, count, shown>>

(* The entries each arity of invalidate drops. *)
OfResource(resource) == {x \in entries : x.key[1] = resource}
OfQuery(resource, bag) == {x \in entries : x.key = CacheKey(resource, bag)}

Invalidate ==
    \/ Drop(entries, Keys)
    \/ \E resource \in Resources : Drop(OfResource(resource), {k \in Keys : k[1] = resource})
    \/ \E query \in Queries :
        Drop(OfQuery(query[1], query[2]), {CacheKey(query[1], query[2])})

-----------------------------------------------------------------------------
Next ==
    \/ \E r \in Readers : Render(r) \/ Retry(r)
    \/ \E r \in Readers : \E query \in Queries : Rerender(r, query)
    \/ \E p \in Promises : \E state \in {"resolved", "rejected"} : RequestSettles(p, state)
    \/ Invalidate

(* React renders what is marked and retries what was suspended, and every   *)
(* request settles in the end.                                              *)
Fairness ==
    /\ \A r \in Readers : WF_vars(Render(r)) /\ WF_vars(Retry(r))
    /\ \A p \in Promises : WF_vars(\E s \in {"resolved", "rejected"} : RequestSettles(p, s))

Spec == Init /\ [][Next]_vars /\ Fairness

-----------------------------------------------------------------------------
(* Properties.                                                             *)

UpToDate(r) == phase[r] \in {"suspended", "committed"}

(* A query is requested once, and once more for each invalidation that      *)
(* covers it: no render, retry or rejection sends it again, and no          *)
(* invalidation of another query does (cache.ts:128-142, provider.tsx:97).  *)
OneRequestPerInvalidation ==
    \A k \in Keys : \A p, q \in since[k] + 1 .. count :
        requests[p].key = k /\ requests[q].key = k => p = q

(* A reader whose render is up to date shows the one promise cached for its *)
(* query, as every other reader of it does, and never one requested before  *)
(* the last invalidation that covers the query, also when that request was  *)
(* in flight then (cache.ts:109-120, 163-171, use-qspec-query.ts:55-64).    *)
NeverStale ==
    \A r \in Readers : UpToDate(r) =>
        /\ Hit(KeyOf(r)) = {shown[r]}
        /\ shown[r] > since[KeyOf(r)]

(* No reader suspends for ever: it shows a result or an error again and     *)
(* again, whatever was invalidated (cache.ts:111-114, provider.tsx:80-88).  *)
ReadersSettle ==
    \A r \in Readers : []<>(phase[r] \in {"committed", "crashed"})
=============================================================================
