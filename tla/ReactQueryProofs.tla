-------------------------- MODULE ReactQueryProofs --------------------------
(***************************************************************************)
(* Theorems about ReactQuery, for any components, resources and parameter  *)
(* bags and any number of requests, with their proofs.                     *)
(***************************************************************************)
EXTENDS ReactQuery, TLAPS

Entry(k, p) == [key |-> k, promise |-> p]

(* The requests started are those that are not "unsent".                   *)
Started ==
    /\ \A p \in Promises : p <= count <=> requests[p].state # "unsent"
    /\ \A k \in Keys : since[k] <= count

(* The cache holds the requests started since the last invalidation that    *)
(* covers their key: all of them, no other, and one for each key.           *)
Cached ==
    /\ \A k \in Keys : \A p \in Promises :
          Entry(k, p) \in entries <=> p <= count /\ requests[p].key = k /\ p > since[k]
    /\ \A k \in Keys : \A p, q \in Promises :
          Entry(k, p) \in entries /\ Entry(k, q) \in entries => p = q

(* A reader whose render is up to date shows the promise cached for its key. *)
Shown == \A r \in Readers : UpToDate(r) => Entry(KeyOf(r), shown[r]) \in entries

IInv == TypeOK /\ Started /\ Cached /\ Shown

-----------------------------------------------------------------------------
(* Facts about the operators.                                              *)

LEMMA KeyFacts ==
    /\ Keys # {}
    /\ \A q \in Queries : CacheKey(q[1], q[2]) \in Keys
    /\ \A resource \in Resources, bag \in Bags : CacheKey(resource, bag) \in Keys
  <1>1. \A resource \in Resources, bag \in Bags :
           /\ <<resource, bag>> \in Queries
           /\ <<resource, bag>>[1] = resource /\ <<resource, bag>>[2] = bag
    BY DEF Queries
  <1>2. \A q \in Queries : CacheKey(q[1], q[2]) \in Keys
    BY DEF Keys
  <1>3. \A resource \in Resources, bag \in Bags : CacheKey(resource, bag) \in Keys
    BY <1>1, <1>2
  <1> QED
    BY <1>2, <1>3, ReactQueryAssumption

(* What the cache finds under a key.                                       *)
LEMMA HitFacts ==
    ASSUME entries \subseteq [key : Keys, promise : Promises], NEW k \in Keys, NEW p
    PROVE  p \in Hit(k) <=> p \in Promises /\ Entry(k, p) \in entries
  <1>1. ASSUME p \in Hit(k) PROVE p \in Promises /\ Entry(k, p) \in entries
    <2>1. PICK x \in entries : x.key = k /\ x.promise = p
      BY <1>1 DEF Hit
    <2>2. x \in [key : Keys, promise : Promises]
      BY <2>1
    <2>3. x = Entry(k, p) /\ p \in Promises
      BY <2>1, <2>2 DEF Entry
    <2> QED
      BY <2>1, <2>3
  <1>2. ASSUME p \in Promises, Entry(k, p) \in entries PROVE p \in Hit(k)
    BY <1>2 DEF Hit, Entry
  <1> QED
    BY <1>1, <1>2

LEMMA EntryFacts ==
    ASSUME NEW k, NEW p, NEW l, NEW q
    PROVE  /\ Entry(k, p).key = k /\ Entry(k, p).promise = p
           /\ Entry(k, p) = Entry(l, q) <=> k = l /\ p = q
  BY DEF Entry

-----------------------------------------------------------------------------
(* The inductive invariant.                                                *)

LEMMA InitIInv == Init => IInv
  <1> SUFFICES ASSUME Init PROVE IInv
    OBVIOUS
  <1> USE ReactQueryAssumption DEF Init
  <1>1. (CHOOSE k \in Keys : TRUE) \in Keys
    BY KeyFacts
  <1>2. TypeOK
    BY <1>1 DEF TypeOK
  <1>3. Started
    BY DEF Started, Promises
  <1>4. Cached
    BY DEF Cached, Promises
  <1>5. Shown
    BY DEF Shown, UpToDate
  <1> QED
    BY <1>2, <1>3, <1>4, <1>5 DEF IInv

LEMMA RenderStep == ASSUME IInv, NEW r \in Readers, Render(r) PROVE IInv'
  <1> USE ReactQueryAssumption
  <1>1. TypeOK /\ Started /\ Cached /\ Shown
    BY DEF IInv
  <1> DEFINE k == KeyOf(r)
  <1>2. PICK p \in Promises :
           /\ Get(k, p)
           /\ shown' = [shown EXCEPT ![r] = p]
           /\ phase' = [phase EXCEPT ![r] =
                           CASE requests'[p].state = "resolved" -> "committed"
                             [] requests'[p].state = "rejected" -> "crashed"
                             [] requests'[p].state = "pending" -> "suspended"]
           /\ reads' = reads /\ since' = since
    BY DEF Render
  <1>3. k \in Keys
    BY <1>1, KeyFacts DEF TypeOK, KeyOf
  <1>4. KeyOf(r)' = k /\ \A s \in Readers : KeyOf(s)' = KeyOf(s)
    BY <1>2 DEF KeyOf
  <1>5. /\ entries' \subseteq [key : Keys, promise : Promises] /\ count' \in 0 .. MaxRequests
        /\ requests' \in [Promises -> [key : Keys, state : {"unsent", "pending", "resolved", "rejected"}]]
        /\ Started' /\ Cached' /\ entries \subseteq entries' /\ Entry(k, p) \in entries'
        /\ requests'[p].state # "unsent"
    <2> HIDE DEF k
    <2>1. CASE p \in Hit(k) /\ UNCHANGED <<entries, requests, count>>
      <3>1. Entry(k, p) \in entries /\ p <= count
        BY <1>1, <1>3, <2>1, HitFacts DEF TypeOK, Cached
      <3> QED
        BY <1>1, <1>2, <2>1, <3>1 DEF TypeOK, Started, Cached
    <2>2. CASE /\ Hit(k) = {} /\ count < MaxRequests /\ p = count + 1 /\ count' = count + 1
               /\ entries' = entries \cup {[key |-> k, promise |-> p]}
               /\ requests' = [requests EXCEPT ![p] = [key |-> k, state |-> "pending"]]
      <3>1. /\ count \in Nat /\ count' \in 0 .. MaxRequests /\ p \in Nat
            /\ \A q \in Promises : q \in Nat
        BY <1>1, <2>2 DEF TypeOK, Promises
      <3>2. entries' \subseteq [key : Keys, promise : Promises]
        BY <1>1, <1>3, <2>2 DEF TypeOK
      <3>3. requests' \in [Promises -> [key : Keys, state : {"unsent", "pending", "resolved", "rejected"}]]
        BY <1>1, <1>3, <2>2 DEF TypeOK
      <3>4. /\ requests'[p].key = k /\ requests'[p].state = "pending"
            /\ \A q \in Promises : q # p => requests'[q] = requests[q]
        BY <1>1, <2>2 DEF TypeOK
      <3>5. \A l \in Keys : since[l] \in Nat /\ since[l] <= count
        BY <1>1 DEF TypeOK, Started
      <3>6. Started'
        BY <1>1, <1>2, <2>2, <3>1, <3>4, <3>5 DEF Started
      <3>7. \A l \in Keys : \A q \in Promises :
               Entry(l, q) \in entries' <=> Entry(l, q) \in entries \/ (l = k /\ q = p)
        BY <2>2, EntryFacts DEF Entry
      <3>8. \A q \in Promises : Entry(k, q) \notin entries
        BY <1>1, <1>3, <2>2, HitFacts DEF TypeOK
      <3>9. Cached'
        <4>1. ASSUME NEW l \in Keys, NEW q \in Promises
              PROVE  Entry(l, q) \in entries' <=> q <= count' /\ requests'[q].key = l /\ q > since'[l]
          <5>1. CASE q = p
            BY <1>1, <1>2, <2>2, <3>1, <3>4, <3>5, <3>7, <5>1 DEF Cached
          <5>2. CASE q # p
            BY <1>1, <1>2, <2>2, <3>1, <3>4, <3>5, <3>7, <5>2 DEF Cached
          <5> QED
            BY <5>1, <5>2
        <4>2. \A l \in Keys : \A q, s \in Promises :
                 Entry(l, q) \in entries' /\ Entry(l, s) \in entries' => q = s
          BY <1>1, <3>7, <3>8 DEF Cached
        <4> QED
          BY <4>1, <4>2 DEF Cached
      <3>10. Entry(k, p) \in entries'
        BY <1>3, <3>7
      <3> QED
        BY <2>2, <3>1, <3>2, <3>3, <3>4, <3>6, <3>9, <3>10
    <2> QED
      BY <1>2, <2>1, <2>2 DEF Get
  <1>6. requests'[p].state \in {"resolved", "rejected", "pending"}
    BY <1>5
  <1>7. phase'[r] \in {"suspended", "committed", "crashed"}
    BY <1>1, <1>2, <1>6 DEF TypeOK
  <1>8. \A s \in Readers : s # r => phase'[s] = phase[s] /\ shown'[s] = shown[s]
    BY <1>1, <1>2 DEF TypeOK
  <1>9. shown'[r] = p
    BY <1>1, <1>2 DEF TypeOK
  <1>10. TypeOK'
    <2>1. phase' \in [Readers -> {"dirty", "suspended", "committed", "crashed"}]
      BY <1>1, <1>2, <1>7 DEF TypeOK
    <2>2. shown' \in [Readers -> 0 .. MaxRequests]
      BY <1>1, <1>2 DEF TypeOK, Promises
    <2> QED
      BY <1>1, <1>2, <1>5, <2>1, <2>2 DEF TypeOK
  <1>11. Shown'
    BY <1>1, <1>4, <1>5, <1>8, <1>9 DEF Shown, UpToDate
  <1> QED
    BY <1>5, <1>10, <1>11 DEF IInv

(* Who only marks readers, or unmarks none that is not up to date, keeps     *)
(* what the cache promises.                                                 *)
LEMMA RetryStep == ASSUME IInv, NEW r \in Readers, Retry(r) PROVE IInv'
  <1> USE DEF Retry
  <1>1. TypeOK' /\ Started' /\ Cached'
    BY DEF IInv, TypeOK, Started, Cached
  <1>2. Shown'
    BY DEF IInv, TypeOK, Shown, UpToDate, KeyOf
  <1> QED
    BY <1>1, <1>2 DEF IInv

LEMMA RerenderStep ==
    ASSUME IInv, NEW r \in Readers, NEW query \in Queries, Rerender(r, query) PROVE IInv'
  <1> USE DEF Rerender
  <1>1. TypeOK' /\ Started' /\ Cached'
    BY DEF IInv, TypeOK, Started, Cached
  <1>2. Shown'
    BY DEF IInv, TypeOK, Shown, UpToDate, KeyOf
  <1> QED
    BY <1>1, <1>2 DEF IInv

LEMMA SettleStep ==
    ASSUME IInv, NEW p \in Promises, NEW state \in {"resolved", "rejected"}, RequestSettles(p, state)
    PROVE  IInv'
  <1> USE DEF RequestSettles
  <1>1. \A q \in Promises : /\ requests'[q].key = requests[q].key
                            /\ requests'[q].state = "unsent" <=> requests[q].state = "unsent"
    BY DEF IInv, TypeOK
  <1>2. TypeOK'
    BY DEF IInv, TypeOK
  <1>3. Started' /\ Cached'
    BY <1>1 DEF IInv, Started, Cached
  <1>4. Shown'
    BY DEF IInv, Shown, UpToDate, KeyOf
  <1> QED
    BY <1>2, <1>3, <1>4 DEF IInv

(* Each arity of invalidate drops the entries of the keys it covers.        *)
LEMMA DropStep ==
    ASSUME IInv, NEW dropped, NEW covered \in SUBSET Keys, Drop(dropped, covered),
           dropped = {x \in entries : x.key \in covered}
    PROVE  IInv'
  <1> USE DEF Drop
  <1>1. TypeOK'
    BY DEF IInv, TypeOK
  <1>2. /\ count \in 0 .. MaxRequests /\ count' = count /\ requests' = requests
        /\ \A k \in Keys : /\ since[k] \in Nat /\ since[k] <= count
                           /\ since'[k] = IF k \in covered THEN count ELSE since[k]
    BY DEF IInv, TypeOK, Started
  <1>3. Started'
    BY <1>2 DEF IInv, Started
  <1>4. \A k \in Keys : \A p \in Promises :
           Entry(k, p) \in entries' <=> Entry(k, p) \in entries /\ k \notin covered
    BY DEF Entry
  <1>5. Cached'
    <2>1. ASSUME NEW k \in Keys, NEW p \in Promises
          PROVE  Entry(k, p) \in entries' <=> p <= count' /\ requests'[p].key = k /\ p > since'[k]
      BY <1>2, <1>4 DEF IInv, Cached, Promises
    <2>2. \A k \in Keys : \A p, q \in Promises :
             Entry(k, p) \in entries' /\ Entry(k, q) \in entries' => p = q
      BY <1>4 DEF IInv, Cached
    <2> QED
      BY <2>1, <2>2 DEF Cached
  <1>6. Shown'
    BY DEF IInv, TypeOK, Shown, UpToDate
  <1> QED
    BY <1>1, <1>3, <1>5, <1>6 DEF IInv

LEMMA InvalidateStep == ASSUME IInv, Invalidate PROVE IInv'
  <1>1. \A x \in entries : x.key \in Keys
    BY DEF IInv, TypeOK
  <1>2. CASE Drop(entries, Keys)
    <2>1. entries = {x \in entries : x.key \in Keys}
      BY <1>1
    <2> QED
      BY <1>2, <2>1, DropStep
  <1>3. ASSUME NEW resource \in Resources,
               Drop(OfResource(resource), {k \in Keys : k[1] = resource})
        PROVE  IInv'
    <2>1. OfResource(resource) = {x \in entries : x.key \in {k \in Keys : k[1] = resource}}
      BY <1>1 DEF OfResource
    <2> QED
      BY <1>3, <2>1, DropStep
  <1>4. ASSUME NEW query \in Queries,
               Drop(OfQuery(query[1], query[2]), {CacheKey(query[1], query[2])})
        PROVE  IInv'
    <2>1. OfQuery(query[1], query[2])
             = {x \in entries : x.key \in {CacheKey(query[1], query[2])}}
      BY DEF OfQuery
    <2>2. {CacheKey(query[1], query[2])} \in SUBSET Keys
      BY KeyFacts
    <2> QED
      BY <1>4, <2>1, <2>2, DropStep
  <1> QED
    BY <1>2, <1>3, <1>4 DEF Invalidate

LEMMA StepIInv == IInv /\ [Next]_vars => IInv'
  <1> SUFFICES ASSUME IInv, [Next]_vars PROVE IInv'
    OBVIOUS
  <1>1. CASE \E r \in Readers : Render(r) \/ Retry(r)
    BY <1>1, RenderStep, RetryStep
  <1>2. CASE \E r \in Readers : \E query \in Queries : Rerender(r, query)
    BY <1>2, RerenderStep
  <1>3. CASE \E p \in Promises : \E state \in {"resolved", "rejected"} : RequestSettles(p, state)
    BY <1>3, SettleStep
  <1>4. CASE Invalidate
    BY <1>4, InvalidateStep
  <1>5. CASE UNCHANGED vars
    BY <1>5 DEF vars, IInv, TypeOK, Started, Cached, Shown, UpToDate, KeyOf
  <1> QED
    BY <1>1, <1>2, <1>3, <1>4, <1>5 DEF Next

LEMMA Invariance == Spec => []IInv
  BY InitIInv, StepIInv, PTL DEF Spec

-----------------------------------------------------------------------------
(* The theorems.                                                           *)

(* The state has its type: the cache never holds more than was requested,   *)
(* and a reader shows only promises that exist.                             *)
THEOREM BindingTypeCorrect == Spec => []TypeOK
  <1>1. IInv => TypeOK
    BY DEF IInv
  <1> QED
    BY <1>1, Invariance, PTL

(* No render, retry, rejection or invalidation of another query sends a     *)
(* query a second time (cache.ts:128-142, provider.tsx:97).                 *)
THEOREM RequestedOnce == Spec => []OneRequestPerInvalidation
  <1>1. ASSUME IInv PROVE OneRequestPerInvalidation
    <2> SUFFICES ASSUME NEW k \in Keys, NEW p \in since[k] + 1 .. count,
                        NEW q \in since[k] + 1 .. count,
                        requests[p].key = k, requests[q].key = k
                 PROVE  p = q
      BY DEF OneRequestPerInvalidation
    <2>1. /\ p \in Promises /\ p <= count /\ p > since[k]
          /\ q \in Promises /\ q <= count /\ q > since[k]
      BY <1>1, ReactQueryAssumption DEF IInv, TypeOK, Promises
    <2> QED
      BY <1>1, <2>1 DEF IInv, Cached
  <1> QED
    BY <1>1, Invariance, PTL

(* An up-to-date reader shows the promise every other reader of the query   *)
(* shows, requested after the last invalidation (use-qspec-query.ts:55-64). *)
THEOREM ReadersAreCurrent == Spec => []NeverStale
  <1>1. ASSUME IInv PROVE NeverStale
    <2> SUFFICES ASSUME NEW r \in Readers, UpToDate(r)
                 PROVE  Hit(KeyOf(r)) = {shown[r]} /\ shown[r] > since[KeyOf(r)]
      BY DEF NeverStale
    <2> DEFINE k == KeyOf(r)
    <2>1. k \in Keys /\ Entry(k, shown[r]) \in entries /\ entries \subseteq [key : Keys, promise : Promises]
      BY <1>1, KeyFacts DEF IInv, TypeOK, Shown, KeyOf
    <2> HIDE DEF k
    <2>2. shown[r] \in Promises
      BY <2>1 DEF Entry
    <2>3. shown[r] > since[k]
      BY <1>1, <2>1, <2>2 DEF IInv, Cached
    <2>4. \A p : p \in Hit(k) <=> p = shown[r]
      BY <1>1, <2>1, <2>2, HitFacts DEF IInv, Cached
    <2> QED
      BY <2>3, <2>4 DEF k
  <1> QED
    BY <1>1, Invariance, PTL
=============================================================================
