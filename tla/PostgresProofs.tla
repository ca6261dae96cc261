--------------------------- MODULE PostgresProofs ---------------------------
(***************************************************************************)
(* What PostgresSource promises, proved for every number of executions and *)
(* every finite number of clients, and what SqlScan promises, for every    *)
(* set of statements of whatever length: the parts the scanner finds lose  *)
(* nothing, and PostgreSQL finds in what is rendered of them exactly the   *)
(* placeholders that were meant.                                           *)
(***************************************************************************)
EXTENDS PostgresSource, SqlScan, FiniteSetTheorems, SequenceTheorems, WellFoundedInduction, TLAPS

-----------------------------------------------------------------------------
(* PostgresSource.                                                         *)

Holding == {"running", "cancelling"}

(* A client is an execution's own from its reservation to its release. *)
Owns(e) == pc[e] \in Holding \/ (pc[e] = "acquiring" /\ client[e] # Nothing)

(* An execution has settled exactly when it has an outcome; what it leaves  *)
(* behind is over by then, and a listener is there while the statement runs.*)
Settled ==
    \A e \in Executions :
        /\ pc[e] = "done" <=> outcome[e] # "pending"
        /\ pc[e] \in {"idle", "acquiring", "done"} => CancelOver(e)
        /\ pc[e] \in {"idle", "acquiring"} => cancel[e] = "none" /\ reply[e] = "none"
        /\ listening[e] => pc[e] = "running"

(* The client an execution was granted is its own while it holds it, and    *)
(* nobody else's, and a statement runs on it only once it was granted.      *)
Granted ==
    /\ \A e \in Executions :
        /\ Owns(e) => client[e] \in Backends /\ holder[client[e]] = e
        /\ cancel[e] # "none" => client[e] \in Backends
        /\ pc[e] = "idle" => client[e] = Nothing
    /\ \A b \in Backends :
        /\ holder[b] # Nothing => Owns(holder[b]) /\ client[holder[b]] = b
        /\ running[b] # Nothing =>
            running[b] = holder[b] /\ pc[running[b]] = "running" /\ reply[running[b]] = "none"

(* A failed request the server may still read has been sent to a backend.   *)
Strays == \A e \in stray : client[e] \in Backends

(* A source that was disposed has no pool, and when the pool it had is      *)
(* closed, none of its clients is reserved or granted.                      *)
Closing ==
    /\ disposed => pool = "none"
    /\ ending # "no" => disposed
    /\ ending = "ended" => \A b \in Backends : holder[b] = Nothing

IInv == TypeOK /\ Settled /\ Granted /\ Strays /\ Closing

-----------------------------------------------------------------------------
LEMMA InitIInv == Init => IInv
  <1> SUFFICES ASSUME Init PROVE IInv
    OBVIOUS
  <1> USE PostgresSourceAssumption DEF Init
  <1>1. TypeOK
    BY DEF TypeOK
  <1>2. Settled
    BY DEF Settled, CancelOver
  <1>3. Granted
    BY DEF Granted, Owns, Holding
  <1>4. Strays /\ Closing
    BY DEF Strays, Closing
  <1> QED
    BY <1>1, <1>2, <1>3, <1>4 DEF IInv

LEMMA StepIInv == IInv /\ [Next]_vars => IInv'
  <1> SUFFICES ASSUME IInv, [Next]_vars PROVE IInv'
    OBVIOUS
  <1> USE PostgresSourceAssumption
      DEF IInv, Settled, Granted, Strays, Closing, CancelOver, Holding, Owns,
          poolVars, serverVars, executionVars
  <1>1. ASSUME NEW e \in Executions, Execute(e) PROVE IInv'
    <2> USE <1>1 DEF Execute, Settle
    <2>1. TypeOK'
      BY DEF TypeOK
    <2>2. Settled'
      BY DEF TypeOK
    <2>3. Granted'
      BY DEF TypeOK
    <2>4. Strays'
      BY DEF TypeOK
    <2>5. Closing'
      BY DEF TypeOK
    <2> QED
      BY <2>1, <2>2, <2>3, <2>4, <2>5
  <1>2. ASSUME NEW e \in Executions, AcquireFails(e) PROVE IInv'
    <2> USE <1>2 DEF AcquireFails, Settle
    <2>1. TypeOK'
      BY DEF TypeOK
    <2>2. Settled'
      BY DEF TypeOK
    <2>3. Granted'
      BY DEF TypeOK
    <2>4. Strays'
      BY DEF TypeOK
    <2>5. Closing'
      BY DEF TypeOK
    <2> QED
      BY <2>1, <2>2, <2>3, <2>4, <2>5
  <1>3. ASSUME NEW e \in Executions, NEW b \in Backends, Reserve(e, b) PROVE IInv'
    <2> USE <1>3 DEF Reserve
    <2>1. TypeOK'
      BY DEF TypeOK
    <2>2. Settled'
      BY DEF TypeOK
    <2>3. Granted'
      BY DEF TypeOK
    <2>4. Strays'
      BY DEF TypeOK
    <2>5. Closing'
      BY DEF TypeOK
    <2> QED
      BY <2>1, <2>2, <2>3, <2>4, <2>5
  <1>16. ASSUME NEW e \in Executions, NEW known \in BOOLEAN, Acquired(e, known) PROVE IInv'
    <2>1. CASE aborted[e]
      <3> USE <1>16, <2>1 DEF Acquired, Release, Settle
      <3>1. TypeOK'
        BY DEF TypeOK
      <3>2. Settled'
        BY DEF TypeOK
      <3>3. Granted'
        BY DEF TypeOK
      <3>4. Strays'
        BY DEF TypeOK
      <3>5. Closing'
        BY DEF TypeOK
      <3> QED
        BY <3>1, <3>2, <3>3, <3>4, <3>5
    <2>2. CASE ~aborted[e]
      <3> USE <1>16, <2>2 DEF Acquired
      <3>1. TypeOK'
        <4>1. pidKnown' \in [Executions -> BOOLEAN]
          <5>1. pidKnown' = [pidKnown EXCEPT ![e] = known]
            OBVIOUS
          <5> QED
            BY ONLY <5>1, <1>16, TypeOK DEF TypeOK
        <4>2. listening' \in [Executions -> BOOLEAN] /\ UNCHANGED <<aborted, disposed>>
          <5>1. listening' = [listening EXCEPT ![e] = TRUE] /\ UNCHANGED <<aborted, disposed>>
            BY DEF poolVars
          <5>2. listening \in [Executions -> BOOLEAN]
            BY DEF TypeOK
          <5> QED
            BY ONLY <5>1, <5>2
        <4>3. pc' \in [Executions -> {"idle", "acquiring", "running", "cancelling", "done"}]
          BY DEF TypeOK
        <4>4. running' \in [Backends -> Executions \cup {Nothing}]
          BY DEF TypeOK
        <4> QED
          BY <4>1, <4>2, <4>3, <4>4 DEF TypeOK
      <3>2. Settled'
        BY DEF TypeOK
      <3>3. Granted'
        BY DEF TypeOK
      <3>4. Strays'
        BY DEF TypeOK
      <3>5. Closing'
        BY DEF TypeOK
      <3> QED
        BY <3>1, <3>2, <3>3, <3>4, <3>5
    <2> QED
      BY <2>1, <2>2
  <1>4. ASSUME NEW e \in Executions, Abort(e) PROVE IInv'
    <2> USE <1>4 DEF Abort
    <2>1. TypeOK'
      BY DEF TypeOK
    <2>2. Settled'
      BY DEF TypeOK
    <2>3. Granted'
      BY DEF TypeOK
    <2>4. Strays'
      BY DEF TypeOK
    <2>5. Closing'
      BY DEF TypeOK
    <2> QED
      BY <2>1, <2>2, <2>3, <2>4, <2>5
  <1>5. ASSUME NEW e \in Executions, QuerySettles(e) PROVE IInv'
    <2> USE <1>5 DEF QuerySettles, Release, Settle, Result
    <2>1. TypeOK'
      BY DEF TypeOK
    <2>2. Settled'
      BY DEF TypeOK
    <2>3. Granted'
      BY DEF TypeOK
    <2>4. Strays'
      BY DEF TypeOK
    <2>5. Closing'
      BY DEF TypeOK
    <2> QED
      BY <2>1, <2>2, <2>3, <2>4, <2>5
  <1>6. ASSUME NEW e \in Executions, CancelAwaited(e) PROVE IInv'
    <2> USE <1>6 DEF CancelAwaited, Release, Settle, Result
    <2>1. TypeOK'
      BY DEF TypeOK
    <2>2. Settled'
      BY DEF TypeOK
    <2>3. Granted'
      BY DEF TypeOK
    <2>4. Strays'
      BY DEF TypeOK
    <2>5. Closing'
      BY DEF TypeOK
    <2> QED
      BY <2>1, <2>2, <2>3, <2>4, <2>5
  <1>7. ASSUME NEW e \in Executions, CancelConnects(e) PROVE IInv'
    <2> USE <1>7 DEF CancelConnects, CancelStep
    <2>1. TypeOK'
      BY DEF TypeOK
    <2>2. Settled'
      BY DEF TypeOK
    <2>3. Granted'
      BY DEF TypeOK
    <2>4. Strays'
      BY DEF TypeOK
    <2>5. Closing'
      BY DEF TypeOK
    <2> QED
      BY <2>1, <2>2, <2>3, <2>4, <2>5
  <1>8. ASSUME NEW e \in Executions, CancelServed(e) PROVE IInv'
    <2> USE <1>8 DEF CancelServed, CancelStep, Interrupt
    <2>1. TypeOK'
      BY DEF TypeOK
    <2>2. Settled'
      BY DEF TypeOK
    <2>3. Granted'
      BY DEF TypeOK
    <2>4. Strays'
      BY DEF TypeOK
    <2>5. Closing'
      BY DEF TypeOK
    <2> QED
      BY <2>1, <2>2, <2>3, <2>4, <2>5
  <1>9. ASSUME NEW e \in Executions, CancelFails(e) PROVE IInv'
    <2> USE <1>9 DEF CancelFails, CancelStep
    <2>1. TypeOK'
      BY DEF TypeOK
    <2>2. Settled'
      BY DEF TypeOK
    <2>3. Granted'
      BY DEF TypeOK
    <2>4. Strays'
      BY DEF TypeOK
    <2>5. Closing'
      BY DEF TypeOK
    <2> QED
      BY <2>1, <2>2, <2>3, <2>4, <2>5
  <1>10. ASSUME NEW e \in Executions, CancelCloses(e) PROVE IInv'
    <2> USE <1>10 DEF CancelCloses, CancelStep
    <2>1. TypeOK'
      BY DEF TypeOK
    <2>2. Settled'
      BY DEF TypeOK
    <2>3. Granted'
      BY DEF TypeOK
    <2>4. Strays'
      BY DEF TypeOK
    <2>5. Closing'
      BY DEF TypeOK
    <2> QED
      BY <2>1, <2>2, <2>3, <2>4, <2>5
  <1>11. ASSUME NEW e \in Executions, StrayCancel(e) PROVE IInv'
    <2> USE <1>11 DEF StrayCancel, Interrupt
    <2>1. TypeOK'
      BY DEF TypeOK
    <2>2. Settled'
      BY DEF TypeOK
    <2>3. Granted'
      BY DEF TypeOK
    <2>4. Strays'
      BY DEF TypeOK
    <2>5. Closing'
      BY DEF TypeOK
    <2> QED
      BY <2>1, <2>2, <2>3, <2>4, <2>5
  <1>12. ASSUME NEW b \in Backends, NEW result \in {"rows", "error"}, StatementEnds(b, result) PROVE IInv'
    <2> USE <1>12 DEF StatementEnds
    <2>1. TypeOK'
      BY DEF TypeOK
    <2>2. Settled'
      BY DEF TypeOK
    <2>3. Granted'
      BY DEF TypeOK
    <2>4. Strays'
      BY DEF TypeOK
    <2>5. Closing'
      BY DEF TypeOK
    <2> QED
      BY <2>1, <2>2, <2>3, <2>4, <2>5
  <1>13. ASSUME Dispose PROVE IInv'
    <2> USE <1>13 DEF Dispose
    <2>1. TypeOK'
      BY DEF TypeOK
    <2>2. Settled'
      BY DEF TypeOK
    <2>3. Granted'
      BY DEF TypeOK
    <2>4. Strays'
      BY DEF TypeOK
    <2>5. Closing'
      BY DEF TypeOK
    <2> QED
      BY <2>1, <2>2, <2>3, <2>4, <2>5
  <1>14. ASSUME PoolEnds PROVE IInv'
    <2> USE <1>14 DEF PoolEnds
    <2>1. TypeOK'
      BY DEF TypeOK
    <2>2. Settled'
      BY DEF TypeOK
    <2>3. Granted'
      BY DEF TypeOK
    <2>4. Strays'
      BY DEF TypeOK
    <2>5. Closing'
      BY DEF TypeOK
    <2> QED
      BY <2>1, <2>2, <2>3, <2>4, <2>5
  <1>15. CASE UNCHANGED vars
    BY <1>15 DEF vars, TypeOK
  <1> QED
    BY <1>1, <1>2, <1>3, <1>4, <1>5, <1>6, <1>7, <1>8, <1>9, <1>10, <1>11, <1>12, <1>13, <1>14, <1>15,
       <1>16
       DEF Next, Acquiring, Cancelling

LEMMA Invariance == Spec => []IInv
  BY InitIInv, StepIInv, PTL DEF Spec

(* Every reachable state of a source is well typed. *)
THEOREM SourceTypeCorrect == Spec => []TypeOK
  <1>1. IInv => TypeOK
    BY DEF IInv
  <1> QED
    BY <1>1, Invariance, PTL

(* A cancel request that is on its way can stop nothing but the statement   *)
(* of the execution it was sent for: the client is not released before      *)
(* cancelBackend is over (source.ts:189-192, 229).                          *)
THEOREM CancelStaysOnTarget == Spec => []CancelTargetsOwnBackend
  <1>1. IInv => CancelTargetsOwnBackend
    <2> SUFFICES ASSUME IInv, NEW e \in Executions, cancel[e] \in {"connecting", "sent"}
                 PROVE  holder[client[e]] = e /\ running[client[e]] \in {e, Nothing}
      BY DEF CancelTargetsOwnBackend
    <2>1. pc[e] \in Holding
      BY DEF IInv, TypeOK, Settled, CancelOver, Holding
    <2> QED
      BY <2>1, PostgresSourceAssumption DEF IInv, TypeOK, Granted, Owns
  <1> QED
    BY <1>1, Invariance, PTL

(* An execution that has settled, however it did, has left no cancelBackend, *)
(* no listener, no client and no running statement (source.ts:136-139,      *)
(* 189-192, 221-224, 271).                                                  *)
THEOREM NothingIsLeft == Spec => []SettledLeavesNothing
  <1>1. IInv => SettledLeavesNothing
    <2> SUFFICES ASSUME IInv, NEW e \in Executions, outcome[e] # "pending"
                 PROVE  /\ cancel[e] \in {"none", "settled", "failed"}
                        /\ ~listening[e]
                        /\ \A b \in Backends : holder[b] # e /\ running[b] # e
      BY DEF SettledLeavesNothing
    <2>1. pc[e] = "done"
      BY DEF IInv, Settled
    <2>2. CancelOver(e) /\ ~listening[e]
      BY <2>1 DEF IInv, Settled
    <2>3. \A b \in Backends : holder[b] # e /\ running[b] # e
      BY <2>1, PostgresSourceAssumption DEF IInv, Granted, Owns, Holding
    <2> QED
      BY <2>2, <2>3 DEF CancelOver
  <1> QED
    BY <1>1, Invariance, PTL

-----------------------------------------------------------------------------
(* The source implements StatementExecutor.                                *)

LEMMA StageValues ==
  /\ \A r : StageOf("idle", r) = "idle" /\ StageOf("acquiring", r) = "waiting"
  /\ \A l \in Holding : \A r : StageOf(l, r) = "working"
  /\ StageOf("done", "disposed") = "failed"
  /\ \A r \in {"rows", "aborted", "failed"} : StageOf("done", r) = r
  BY DEF StageOf, Holding

(* The source as the abstract one sees it. *)
Stage == [e \in Executions |-> StageOf(pc[e], outcome[e])]
Cancelled == {e \in Executions : aborted[e]}
Source == IF ~disposed THEN "open" ELSE IF ending = "ended" THEN "drained" ELSE "closed"

LEMMA SourceValues ==
  /\ Source = "open" <=> ~disposed
  /\ Source = "closed" <=> disposed /\ ending # "ended"
  /\ Source = "drained" <=> disposed /\ ending = "ended"
  BY DEF Source

(* Working on a statement is holding a client. *)
LEMMA WorkingHold ==
  ASSUME TypeOK, NEW e \in Executions
  PROVE  Stage[e] = "working" <=> pc[e] \in Holding
  BY DEF TypeOK, StageOf, Stage, Holding

(* While a client is reserved for an execution that still waits for it,     *)
(* fewer statements are worked on than there are clients: each holds        *)
(* another one.                                                             *)
LEMMA CapacityLeft ==
  ASSUME IInv, NEW f \in Executions, pc[f] = "acquiring", client[f] # Nothing
  PROVE  Cardinality(Promise!Working) < Cardinality(Backends)
  <1> DEFINE held == [e \in Promise!Working |-> client[e]]
             b == client[f]
  <1>0. b \in Backends /\ holder[b] = f
    BY DEF IInv, Granted, Owns
  <1>1. \A e \in Promise!Working :
          e \in Executions /\ client[e] \in Backends /\ holder[client[e]] = e /\ e # f
    BY WorkingHold DEF Promise!Working, Stage, IInv, Granted, Owns, Holding
  <1>2. \A e \in Promise!Working : client[e] \in Backends \ {b}
    BY <1>0, <1>1
  <1>3. held \in Injection(Promise!Working, Backends \ {b})
    BY <1>1, <1>2 DEF Injection, IsInjective
  <1>4. IsFiniteSet(Backends \ {b}) /\ Cardinality(Backends \ {b}) = Cardinality(Backends) - 1
    BY <1>0, FS_RemoveElement, PostgresSourceAssumption
  <1>5. Cardinality(Promise!Working) <= Cardinality(Backends \ {b}) /\ IsFiniteSet(Promise!Working)
    BY <1>3, <1>4, FS_Injection
  <1> HIDE DEF held, b
  <1>6. Cardinality(Backends) \in Nat /\ Cardinality(Promise!Working) \in Nat
    BY <1>5, FS_CardinalityType, PostgresSourceAssumption
  <1> QED
    BY <1>4, <1>5, <1>6

LEMMA PromiseInit == Init => Promise!Init
  <1> SUFFICES ASSUME Init PROVE Promise!Init
    OBVIOUS
  <1>1. Stage = [e \in Executions |-> "idle"]
    BY StageValues DEF Init, Stage
  <1>2. Cancelled = {} /\ Source = "open"
    BY SourceValues DEF Init, Cancelled
  <1> QED
    BY <1>1, <1>2 DEF Promise!Init, Stage, Cancelled, Source

(* What the abstract source sees of a step that moves one execution. *)
LEMMA OneMoves ==
  ASSUME TypeOK, NEW e \in Executions, NEW location, NEW result,
         pc' = [pc EXCEPT ![e] = location], outcome' = [outcome EXCEPT ![e] = result]
  PROVE  Stage' = [Stage EXCEPT ![e] = StageOf(location, result)]
  BY DEF TypeOK, Stage

LEMMA NoneMoves == UNCHANGED <<pc, outcome>> => Stage' = Stage
  BY DEF Stage

LEMMA RestUnchanged ==
  /\ UNCHANGED aborted => Cancelled' = Cancelled
  /\ UNCHANGED <<disposed, ending>> => Source' = Source
  BY DEF Cancelled, Source

(* The steps of one execution. *)
LEMMA SettleKeepsPromise ==
  ASSUME IInv, NEW e \in Executions, NEW result, Settle(e, result),
         UNCHANGED <<aborted, disposed, ending>>,
         \/ result = "disposed" /\ pc[e] = "idle" /\ disposed
         \/ result = "aborted" /\ aborted[e] /\ pc[e] # "done"
         \/ result = "failed" /\ pc[e] = "acquiring"
         \/ result \in {"rows", "failed"} /\ pc[e] \in Holding /\ ~aborted[e]
  PROVE  Promise!Next
  <1>1. Stage' = [Stage EXCEPT ![e] = StageOf("done", result)]
    BY OneMoves DEF Settle, IInv
  <1>2. Cancelled' = Cancelled /\ Source' = Source
    BY RestUnchanged
  <1>3. Stage[e] = StageOf(pc[e], outcome[e]) /\ (e \in Cancelled <=> aborted[e])
    BY DEF Stage, Cancelled
  <1>4. CASE result = "disposed" /\ pc[e] = "idle" /\ disposed
    <2>1. Stage[e] = "idle" /\ Source # "open" /\ StageOf("done", result) = "failed"
      BY <1>3, <1>4, StageValues, SourceValues
    <2>2. Promise!Fail(e)
      BY <1>1, <1>2, <2>1 DEF Promise!Fail, Promise!Goes, Stage, Cancelled, Source
    <2> QED
      BY <2>2 DEF Promise!Next
  <1>5. CASE result = "aborted" /\ aborted[e] /\ pc[e] # "done"
    <2>1. Stage[e] \in {"idle", "waiting", "working"} /\ StageOf("done", result) = "aborted"
      BY <1>3, <1>5, StageValues DEF IInv, TypeOK, Holding
    <2>2. Promise!StopCancelled(e)
      BY <1>1, <1>2, <1>3, <1>5, <2>1 DEF Promise!StopCancelled, Promise!Goes, Stage, Cancelled, Source
    <2> QED
      BY <2>2 DEF Promise!Next
  <1>6. CASE result = "failed" /\ pc[e] = "acquiring"
    <2>1. Stage[e] = "waiting" /\ StageOf("done", result) = "failed"
      BY <1>3, <1>6, StageValues
    <2>2. Promise!Fail(e)
      BY <1>1, <1>2, <2>1 DEF Promise!Fail, Promise!Goes, Stage, Cancelled, Source
    <2> QED
      BY <2>2 DEF Promise!Next
  <1>7. CASE result \in {"rows", "failed"} /\ pc[e] \in Holding /\ ~aborted[e]
    <2>1. Stage[e] = "working" /\ StageOf("done", result) = result /\ e \notin Cancelled
      BY <1>3, <1>7, StageValues
    <2>2. CASE result = "rows"
      <3>1. Promise!Deliver(e)
        BY <1>1, <1>2, <2>1, <2>2 DEF Promise!Deliver, Promise!Goes, Stage, Cancelled, Source
      <3> QED
        BY <3>1 DEF Promise!Next
    <2>3. CASE result = "failed"
      <3>1. Promise!Fail(e)
        BY <1>1, <1>2, <2>1, <2>3 DEF Promise!Fail, Promise!Goes, Stage, Cancelled, Source
      <3> QED
        BY <3>1 DEF Promise!Next
    <2> QED
      BY <1>7, <2>2, <2>3
  <1> QED
    BY <1>4, <1>5, <1>6, <1>7

LEMMA SubmitKeepsPromise ==
  ASSUME IInv, NEW e \in Executions, Execute(e), pc'[e] = "acquiring"
  PROVE  Promise!Next
  <1>1. pc[e] = "idle" /\ ~disposed /\ ~aborted[e] /\ UNCHANGED <<aborted, disposed, ending, outcome>>
    BY DEF Execute, Settle, IInv, TypeOK
  <1>2. pc' = [pc EXCEPT ![e] = "acquiring"] /\ outcome' = [outcome EXCEPT ![e] = outcome[e]]
    BY <1>1 DEF Execute, IInv, TypeOK
  <1>3. Stage' = [Stage EXCEPT ![e] = "waiting"] /\ Cancelled' = Cancelled /\ Source' = Source
    <2>1. Stage' = [Stage EXCEPT ![e] = StageOf("acquiring", outcome[e])]
      BY <1>2 DEF Stage, IInv, TypeOK
    <2>2. StageOf("acquiring", outcome[e]) = "waiting"
      BY StageValues
    <2> QED
      BY <1>1, <2>1, <2>2, RestUnchanged
  <1>4. Stage[e] = "idle" /\ Source = "open" /\ e \notin Cancelled
    BY <1>1, StageValues, SourceValues DEF Stage, Cancelled
  <1>5. Promise!Submit(e)
    BY <1>3, <1>4 DEF Promise!Submit, Promise!Goes, Stage, Cancelled, Source
  <1> QED
    BY <1>5 DEF Promise!Next

LEMMA StartKeepsPromise ==
  ASSUME IInv, NEW e \in Executions, NEW known \in BOOLEAN, Acquired(e, known), ~aborted[e]
  PROVE  Promise!Next
  <1>1. pc[e] = "acquiring" /\ client[e] # Nothing /\ UNCHANGED <<aborted, disposed, ending, outcome>>
    BY DEF Acquired, poolVars
  <1>2. pc' = [pc EXCEPT ![e] = "running"] /\ outcome' = [outcome EXCEPT ![e] = outcome[e]]
    BY <1>1 DEF Acquired, IInv, TypeOK
  <1>3. Stage' = [Stage EXCEPT ![e] = "working"] /\ Cancelled' = Cancelled /\ Source' = Source
    <2>1. Stage' = [Stage EXCEPT ![e] = StageOf("running", outcome[e])]
      BY <1>2, OneMoves DEF IInv
    <2> QED
      BY <1>1, <2>1, StageValues, RestUnchanged DEF Holding
  <1>4. ending # "ended"
    <2>1. client[e] \in Backends /\ holder[client[e]] = e
      BY <1>1 DEF IInv, Granted, Owns
    <2> QED
      BY <2>1, PostgresSourceAssumption DEF IInv, Closing
  <1>5. Stage[e] = "waiting" /\ Source # "drained" /\ e \notin Cancelled
    BY <1>1, <1>4, StageValues, SourceValues DEF Stage, Cancelled
  <1>6. Cardinality(Promise!Working) < Cardinality(Backends)
    BY <1>1, CapacityLeft
  <1>7. Promise!Start(e)
    BY <1>3, <1>5, <1>6 DEF Promise!Start, Promise!Goes, Promise!Cardinality, Cardinality, Stage, Cancelled, Source
  <1> QED
    BY <1>7 DEF Promise!Next

LEMMA AbortKeepsPromise ==
  ASSUME IInv, NEW e \in Executions, Abort(e)
  PROVE  Promise!Next
  <1>1. Cancelled' = Cancelled \cup {e}
    BY DEF Abort, Cancelled, IInv, TypeOK
  <1>2. Stage' = Stage /\ Source' = Source
    BY NoneMoves, RestUnchanged DEF Abort, poolVars
  <1>3. Promise!Cancel(e)
    BY <1>1, <1>2 DEF Promise!Cancel, Stage, Cancelled, Source
  <1> QED
    BY <1>3 DEF Promise!Next

(* A step that leaves every execution where it is, but for the client. *)
LEMMA InternalKeepsPromise ==
  ASSUME Stage' = Stage, UNCHANGED <<aborted, disposed, ending>>
  PROVE  UNCHANGED Promise!vars
  BY RestUnchanged DEF Promise!vars, Stage, Cancelled, Source

LEMMA DisposeKeepsPromise ==
  ASSUME IInv, Dispose
  PROVE  [Promise!Next]_Promise!vars
  <1>1. Stage' = Stage /\ Cancelled' = Cancelled
    BY NoneMoves, RestUnchanged DEF Dispose, executionVars
  <1>2. CASE disposed
    <2>1. UNCHANGED <<disposed, ending>>
      BY <1>2 DEF Dispose, IInv, Closing
    <2> QED
      BY <1>1, <2>1, RestUnchanged DEF Promise!vars, Stage, Cancelled, Source
  <1>3. CASE ~disposed
    <2>1. Source = "open" /\ Source' = "closed"
      BY <1>3 DEF Dispose, IInv, Closing, TypeOK, Source
    <2>2. Promise!Close
      BY <1>1, <2>1 DEF Promise!Close, Stage, Cancelled, Source
    <2> QED
      BY <2>2 DEF Promise!Next
  <1> QED
    BY <1>2, <1>3

LEMMA DrainKeepsPromise ==
  ASSUME IInv, PoolEnds
  PROVE  Promise!Next
  <1>1. Stage' = Stage /\ Cancelled' = Cancelled
    BY NoneMoves, RestUnchanged DEF PoolEnds, executionVars
  <1>2. Source = "closed" /\ Source' = "drained"
    BY DEF PoolEnds, IInv, Closing, Source
  <1>3. Promise!Working = {}
    <2> SUFFICES ASSUME NEW e \in Executions, Stage[e] = "working" PROVE FALSE
      BY DEF Promise!Working, Stage
    <2>1. client[e] \in Backends /\ holder[client[e]] = e
      BY WorkingHold DEF IInv, Granted, Owns
    <2> QED
      BY <2>1, PostgresSourceAssumption DEF PoolEnds
  <1>4. Promise!Drain
    BY <1>1, <1>2, <1>3 DEF Promise!Drain, Stage, Cancelled, Source
  <1> QED
    BY <1>4 DEF Promise!Next

LEMMA StepKeepsPromise == IInv /\ [Next]_vars => [Promise!Next]_Promise!vars
  <1> SUFFICES ASSUME IInv, [Next]_vars PROVE [Promise!Next]_Promise!vars
    OBVIOUS
  <1> USE DEF poolVars, serverVars, executionVars
  <1>a. \A e \in Executions : pc[e] = "done" <=> outcome[e] # "pending"
    BY DEF IInv, Settled
  <1>1. ASSUME NEW e \in Executions, Execute(e) PROVE Promise!Next
    <2>1. pc[e] = "idle" /\ UNCHANGED <<aborted, disposed, ending>>
      BY <1>1 DEF Execute
    <2>2. CASE disposed /\ Settle(e, "disposed")
      BY <2>1, <2>2, SettleKeepsPromise
    <2>3. CASE aborted[e] /\ Settle(e, "aborted")
      BY <2>1, <2>3, SettleKeepsPromise
    <2>4. CASE pc' = [pc EXCEPT ![e] = "acquiring"]
      BY <1>1, <2>4, SubmitKeepsPromise DEF IInv, TypeOK
    <2> QED
      BY <1>1, <2>2, <2>3, <2>4 DEF Execute
  <1>2. ASSUME NEW e \in Executions, AcquireFails(e) PROVE Promise!Next
    BY <1>2, SettleKeepsPromise DEF AcquireFails
  <1>14. ASSUME NEW e \in Executions, NEW b \in Backends, Reserve(e, b) PROVE UNCHANGED Promise!vars
    BY <1>14, NoneMoves, InternalKeepsPromise DEF Reserve
  <1>3. ASSUME NEW e \in Executions, NEW known \in BOOLEAN, Acquired(e, known) PROVE Promise!Next
    <2>1. CASE aborted[e]
      <3>1. Settle(e, "aborted") /\ pc[e] = "acquiring" /\ UNCHANGED <<aborted, disposed, ending>>
        BY <1>3, <2>1 DEF Acquired, Release
      <3> QED
        BY <2>1, <3>1, SettleKeepsPromise
    <2>2. CASE ~aborted[e]
      BY <1>3, <2>2, StartKeepsPromise
    <2> QED
      BY <2>1, <2>2
  <1>4. ASSUME NEW e \in Executions, Abort(e) PROVE Promise!Next
    BY <1>4, AbortKeepsPromise
  <1>5. ASSUME NEW e \in Executions, Release(e, Result(e)), pc[e] \in Holding,
               UNCHANGED <<aborted, disposed, ending>>
        PROVE  Promise!Next
    <2>1. \/ Result(e) = "aborted" /\ aborted[e] /\ pc[e] # "done"
          \/ Result(e) \in {"rows", "failed"} /\ pc[e] \in Holding /\ ~aborted[e]
      BY <1>5 DEF Result, Holding
    <2>2. Settle(e, Result(e))
      BY <1>5 DEF Release
    <2> QED
      BY <1>5, <2>1, <2>2, SettleKeepsPromise
  <1>6. ASSUME NEW e \in Executions, QuerySettles(e) PROVE [Promise!Next]_Promise!vars
    <2>1. pc[e] \in Holding /\ UNCHANGED <<aborted, disposed, ending>>
      BY <1>6 DEF QuerySettles, Holding
    <2>2. CASE Release(e, Result(e))
      BY <1>5, <2>1, <2>2
    <2>3. CASE pc' = [pc EXCEPT ![e] = "cancelling"] /\ UNCHANGED outcome
      <3>1. outcome' = [outcome EXCEPT ![e] = outcome[e]]
        BY <2>3 DEF IInv, TypeOK
      <3>2. Stage' = [Stage EXCEPT ![e] = StageOf("cancelling", outcome[e])]
        BY <2>3, <3>1, OneMoves DEF IInv
      <3>3. StageOf("cancelling", outcome[e]) = "working" /\ Stage[e] = "working"
        BY <2>1, StageValues DEF Holding, Stage
      <3>4. Stage' = Stage
        BY <3>2, <3>3 DEF Stage
      <3> QED
        BY <2>1, <3>4, InternalKeepsPromise
    <2> QED
      BY <1>6, <2>2, <2>3 DEF QuerySettles
  <1>7. ASSUME NEW e \in Executions, CancelAwaited(e) PROVE Promise!Next
    BY <1>5, <1>7 DEF CancelAwaited, Holding
  <1>8. ASSUME NEW e \in Executions, Cancelling(e) PROVE UNCHANGED Promise!vars
    BY <1>8, NoneMoves, InternalKeepsPromise
       DEF Cancelling, CancelConnects, CancelServed, CancelFails, CancelCloses, CancelStep
  <1>9. ASSUME NEW e \in Executions, StrayCancel(e) PROVE UNCHANGED Promise!vars
    BY <1>9, NoneMoves, InternalKeepsPromise DEF StrayCancel
  <1>10. ASSUME NEW b \in Backends, NEW result \in {"rows", "error"}, StatementEnds(b, result)
         PROVE  UNCHANGED Promise!vars
    BY <1>10, NoneMoves, InternalKeepsPromise DEF StatementEnds
  <1>11. CASE Dispose
    BY <1>11, DisposeKeepsPromise
  <1>12. CASE PoolEnds
    BY <1>12, DrainKeepsPromise
  <1>13. CASE UNCHANGED vars
    BY <1>13, NoneMoves, InternalKeepsPromise DEF vars
  <1> QED
    BY <1>1, <1>2, <1>3, <1>4, <1>6, <1>7, <1>8, <1>9, <1>10, <1>11, <1>12, <1>13,
       <1>14
       DEF Next, Acquiring

(* However aborts, cancel requests and dispose() cross its awaits, each step *)
(* of the source is a step of the abstract one or leaves it alone: no rows  *)
(* after an abort, never more statements than clients, no execution taken   *)
(* up after dispose(), and no statement left, or started, when pool.end()   *)
(* has settled (source.ts:239-287).                                         *)
THEOREM SourceImplementsExecutor == Spec => ImplementsStatementExecutor
  BY PromiseInit, StepKeepsPromise, Invariance, PTL DEF Spec, ImplementsStatementExecutor, Promise!Spec

-----------------------------------------------------------------------------
(***************************************************************************)
(* SqlScan.  The scanner reads fragment by fragment, PostgreSQL character  *)
(* by character, and not the statement but a text in which placeholders    *)
(* have moved everything.  Up to ScannedFaithfully: induction; what        *)
(* looking ahead finds; what PostgreSQL's reader makes of one character,   *)
(* of each kind of fragment, of a reference and of a placeholder; that the *)
(* reader of the statement and the reader of a text with the same fragment *)
(* elsewhere stay together there; and the inductive invariant ScanInv.     *)
(***************************************************************************)
-----------------------------------------------------------------------------
(* Induction, and functions that are defined by it.                        *)

(* A non-empty set of numbers has a least one. *)
LEMMA Least ==
    ASSUME NEW S \in SUBSET Nat, S # {}
    PROVE  \E m \in S : \A k \in S : m <= k
<1> DEFINE R == OpToRel(<, Nat)
<1>1. IsWellFoundedOn(R, Nat)
  BY NatLessThanWellFounded
<1>2. \A x, y \in Nat : <<x, y>> \in R <=> x < y
  BY DEF OpToRel
<1> HIDE DEF R
<1>3. PICK m \in S : \A y \in S : ~ (<<y, m>> \in R)
  BY <1>1, WFMin
<1>4. \A k \in S : m \in Nat /\ k \in Nat /\ ~(k < m)
  BY <1>2, <1>3
<1> QED
  BY <1>4

(* Induction from 0 up to n, over a set of numbers. *)
LEMMA Induction ==
    ASSUME NEW n \in Nat, NEW S, 0 \in S, \A k \in 0 .. n - 1 : k \in S => k + 1 \in S
    PROVE  \A k \in 0 .. n : k \in S
<1> SUFFICES ASSUME NEW j \in 0 .. n, j \notin S
             PROVE  FALSE
  OBVIOUS
<1> DEFINE T == {k \in 0 .. n : k \notin S}
<1>1. T \in SUBSET Nat /\ T # {}
  OBVIOUS
<1> HIDE DEF T
<1>2. PICK m \in T : \A k \in T : m <= k
  BY <1>1, Least
<1>3. m \in 0 .. n /\ m \notin S /\ m # 0
  BY <1>2 DEF T
<1>4. m - 1 \in 0 .. n - 1 /\ m - 1 \notin T /\ (m - 1) + 1 = m
  BY <1>2, <1>3
<1> QED
  BY <1>3, <1>4 DEF T

(* The functions whose value at i is made of their value at i - 1. *)
Iterations(n, S, base, F) ==
    {h \in [0 .. n -> S] : h[0] = base /\ \A i \in 1 .. n : h[i] = F[i][h[i - 1]]}

(* There is such a function. *)
LEMMA IterationExists ==
    ASSUME NEW n \in Nat, NEW S, NEW base \in S, NEW F, \A i \in 1 .. n : \A s \in S : F[i][s] \in S
    PROVE  Iterations(n, S, base, F) # {}
<1> DEFINE Is(h, k) == h \in [0 .. k -> S] /\ h[0] = base /\ \A i \in 1 .. k : h[i] = F[i][h[i - 1]]
           D == {k \in 0 .. n : \E h : Is(h, k)}
<1>1. 0 \in D
  <2> DEFINE h == [i \in 0 .. 0 |-> base]
  <2>1. Is(h, 0)
    OBVIOUS
  <2> HIDE DEF h, Is
  <2> QED
    BY <2>1
<1>2. ASSUME NEW k \in 0 .. n - 1, k \in D PROVE k + 1 \in D
  <2>1. PICK h : Is(h, k)
    BY <1>2
  <2>2. k \in Nat /\ k + 1 \in 1 .. n /\ k + 1 \in 0 .. n
    OBVIOUS
  <2> DEFINE g == [i \in 0 .. k + 1 |-> IF i = k + 1 THEN F[k + 1][h[k]] ELSE h[i]]
  <2>3. \A i \in 0 .. k : g[i] = h[i]
    BY <2>2
  <2>4. g[k + 1] = F[k + 1][h[k]] /\ g[k + 1] \in S
    <3>1. h[k] \in S
      BY <2>1, <2>2
    <3> QED
      BY <2>2, <3>1
  <2>5. g \in [0 .. k + 1 -> S]
    BY <2>1, <2>2, <2>4
  <2> HIDE DEF g
  <2>6. ASSUME NEW i \in 1 .. k + 1 PROVE g[i] = F[i][g[i - 1]]
    <3>1. CASE i = k + 1
      <4>1. g[k] = h[k] /\ (k + 1) - 1 = k
        BY <2>2, <2>3
      <4> QED
        BY <2>4, <3>1, <4>1
    <3>2. CASE i # k + 1
      <4>1. i \in 1 .. k /\ i \in 0 .. k /\ i - 1 \in 0 .. k
        BY <2>2, <3>2
      <4> QED
        BY <2>1, <2>3, <4>1
    <3> QED
      BY <3>1, <3>2
  <2>7. g[0] = base
    BY <2>1, <2>2, <2>3
  <2>8. Is(g, k + 1)
    BY <2>5, <2>6, <2>7
  <2> HIDE DEF Is
  <2> QED
    BY <2>2, <2>8
<1>3. \A k \in 0 .. n : k \in D
  <2> HIDE DEF D
  <2> QED
    BY <1>1, <1>2, Induction
<1>4. PICK h : Is(h, n)
  BY <1>3
<1> QED
  BY <1>4 DEF Iterations

-----------------------------------------------------------------------------
(* Looking ahead.                                                          *)

Text == Seq(Character)

(* What a text has at a place, and past its end. *)
LEMMA AtFacts ==
    ASSUME NEW U \in Text
    PROVE  /\ Len(U) \in Nat /\ DOMAIN U = 1 .. Len(U)
           /\ \A k \in 1 .. Len(U) : At(U, k) = U[k] /\ U[k] \in Character /\ U[k] # ""
           /\ \A k : k \notin 1 .. Len(U) => At(U, k) = ""
<1>1. Len(U) \in Nat /\ DOMAIN U = 1 .. Len(U)
  BY DEF Text
<1>2. \A k \in 1 .. Len(U) : U[k] \in Character
  BY DEF Text
<1>3. \A x \in Character : x # ""
  BY SqlScanAssumption
<1> QED
  BY <1>1, <1>2, <1>3 DEF At

(* The first place from i on: no place lies before it. *)
LEMMA FirstFromFacts ==
    ASSUME NEW U \in Text, NEW i \in Nat, i <= Len(U) + 1, NEW places \in SUBSET (1 .. Len(U)),
           NEW q, q = FirstFrom(U, i, places)
    PROVE  /\ q \in Nat /\ i <= q /\ q <= Len(U) + 1
           /\ q = Len(U) + 1 \/ q \in places
           /\ \A k \in places : i <= k => q <= k
<1> DEFINE n == Len(U)
           found == {k \in places : k >= i}
<1>1. n \in Nat
  BY AtFacts
<1>2. q = IF found = {} THEN n + 1 ELSE Min(found)
  BY DEF FirstFrom
<1>3. CASE found = {}
  <2>1. q = n + 1
    BY <1>2, <1>3
  <2>2. \A k \in places : ~(i <= k)
    BY <1>1, <1>3
  <2> HIDE DEF n, found
  <2> QED
    BY <1>1, <2>1, <2>2 DEF n
<1>4. CASE found # {}
  <2>1. found \in SUBSET Nat
    <3>1. \A k \in 1 .. n : k \in Nat
      BY <1>1
    <3> HIDE DEF n
    <3> QED
      BY <3>1 DEF n
  <2>2. \E m \in found : \A k \in found : m <= k
    <3> HIDE DEF found
    <3> QED
      BY <1>4, <2>1, Least
  <2>3. q \in found /\ \A k \in found : q <= k
    <3> HIDE DEF found
    <3> QED
      BY <1>2, <1>4, <2>2 DEF Min
  <2>4. q \in places /\ i <= q /\ q \in 1 .. n /\ \A k \in places : i <= k => q <= k
    BY <1>1, <2>3
  <2> HIDE DEF n, found
  <2> QED
    BY <1>1, <2>4 DEF n
<1> QED
  BY <1>3, <1>4

(* An identifier goes on up to its end and no further. *)
LEMMA IdentifierEndFacts ==
    ASSUME NEW U \in Text, NEW i \in Nat \ {0}, i <= Len(U) + 1, NEW q, q = IdentifierEnd(U, i)
    PROVE  /\ q \in Nat /\ i <= q /\ q <= Len(U) + 1 /\ At(U, q) \notin IDENTIFIER_PART
           /\ \A k \in i .. q - 1 : k \in 1 .. Len(U) /\ U[k] \in IDENTIFIER_PART
<1> DEFINE n == Len(U)
           places == {k \in DOMAIN U : U[k] \notin IDENTIFIER_PART}
<1>1. n \in Nat /\ DOMAIN U = 1 .. n
  BY AtFacts
<1>2. places \in SUBSET (1 .. n)
  BY <1>1
<1>3. q = FirstFrom(U, i, places)
  BY DEF IdentifierEnd
<1> HIDE DEF places, n
<1>4. /\ q \in Nat /\ i <= q /\ q <= n + 1
      /\ q = n + 1 \/ q \in places
      /\ \A k \in places : i <= k => q <= k
  BY <1>2, <1>3, FirstFromFacts DEF n
<1>5. ASSUME NEW k \in i .. q - 1 PROVE k \in 1 .. n /\ U[k] \in IDENTIFIER_PART
  <2>1. k \in 1 .. n /\ i <= k /\ ~(q <= k)
    BY <1>1, <1>4
  <2>2. k \notin places
    BY <1>4, <2>1
  <2> QED
    BY <1>1, <2>1, <2>2 DEF places
<1>6. At(U, q) \notin IDENTIFIER_PART
  <2>1. CASE q = n + 1
    <3>1. q \notin 1 .. n
      BY <1>1, <2>1
    <3>2. At(U, q) = ""
      BY <3>1, AtFacts DEF n
    <3> QED
      BY <3>2 DEF IDENTIFIER_PART, IDENTIFIER_START, DIGIT
  <2>2. CASE q \in places
    <3>1. q \in 1 .. n /\ U[q] \notin IDENTIFIER_PART
      BY <1>1, <2>2 DEF places
    <3> QED
      BY <3>1, AtFacts DEF n
  <2> QED
    BY <1>4, <2>1, <2>2
<1> QED
  BY <1>4, <1>5, <1>6 DEF n

(* That is where its end is. *)
LEMMA IdentifierEndIs ==
    ASSUME NEW U \in Text, NEW i \in Nat \ {0}, NEW q \in Nat, i <= q, q <= Len(U) + 1,
           At(U, q) \notin IDENTIFIER_PART, \A k \in i .. q - 1 : U[k] \in IDENTIFIER_PART
    PROVE  IdentifierEnd(U, i) = q
<1> DEFINE n == Len(U)
           r == IdentifierEnd(U, i)
<1>1. n \in Nat
  BY AtFacts
<1>2. i <= n + 1
  BY <1>1
<1>3. /\ r \in Nat /\ i <= r /\ r <= n + 1 /\ At(U, r) \notin IDENTIFIER_PART
      /\ \A k \in i .. r - 1 : k \in 1 .. n /\ U[k] \in IDENTIFIER_PART
  BY <1>2, IdentifierEndFacts
<1> HIDE DEF r
<1>4. ~(r < q)
  <2> SUFFICES ASSUME r < q PROVE FALSE
    OBVIOUS
  <2>1. r \in i .. q - 1 /\ r \in 1 .. n
    BY <1>1, <1>3
  <2>2. At(U, r) = U[r]
    BY <2>1, AtFacts
  <2> QED
    BY <1>3, <2>1, <2>2
<1>5. ~(q < r)
  <2> SUFFICES ASSUME q < r PROVE FALSE
    OBVIOUS
  <2>1. q \in i .. r - 1
    BY <1>1, <1>3
  <2>2. q \in 1 .. n /\ U[q] \in IDENTIFIER_PART
    BY <1>3, <2>1
  <2>3. At(U, q) = U[q]
    BY <2>2, AtFacts
  <2> QED
    BY <2>2, <2>3
<1> QED
  BY <1>3, <1>4, <1>5 DEF r

(* A number goes on up to its end and no further. *)
LEMMA NumberEndFacts ==
    ASSUME NEW U \in Text, NEW i \in Nat \ {0}, i <= Len(U) + 1, NEW q, q = NumberEnd(U, i)
    PROVE  /\ q \in Nat /\ i <= q /\ q <= Len(U) + 1 /\ At(U, q) \notin DIGIT
           /\ \A k \in i .. q - 1 : k \in 1 .. Len(U) /\ U[k] \in DIGIT
<1> DEFINE n == Len(U)
           places == {k \in DOMAIN U : U[k] \notin DIGIT}
<1>1. n \in Nat /\ DOMAIN U = 1 .. n
  BY AtFacts
<1>2. places \in SUBSET (1 .. n)
  BY <1>1
<1>3. q = FirstFrom(U, i, places)
  BY DEF NumberEnd
<1> HIDE DEF places, n
<1>4. /\ q \in Nat /\ i <= q /\ q <= n + 1
      /\ q = n + 1 \/ q \in places
      /\ \A k \in places : i <= k => q <= k
  BY <1>2, <1>3, FirstFromFacts DEF n
<1>5. ASSUME NEW k \in i .. q - 1 PROVE k \in 1 .. n /\ U[k] \in DIGIT
  <2>1. k \in 1 .. n /\ i <= k /\ ~(q <= k)
    BY <1>1, <1>4
  <2>2. k \notin places
    BY <1>4, <2>1
  <2> QED
    BY <1>1, <2>1, <2>2 DEF places
<1>6. At(U, q) \notin DIGIT
  <2>1. CASE q = n + 1
    <3>1. q \notin 1 .. n
      BY <1>1, <2>1
    <3>2. At(U, q) = ""
      BY <3>1, AtFacts DEF n
    <3> QED
      BY <3>2 DEF DIGIT
  <2>2. CASE q \in places
    <3>1. q \in 1 .. n /\ U[q] \notin DIGIT
      BY <1>1, <2>2 DEF places
    <3> QED
      BY <3>1, AtFacts DEF n
  <2> QED
    BY <1>4, <2>1, <2>2
<1> QED
  BY <1>4, <1>5, <1>6 DEF n

(* That is where its end is. *)
LEMMA NumberEndIs ==
    ASSUME NEW U \in Text, NEW i \in Nat \ {0}, NEW q \in Nat, i <= q, q <= Len(U) + 1,
           At(U, q) \notin DIGIT, \A k \in i .. q - 1 : U[k] \in DIGIT
    PROVE  NumberEnd(U, i) = q
<1> DEFINE n == Len(U)
           r == NumberEnd(U, i)
<1>1. n \in Nat
  BY AtFacts
<1>2. i <= n + 1
  BY <1>1
<1>3. /\ r \in Nat /\ i <= r /\ r <= n + 1 /\ At(U, r) \notin DIGIT
      /\ \A k \in i .. r - 1 : k \in 1 .. n /\ U[k] \in DIGIT
  BY <1>2, NumberEndFacts
<1> HIDE DEF r
<1>4. ~(r < q)
  <2> SUFFICES ASSUME r < q PROVE FALSE
    OBVIOUS
  <2>1. r \in i .. q - 1 /\ r \in 1 .. n
    BY <1>1, <1>3
  <2>2. At(U, r) = U[r]
    BY <2>1, AtFacts
  <2> QED
    BY <1>3, <2>1, <2>2
<1>5. ~(q < r)
  <2> SUFFICES ASSUME q < r PROVE FALSE
    OBVIOUS
  <2>1. q \in i .. r - 1
    BY <1>1, <1>3
  <2>2. q \in 1 .. n /\ U[q] \in DIGIT
    BY <1>3, <2>1
  <2>3. At(U, q) = U[q]
    BY <2>2, AtFacts
  <2> QED
    BY <2>2, <2>3
<1> QED
  BY <1>3, <1>4, <1>5 DEF r

(* The characters of a part of a text. *)
LEMMA SubSeqFacts ==
    ASSUME NEW U \in Text, NEW i \in Nat \ {0}, NEW k \in Nat, k <= Len(U), i <= k + 1
    PROVE  /\ SubSeq(U, i, k) \in Text /\ Len(SubSeq(U, i, k)) = k + 1 - i
           /\ \A d \in 1 .. k + 1 - i : SubSeq(U, i, k)[d] = U[i + d - 1]
<1> DEFINE n == Len(U)
<1>1. n \in Nat /\ \A d \in 1 .. n : U[d] \in Character
  BY AtFacts
<1>2. \A d \in i .. k : d \in 1 .. n
  BY <1>1
<1>3. i \in Int /\ k \in Int /\ \A d \in i .. k : U[d] \in Character
  BY <1>1, <1>2
<1>4. /\ SubSeq(U, i, k) \in Seq(Character)
      /\ Len(SubSeq(U, i, k)) = IF i <= k THEN k - i + 1 ELSE 0
      /\ \A d \in 1 .. k - i + 1 : SubSeq(U, i, k)[d] = U[i + d - 1]
  BY <1>3, SubSeqProperties
<1> QED
  BY <1>4 DEF Text

(* A dollar tag is two characters long at least, from a $ to a $. *)
LEMMA DollarTagFacts ==
    ASSUME NEW U \in Text, NEW i \in 1 .. Len(U), NEW tag, tag = DollarTag(U, i), tag # <<>>
    PROVE  /\ U[i] = "$" /\ tag \in Text /\ Len(tag) \in Nat /\ Len(tag) >= 2
           /\ i + Len(tag) - 1 <= Len(U) /\ U[i + Len(tag) - 1] = "$"
           /\ \A d \in 1 .. Len(tag) : tag[d] = U[i + d - 1]
           /\ \A k \in i + 1 .. i + Len(tag) - 2 : U[k] \in IDENTIFIER_PART
           /\ U[i + 1] \in IDENTIFIER_START \cup {"$"}
<1> DEFINE n == Len(U)
           end == IdentifierEnd(U, i + 1)
<1>1. n \in Nat /\ \A k \in 1 .. n : At(U, k) = U[k]
  BY AtFacts
<1>2. /\ At(U, i) = "$" /\ At(U, end) = "$" /\ At(U, i + 1) \in IDENTIFIER_START \cup {"$"}
      /\ tag = SubSeq(U, i, end)
  BY DEF DollarTag
<1>3. i + 1 \in Nat \ {0} /\ i + 1 <= n + 1
  BY <1>1
<1>4. /\ end \in Nat /\ i + 1 <= end /\ end <= n + 1
      /\ \A k \in i + 1 .. end - 1 : k \in 1 .. n /\ U[k] \in IDENTIFIER_PART
  BY <1>3, IdentifierEndFacts
<1> HIDE DEF end, n
<1>5. \A k : At(U, k) = "$" \/ At(U, k) \in IDENTIFIER_START => k \in 1 .. n
  <2>1. "" # "$" /\ "" \notin IDENTIFIER_START
    BY DEF IDENTIFIER_START
  <2> QED
    BY <2>1, AtFacts DEF n
<1>6. end \in 1 .. n /\ i + 1 \in 1 .. n /\ U[end] = "$" /\ U[i] = "$" /\ U[i + 1] \in IDENTIFIER_START \cup {"$"}
  <2>1. end \in 1 .. n
    BY <1>2, <1>5
  <2>2. i + 1 \in 1 .. n
    BY <1>2, <1>5
  <2>3. i \in 1 .. n
    BY DEF n
  <2> QED
    BY <1>1, <1>2, <2>1, <2>2, <2>3
<1>7. i \in Nat \ {0} /\ i <= end + 1 /\ end <= n
  BY <1>1, <1>4, <1>6 DEF n
<1>8. tag \in Text /\ Len(tag) = end + 1 - i /\ \A d \in 1 .. end + 1 - i : tag[d] = U[i + d - 1]
  BY <1>2, <1>4, <1>7, SubSeqFacts DEF n
<1>9. i + Len(tag) - 1 = end /\ i + Len(tag) - 2 = end - 1 /\ Len(tag) \in Nat /\ Len(tag) >= 2
  BY <1>4, <1>7, <1>8
<1> QED
  BY <1>4, <1>6, <1>7, <1>8, <1>9 DEF n

(* Where a dollar tag starts, and only there, is one found. *)
LEMMA DollarTagIs ==
    ASSUME NEW U \in Text, NEW i \in Nat \ {0}, NEW end \in Nat, i < end, end <= Len(U),
           U[i] = "$", U[end] = "$", U[i + 1] \in IDENTIFIER_START \cup {"$"},
           \A k \in i + 1 .. end - 1 : U[k] \in IDENTIFIER_PART
    PROVE  DollarTag(U, i) = SubSeq(U, i, end)
<1> DEFINE n == Len(U)
<1>1. n \in Nat /\ \A k \in 1 .. n : At(U, k) = U[k]
  BY AtFacts
<1>2. i \in 1 .. n /\ end \in 1 .. n /\ i + 1 \in 1 .. n
  BY <1>1
<1>3. At(U, i) = "$" /\ At(U, end) = "$" /\ At(U, i + 1) \in IDENTIFIER_START \cup {"$"}
  BY <1>1, <1>2
<1>4. i + 1 \in Nat \ {0} /\ i + 1 <= end /\ end <= n + 1 /\ At(U, end) \notin IDENTIFIER_PART
  BY <1>1, <1>3 DEF IDENTIFIER_PART, IDENTIFIER_START, DIGIT
<1>5. IdentifierEnd(U, i + 1) = end
  BY <1>4, IdentifierEndIs
<1> QED
  BY <1>3, <1>5 DEF DollarTag

(* A word is where its characters are. *)
LEMMA IsAtFacts ==
    ASSUME NEW U \in Text, NEW k \in Nat \ {0}, NEW word \in Text, Len(word) # 0
    PROVE  IsAt(U, k, word) <=>
              k + Len(word) - 1 <= Len(U) /\ \A d \in 1 .. Len(word) : U[k + d - 1] = word[d]
<1> DEFINE n == Len(U)
           m == Len(word)
           j == k + m - 1
           s == SubSeq(U, k, j)
<1>1. n \in Nat /\ m \in Nat /\ m # 0
  BY AtFacts
<1> HIDE DEF n, m
<1>2. j \in Nat /\ k <= j + 1 /\ j + 1 - k = m
  BY <1>1
<1> HIDE DEF j, s
<1>3. IsAt(U, k, word) <=> j <= n /\ s = word
  BY DEF IsAt, j, s, m, n
<1>4. ASSUME j <= n
      PROVE  s = word <=> \A d \in 1 .. m : U[k + d - 1] = word[d]
  <2>1. /\ s \in Text /\ Len(s) = j + 1 - k
        /\ \A d \in 1 .. j + 1 - k : s[d] = U[k + d - 1]
    BY <1>2, <1>4, SubSeqFacts DEF n, s
  <2>2. s \in Seq(Character) /\ word \in Seq(Character) /\ Len(s) = Len(word)
    BY <1>2, <2>1 DEF Text, m
  <2>3. (\A d \in 1 .. Len(s) : s[d] = word[d]) => s = word
    BY <2>2, SeqEqual
  <2> QED
    BY <1>2, <2>1, <2>3
<1> QED
  BY <1>3, <1>4 DEF j, m, n

(* The same for a word of two characters. *)
LEMMA PairIsAt ==
    ASSUME NEW U \in Text, NEW k \in Nat \ {0}, NEW a \in Character, NEW b \in Character
    PROVE  IsAt(U, k, <<a, b>>) <=> At(U, k) = a /\ At(U, k + 1) = b
<1> DEFINE w == <<a, b>>
           n == Len(U)
<1>0. a # "" /\ b # ""
  BY SqlScanAssumption
<1>1. n \in Nat
  BY AtFacts
<1>2. w \in Text /\ Len(w) = 2 /\ w[1] = a /\ w[2] = b
  BY DEF Text
<1> HIDE DEF w
<1>3. Len(w) # 0
  BY <1>2
<1>4. IsAt(U, k, w) <=> k + Len(w) - 1 <= n /\ \A d \in 1 .. Len(w) : U[k + d - 1] = w[d]
  BY <1>2, <1>3, IsAtFacts
<1>5. IsAt(U, k, w) <=> k + 1 <= n /\ U[k] = a /\ U[k + 1] = b
  <2>1. \A d : d \in 1 .. 2 <=> d = 1 \/ d = 2
    OBVIOUS
  <2>2. k + 2 - 1 = k + 1 /\ k + 1 - 1 = k
    OBVIOUS
  <2> QED
    BY <1>2, <1>4, <2>1, <2>2
<1>6. /\ \A p \in 1 .. n : At(U, p) = U[p]
      /\ \A p : p \notin 1 .. n => At(U, p) = ""
  BY AtFacts
<1> HIDE DEF n
<1>7. \A p \in Nat \ {0} : p + 1 <= n => p \in 1 .. n /\ p + 1 \in 1 .. n
  BY ONLY <1>1
<1>8. \A p \in Nat \ {0} : p + 1 \in 1 .. n => p \in 1 .. n /\ p + 1 <= n
  BY ONLY <1>1
<1> QED
  BY <1>0, <1>5, <1>6, <1>7, <1>8 DEF w

-----------------------------------------------------------------------------
(* PostgreSQL's reader.                                                    *)

Modes == {"sql", "line", "block", "string", "name", "escape", "dollar"}

Readers == [mode : Modes, depth : Nat, tag : Text, skip : Nat, word : {"", "identifier", "number"},
            placeholders : Seq(Text), references : Nat, odd : BOOLEAN]

(* A reader in a comment is one level deep at least, one in dollar quotes has their tag. *)
IsReader(z) ==
    z \in Readers /\ (z.mode = "block" => z.depth # 0) /\ (z.mode = "dollar" => Len(z.tag) # 0)

(* What the reader has reported. *)
Kept(z, x) == x.placeholders = z.placeholders /\ x.references = z.references

(* Numbers and identifiers that start behind k end behind k. *)
LEMMA EndsFacts ==
    ASSUME NEW U \in Text, NEW p \in 1 .. Len(U)
    PROVE  /\ NumberEnd(U, p + 1) - p - 1 \in Nat
           /\ IdentifierEnd(U, p + 1) - p - 1 \in Nat
           /\ SubSeq(U, p + 1, NumberEnd(U, p + 1) - 1) \in Text
           /\ DollarTag(U, p) # <<>> => DollarTag(U, p) \in Text /\ Len(DollarTag(U, p)) - 1 \in Nat
                                        /\ Len(DollarTag(U, p)) # 0
<1> DEFINE n == Len(U)
           j == p + 1
           e == NumberEnd(U, j)
           f == IdentifierEnd(U, j)
           tag == DollarTag(U, p)
<1>1. n \in Nat /\ p \in Nat
  <2>1. n \in Nat
    BY AtFacts
  <2>2. \A k \in 1 .. n : k \in Nat
    BY ONLY <2>1
  <2> QED
    BY <2>1, <2>2
<1>2. j \in Nat \ {0} /\ j <= n + 1
  BY <1>1
<1>3. e \in Nat /\ j <= e /\ e <= n + 1
  BY <1>2, NumberEndFacts
<1>4. f \in Nat /\ j <= f
  BY <1>2, IdentifierEndFacts
<1>5. tag # <<>> => tag \in Text /\ Len(tag) \in Nat /\ Len(tag) >= 2
  BY DollarTagFacts
<1> HIDE DEF n, e, f, tag
<1>6. e - 1 \in Nat /\ e - 1 <= n /\ j <= (e - 1) + 1
  BY ONLY <1>1, <1>2, <1>3
<1>7. SubSeq(U, j, e - 1) \in Text
  BY <1>2, <1>6, SubSeqFacts DEF n
<1>8. e - p - 1 \in Nat /\ f - p - 1 \in Nat
  BY <1>1, <1>3, <1>4
<1>9. tag # <<>> => tag \in Text /\ Len(tag) - 1 \in Nat /\ Len(tag) # 0
  BY <1>5
<1> QED
  BY <1>7, <1>8, <1>9 DEF e, f, tag

(* One character in live SQL makes a reader of a reader. *)
LEMMA InSqlType ==
    ASSUME NEW U \in Text, NEW p \in 1 .. Len(U), NEW z, IsReader(z), z.mode = "sql"
    PROVE  IsReader(InSql(U, p, z)) /\ (z.odd => InSql(U, p, z).odd)
<1> DEFINE tag == DollarTag(U, p)
           a == NumberEnd(U, p + 1) - p - 1
           b == IdentifierEnd(U, p + 1) - p - 1
           w == SubSeq(U, p + 1, NumberEnd(U, p + 1) - 1)
           plain == [z EXCEPT !.word = ""]
           c == U[p]
           d == At(U, p + 1)
           x == InSql(U, p, z)
<1>1. a \in Nat /\ b \in Nat /\ w \in Text /\ (tag # <<>> => tag \in Text /\ Len(tag) - 1 \in Nat /\ Len(tag) # 0)
  BY EndsFacts
<1>2. x = CASE c = "-" /\ d = "-" -> [plain EXCEPT !.mode = "line"]
           [] c = "/" /\ d = "*" -> [plain EXCEPT !.mode = "block", !.depth = 1, !.skip = 1]
           [] c = "E" /\ d = "'" /\ z.word = "" -> [plain EXCEPT !.mode = "escape", !.skip = 1]
           [] c = "'" -> [plain EXCEPT !.mode = "string"]
           [] c = "q" -> [plain EXCEPT !.mode = "name"]
           [] c = "$" /\ z.word = "identifier" -> [z EXCEPT !.odd = TRUE]
           [] c = "$" /\ z.word # "identifier" /\ tag # <<>> ->
                [plain EXCEPT !.mode = "dollar", !.tag = tag, !.skip = Len(tag) - 1]
           [] c = "$" /\ z.word # "identifier" /\ d \in DIGIT ->
                [z EXCEPT !.word = "number", !.skip = a, !.placeholders = Append(@, w)]
           [] c = "$" /\ z.word # "identifier" /\ tag = <<>> /\ d \notin DIGIT -> [plain EXCEPT !.odd = TRUE]
           [] c = ":" /\ d = ":" -> [plain EXCEPT !.skip = 1]
           [] c = ":" /\ d \in IDENTIFIER_START ->
                [plain EXCEPT !.references = @ + 1, !.skip = b, !.odd = @ \/ z.word = "identifier"]
           [] c \in IDENTIFIER_START /\ ~(c = "E" /\ d = "'" /\ z.word = "") -> [z EXCEPT !.word = "identifier"]
           [] c \in DIGIT -> [z EXCEPT !.word = IF @ = "" THEN "number" ELSE @]
           [] OTHER -> plain
  BY DEF InSql
<1> HIDE DEF tag, a, b, w, c, d, x
<1>3. Append(z.placeholders, w) \in Seq(Text)
  <2>1. z.placeholders \in Seq(Text)
    BY DEF IsReader, Readers
  <2> QED
    BY <1>1, <2>1
<1>4. IsReader(plain) /\ (z.odd => plain.odd)
  BY DEF IsReader, Readers, Modes
<1> DEFINE Ok(y) == IsReader(y) /\ (z.odd => y.odd)
           one == 1
           more == z.references + 1
           longer == Append(z.placeholders, w)
<1>5. one \in Nat /\ one # 0
  OBVIOUS
<1>6. more \in Nat
  <2>1. z.references \in Nat
    BY DEF IsReader, Readers
  <2> QED
    BY ONLY <2>1
<1> HIDE DEF one, more, longer
<1>7. /\ Ok([plain EXCEPT !.mode = "line"])
      /\ Ok([plain EXCEPT !.mode = "block", !.depth = one, !.skip = one])
      /\ Ok([plain EXCEPT !.mode = "escape", !.skip = one])
      /\ Ok([plain EXCEPT !.mode = "string"])
      /\ Ok([plain EXCEPT !.mode = "name"])
  BY <1>5 DEF IsReader, Readers, Modes
<1>8. /\ Ok([z EXCEPT !.odd = TRUE])
      /\ Ok([plain EXCEPT !.odd = TRUE])
      /\ Ok([plain EXCEPT !.skip = one])
  BY <1>5 DEF IsReader, Readers, Modes
<1>9. /\ Ok([z EXCEPT !.word = "identifier"])
      /\ Ok([z EXCEPT !.word = IF @ = "" THEN "number" ELSE @])
  BY DEF IsReader, Readers, Modes
<1>10. tag # <<>> => Ok([plain EXCEPT !.mode = "dollar", !.tag = tag, !.skip = Len(tag) - 1])
  BY <1>1 DEF IsReader, Readers, Modes
<1>11. Ok([z EXCEPT !.word = "number", !.skip = a, !.placeholders = longer])
  BY <1>1, <1>3 DEF IsReader, Readers, Modes, longer
<1>12. Ok([plain EXCEPT !.references = more, !.skip = b, !.odd = z.odd \/ z.word = "identifier"])
  BY <1>1, <1>6 DEF IsReader, Readers, Modes
<1>13. /\ plain.references = z.references /\ plain.odd = z.odd
  BY DEF IsReader, Readers
<1> HIDE DEF Ok
<1>14. Ok(plain)
  BY <1>4 DEF Ok
<1>15. Ok(x)
  BY <1>2, <1>13, <1>7, <1>8, <1>9, <1>10, <1>11, <1>12, <1>14 DEF one, more, longer
<1> QED
  BY <1>15 DEF Ok, x

(* So does a character anywhere. *)
LEMMA ReadType ==
    ASSUME NEW U \in Text, NEW p \in 1 .. Len(U), NEW z, IsReader(z)
    PROVE  IsReader(Read(U, p, z)) /\ (z.odd => Read(U, p, z).odd)
<1> DEFINE x == Read(U, p, z)
           Ok(y) == IsReader(y) /\ (z.odd => y.odd)
<1>0. z.skip \in Nat
  BY DEF IsReader, Readers
<1>1. CASE z.skip > 0
  <2>1. x = [z EXCEPT !.skip = z.skip - 1]
    BY <1>1 DEF Read
  <2> DEFINE less == z.skip - 1
  <2>3. less \in Nat
    BY ONLY <1>0, <1>1
  <2> HIDE DEF less
  <2>2. Ok([z EXCEPT !.skip = less])
    BY <2>3 DEF IsReader, Readers, Modes
  <2> QED
    BY <2>1, <2>2 DEF less
<1>2. CASE z.skip = 0
  <2>0. z.mode \in Modes /\ ~(z.skip > 0)
    <3>1. z.mode \in Modes
      BY DEF IsReader, Readers
    <3>2. ~(z.skip > 0)
      BY ONLY <1>2
    <3> QED
      BY <3>1, <3>2
  <2>1. Ok(z) /\ Ok([z EXCEPT !.mode = "sql"]) /\ Ok([z EXCEPT !.skip = 1])
    BY DEF IsReader, Readers, Modes
  <2>2. ASSUME NEW quote PROVE Ok(InQuotes(U, p, z, quote))
    BY <2>1 DEF InQuotes
  <2>3. CASE z.mode = "sql"
    <3>1. x = InSql(U, p, z)
      BY <1>2, <2>0, <2>3 DEF Read
    <3> QED
      BY <2>3, <3>1, InSqlType
  <2>4. CASE z.mode = "line"
    <3>1. x = z \/ x = [z EXCEPT !.mode = "sql"]
      BY <1>2, <2>0, <2>4 DEF Read
    <3> QED
      BY <2>1, <3>1
  <2>5. CASE z.mode = "block"
    <3>1. \/ x = z
          \/ x = [z EXCEPT !.depth = z.depth + 1, !.skip = 1]
          \/ z.depth # 1 /\ x = [z EXCEPT !.depth = z.depth - 1, !.skip = 1]
          \/ x = [z EXCEPT !.depth = z.depth - 1, !.skip = 1, !.mode = "sql"]
      <4>1. z.depth # 1 => [z EXCEPT !.depth = z.depth - 1, !.skip = 1, !.mode = z.mode]
                           = [z EXCEPT !.depth = z.depth - 1, !.skip = 1]
        BY DEF IsReader, Readers
      <4> QED
        BY <1>2, <2>0, <2>5, <4>1 DEF Read
    <3> DEFINE more == z.depth + 1
               less == z.depth - 1
               one == 1
    <3>2. z.depth \in Nat /\ z.depth # 0
      BY <2>5 DEF IsReader, Readers
    <3>3. more \in Nat /\ more # 0 /\ less \in Nat /\ (z.depth # 1 => less # 0) /\ one \in Nat
      BY ONLY <3>2
    <3> HIDE DEF more, less, one
    <3>4. Ok([z EXCEPT !.depth = more, !.skip = one])
      BY <3>3 DEF IsReader, Readers, Modes
    <3>5. z.depth # 1 => Ok([z EXCEPT !.depth = less, !.skip = one])
      BY <3>3 DEF IsReader, Readers, Modes
    <3>6. Ok([z EXCEPT !.depth = less, !.skip = one, !.mode = "sql"])
      BY <3>3 DEF IsReader, Readers, Modes
    <3> QED
      BY <2>1, <3>1, <3>4, <3>5, <3>6 DEF more, less, one
  <2>6. CASE z.mode \in {"string", "name"}
    <3>1. x = InQuotes(U, p, z, "'") \/ x = InQuotes(U, p, z, "q")
      BY <1>2, <2>0, <2>6 DEF Read
    <3> QED
      BY <2>2, <3>1
  <2>7. CASE z.mode = "escape"
    <3>1. x = [z EXCEPT !.skip = 1] \/ x = InQuotes(U, p, z, "'")
      BY <1>2, <2>0, <2>7 DEF Read
    <3> QED
      BY <2>1, <2>2, <3>1
  <2>8. CASE z.mode = "dollar"
    <3>1. x = z \/ x = [z EXCEPT !.skip = Len(z.tag) - 1, !.mode = "sql"]
      BY <1>2, <2>0, <2>8 DEF Read
    <3> DEFINE less == Len(z.tag) - 1
    <3>2. z.tag \in Text /\ Len(z.tag) # 0
      BY <2>8 DEF IsReader, Readers
    <3>3. Len(z.tag) \in Nat
      BY <3>2, AtFacts
    <3>4. less \in Nat
      BY ONLY <3>2, <3>3
    <3> HIDE DEF less
    <3>5. Ok([z EXCEPT !.skip = less, !.mode = "sql"])
      BY <3>4 DEF IsReader, Readers, Modes
    <3> QED
      BY <2>1, <3>1, <3>5 DEF less
  <2> QED
    BY <2>0, <2>3, <2>4, <2>5, <2>6, <2>7, <2>8 DEF Modes
<1>3. z.skip > 0 \/ z.skip = 0
  BY ONLY <1>0
<1> QED
  BY <1>1, <1>2, <1>3

(* PostgreSQL reads a text one character after the other. *)
LEMMA ReaderUnfolds ==
    ASSUME NEW U \in Text
    PROVE  /\ ReaderAfter(U)[0] = Ground
           /\ \A p \in 1 .. Len(U) : ReaderAfter(U)[p] = Read(U, p, ReaderAfter(U)[p - 1])
           /\ \A p \in 0 .. Len(U) : IsReader(ReaderAfter(U)[p])
<1> DEFINE n == Len(U)
           S == {z \in Readers : IsReader(z)}
           F == [p \in 1 .. n |-> [z \in S |-> Read(U, p, z)]]
           Body(f, p) == IF p = 0 THEN Ground ELSE Read(U, p, f[p - 1])
           A == CHOOSE f : f = [p \in 0 .. n |-> Body(f, p)]
<1>1. ReaderAfter(U) = A
  BY DEF ReaderAfter
<1>2. n \in Nat
  BY AtFacts
<1>3. Ground \in S
  <2> DEFINE z == 0
             e == <<>>
  <2>1. z \in Nat /\ e \in Text /\ e \in Seq(Text)
    BY DEF Text
  <2> HIDE DEF z, e
  <2>2. [mode |-> "sql", depth |-> z, tag |-> e, skip |-> z, word |-> "",
         placeholders |-> e, references |-> z, odd |-> FALSE] \in S
    BY <2>1 DEF IsReader, Readers, Modes
  <2> QED
    BY <2>2 DEF Ground, z, e
<1>4. \A z : z \in S <=> IsReader(z)
  BY DEF IsReader
<1>5. \A p \in 1 .. n : \A z \in S : Read(U, p, z) \in S
  BY <1>4, ReadType
<1> HIDE DEF S
<1>6. \A p \in 1 .. n : \A z \in S : F[p][z] = Read(U, p, z)
  OBVIOUS
<1> HIDE DEF F, n
<1>7. Iterations(n, S, Ground, F) # {}
  <2>1. \A p \in 1 .. n : \A z \in S : F[p][z] \in S
    BY <1>5, <1>6
  <2> QED
    BY <1>2, <1>3, <2>1, IterationExists
<1>8. PICK h \in [0 .. n -> S] : h[0] = Ground /\ \A p \in 1 .. n : h[p] = F[p][h[p - 1]]
  BY <1>7 DEF Iterations
<1>9. h = [p \in 0 .. n |-> Body(h, p)]
  <2>1. ASSUME NEW p \in 0 .. n PROVE h[p] = Body(h, p)
    <3>1. CASE p = 0
      BY <1>8, <3>1
    <3>2. CASE p # 0
      <4>1. p \in 1 .. n /\ p - 1 \in 0 .. n
        BY <1>2, <3>2
      <4>2. h[p - 1] \in S
        BY <4>1
      <4> QED
        BY <1>6, <1>8, <3>2, <4>1, <4>2
    <3> QED
      BY <3>1, <3>2
  <2> QED
    BY <2>1
<1>10. A = [p \in 0 .. n |-> Body(A, p)]
  BY <1>9
<1> HIDE DEF A
<1>11. \A p \in 0 .. n : A[p] = Body(A, p)
  BY <1>10
<1>12. A[0] = Ground /\ \A p \in 1 .. n : A[p] = Read(U, p, A[p - 1])
  <2>1. 0 \in 0 .. n /\ \A p \in 1 .. n : p \in 0 .. n /\ p # 0
    BY <1>2
  <2> QED
    BY <1>11, <2>1
<1>13. \A p \in 0 .. n : A[p] \in S
  <2> DEFINE D == {p \in 0 .. n : A[p] \in S}
  <2>1. 0 \in D
    BY <1>2, <1>3, <1>12
  <2>2. ASSUME NEW p \in 0 .. n - 1, p \in D PROVE p + 1 \in D
    <3>1. p + 1 \in 1 .. n /\ p + 1 \in 0 .. n /\ (p + 1) - 1 = p
      BY <1>2
    <3> QED
      BY <1>5, <1>12, <2>2, <3>1
  <2> HIDE DEF D
  <2>3. \A p \in 0 .. n : p \in D
    BY <1>2, <2>1, <2>2, Induction
  <2> QED
    BY <2>3 DEF D
<1> QED
  BY <1>1, <1>4, <1>12, <1>13 DEF n

(* Once odd, a reader stays so. *)
LEMMA OddStays ==
    ASSUME NEW U \in Text, NEW p \in 0 .. Len(U), ReaderAfter(U)[p].odd
    PROVE  PostgresReads(U).odd
<1> DEFINE n == Len(U)
           A == ReaderAfter(U)
           m == n - p
           D == {d \in 0 .. m : A[p + d].odd}
<1>1. n \in Nat
  BY AtFacts
<1>2. (\A q \in 1 .. n : A[q] = Read(U, q, A[q - 1])) /\ \A q \in 0 .. n : IsReader(A[q])
  BY ReaderUnfolds
<1>3. p \in 0 .. n
  OBVIOUS
<1> HIDE DEF n, A
<1>4. m \in Nat /\ p + m = n /\ 0 \in 0 .. m /\ p + 0 = p
  BY ONLY <1>1, <1>3
<1>5. 0 \in D
  BY <1>4 DEF A
<1>6. ASSUME NEW d \in 0 .. m - 1, d \in D PROVE d + 1 \in D
  <2>1. /\ p + (d + 1) \in 1 .. n /\ p + d \in 0 .. n /\ d + 1 \in 0 .. m /\ p + (d + 1) - 1 = p + d
    BY ONLY <1>1, <1>3, <1>6
  <2>2. A[p + (d + 1)] = Read(U, p + (d + 1), A[p + d])
    BY <1>2, <2>1
  <2>3. A[p + d].odd
    BY <1>6
  <2>4. Read(U, p + (d + 1), A[p + d]).odd
    BY <1>2, <2>1, <2>3, ReadType DEF n
  <2> QED
    BY <2>1, <2>2, <2>4
<1> HIDE DEF D, m
<1>7. m \in D
  <2>1. \A d \in 0 .. m : d \in D
    BY <1>4, <1>5, <1>6, Induction
  <2> QED
    BY ONLY <1>4, <2>1
<1>8. A[n].odd
  BY <1>4, <1>7 DEF D
<1> QED
  BY <1>8 DEF PostgresReads, A, n

(* What is skipped changes nothing but how much is left to skip. *)
LEMMA Skipping ==
    ASSUME NEW U \in Text, NEW p \in 0 .. Len(U), NEW m \in Nat, ReaderAfter(U)[p].skip = m,
           NEW d \in 0 .. m, p + d <= Len(U)
    PROVE  ReaderAfter(U)[p + d] = [ReaderAfter(U)[p] EXCEPT !.skip = m - d]
<1> DEFINE n == Len(U)
           A == ReaderAfter(U)
           z == A[p]
           D == {b \in 0 .. d : A[p + b] = [z EXCEPT !.skip = m - b]}
<1>1. n \in Nat /\ p \in 0 .. n /\ p + d <= n
  BY AtFacts
<1>2. (\A q \in 1 .. n : A[q] = Read(U, q, A[q - 1])) /\ \A q \in 0 .. n : IsReader(A[q])
  BY ReaderUnfolds
<1>3. z.skip = m
  OBVIOUS
<1> HIDE DEF n, A
<1>4. p + 0 = p /\ m - 0 = m /\ 0 \in 0 .. d
  BY <1>1
<1>5. 0 \in D
  <2>1. z \in Readers
    BY <1>1, <1>2 DEF IsReader
  <2> HIDE DEF z
  <2>2. z = [z EXCEPT !.skip = m]
    BY <1>3, <2>1 DEF Readers
  <2> QED
    BY <1>4, <2>2 DEF z
<1>6. ASSUME NEW b \in 0 .. d - 1, b \in D PROVE b + 1 \in D
  <2>1. /\ p + (b + 1) \in 1 .. n /\ p + b \in 0 .. n /\ b + 1 \in 0 .. d /\ p + (b + 1) - 1 = p + b
        /\ m - b > 0 /\ (m - b) - 1 = m - (b + 1)
    BY <1>1
  <2>2. A[p + (b + 1)] = Read(U, p + (b + 1), A[p + b])
    BY <1>2, <2>1
  <2>3. A[p + b] = [z EXCEPT !.skip = m - b]
    BY <1>6
  <2>4. z \in Readers
    BY <1>1, <1>2 DEF IsReader
  <2> DEFINE y == [z EXCEPT !.skip = m - b]
  <2> HIDE DEF z
  <2>5. y.skip = m - b
    BY <2>4 DEF Readers
  <2>6. Read(U, p + (b + 1), y) = [y EXCEPT !.skip = y.skip - 1]
    BY <2>1, <2>5 DEF Read
  <2>7. [y EXCEPT !.skip = (m - b) - 1] = [z EXCEPT !.skip = (m - b) - 1]
    BY <2>4 DEF Readers
  <2> HIDE DEF y
  <2> QED
    BY <2>1, <2>2, <2>3, <2>5, <2>6, <2>7 DEF y
<1> HIDE DEF D
<1>7. \A b \in 0 .. d : b \in D
  <2>1. d \in Nat
    OBVIOUS
  <2> QED
    BY <1>5, <1>6, <2>1, Induction
<1>8. d \in D
  <2>1. d \in 0 .. d
    OBVIOUS
  <2> QED
    BY <1>7, <2>1
<1> QED
  BY <1>8 DEF D, A, z

-----------------------------------------------------------------------------
(* One character in live SQL.                                              *)

(* What one character does: c is read, d and a dollar tag may follow. *)
SqlEffect(U, p, z, x, c, d, tag) ==
    /\ c = "-" /\ d = "-" => x.mode = "line" /\ x.skip = 0 /\ x.word = "" /\ Kept(z, x)
    /\ c = "/" /\ d = "*" =>
          x.mode = "block" /\ x.depth = 1 /\ x.skip = 1 /\ x.word = "" /\ Kept(z, x)
    /\ c = "E" /\ d = "'" /\ z.word = "" =>
          x.mode = "escape" /\ x.skip = 1 /\ x.word = "" /\ Kept(z, x)
    /\ c = "'" => x.mode = "string" /\ x.skip = 0 /\ x.word = "" /\ Kept(z, x)
    /\ c = "q" => x.mode = "name" /\ x.skip = 0 /\ x.word = "" /\ Kept(z, x)
    /\ c = "$" /\ (z.word = "identifier" \/ (tag = <<>> /\ d \notin DIGIT)) => x.odd
    /\ c = "$" /\ z.word # "identifier" /\ tag # <<>> =>
          x.mode = "dollar" /\ x.tag = tag /\ x.skip = Len(tag) - 1 /\ x.word = "" /\ Kept(z, x)
    /\ c = "$" /\ z.word # "identifier" /\ d \in DIGIT =>
          /\ x.mode = "sql" /\ x.skip = NumberEnd(U, p + 1) - p - 1 /\ x.word = "number"
          /\ x.placeholders = Append(z.placeholders, SubSeq(U, p + 1, NumberEnd(U, p + 1) - 1))
          /\ x.references = z.references
    /\ c = ":" /\ d = ":" => x.mode = "sql" /\ x.skip = 1 /\ x.word = "" /\ Kept(z, x)
    /\ c = ":" /\ d \in IDENTIFIER_START =>
          /\ x.mode = "sql" /\ x.skip = IdentifierEnd(U, p + 1) - p - 1 /\ x.word = ""
          /\ z.word = "identifier" => x.odd
    /\ c \in IDENTIFIER_START /\ ~(c = "E" /\ d = "'" /\ z.word = "") =>
          x.mode = "sql" /\ x.skip = 0 /\ x.word = "identifier" /\ Kept(z, x)
    /\ c \in DIGIT =>
          /\ x.mode = "sql" /\ x.skip = 0 /\ Kept(z, x)
          /\ x.word = IF z.word = "" THEN "number" ELSE z.word
    /\ (/\ ~(c = "-" /\ d = "-") /\ ~(c = "/" /\ d = "*") /\ c \notin {"'", "q", "$"}
        /\ ~(c = ":" /\ (d = ":" \/ d \in IDENTIFIER_START)) /\ c \notin IDENTIFIER_PART) =>
          x.mode = "sql" /\ x.skip = 0 /\ x.word = "" /\ Kept(z, x)

(* That is what one character does. *)
LEMMA ReadInSql ==
    ASSUME NEW U \in Text, NEW p \in 1 .. Len(U), NEW z, IsReader(z), z.mode = "sql", z.skip = 0,
           NEW x, x = Read(U, p, z), NEW c, c = U[p], NEW d, d = At(U, p + 1), NEW tag, tag = DollarTag(U, p)
    PROVE  SqlEffect(U, p, z, x, c, d, tag)
<1> DEFINE a == NumberEnd(U, p + 1) - p - 1
           b == IdentifierEnd(U, p + 1) - p - 1
           w == SubSeq(U, p + 1, NumberEnd(U, p + 1) - 1)
           plain == [z EXCEPT !.word = ""]
           one == 1
           m == Len(tag) - 1
<1>1. x = InSql(U, p, z)
  <2>1. ~(z.skip > 0)
    <3>1. z.skip = 0
      OBVIOUS
    <3> QED
      BY ONLY <3>1
  <2> QED
    BY <2>1 DEF Read
<1>2. x = CASE c = "-" /\ d = "-" -> [plain EXCEPT !.mode = "line"]
           [] c = "/" /\ d = "*" -> [plain EXCEPT !.mode = "block", !.depth = one, !.skip = one]
           [] c = "E" /\ d = "'" /\ z.word = "" -> [plain EXCEPT !.mode = "escape", !.skip = one]
           [] c = "'" -> [plain EXCEPT !.mode = "string"]
           [] c = "q" -> [plain EXCEPT !.mode = "name"]
           [] c = "$" /\ z.word = "identifier" -> [z EXCEPT !.odd = TRUE]
           [] c = "$" /\ z.word # "identifier" /\ tag # <<>> ->
                [plain EXCEPT !.mode = "dollar", !.tag = tag, !.skip = m]
           [] c = "$" /\ z.word # "identifier" /\ d \in DIGIT ->
                [z EXCEPT !.word = "number", !.skip = a, !.placeholders = Append(@, w)]
           [] c = "$" /\ z.word # "identifier" /\ tag = <<>> /\ d \notin DIGIT -> [plain EXCEPT !.odd = TRUE]
           [] c = ":" /\ d = ":" -> [plain EXCEPT !.skip = one]
           [] c = ":" /\ d \in IDENTIFIER_START ->
                [plain EXCEPT !.references = @ + 1, !.skip = b, !.odd = @ \/ z.word = "identifier"]
           [] c \in IDENTIFIER_START /\ ~(c = "E" /\ d = "'" /\ z.word = "") -> [z EXCEPT !.word = "identifier"]
           [] c \in DIGIT -> [z EXCEPT !.word = IF @ = "" THEN "number" ELSE @]
           [] OTHER -> plain
  BY <1>1 DEF InSql
<1>3. tag # <<>> => d \notin DIGIT
  BY DEF DollarTag, DIGIT, IDENTIFIER_START
<1>4. z \in Readers
  BY DEF IsReader
<1>5. /\ IDENTIFIER_START = {"a", "b", "E"} /\ IDENTIFIER_PART = IDENTIFIER_START \cup DIGIT
      /\ {"-", "/", "'", "q", "$", ":"} \cap IDENTIFIER_PART = {} /\ IDENTIFIER_START \cap DIGIT = {}
  BY DEF IDENTIFIER_PART, IDENTIFIER_START, DIGIT
<1>6. \A u \in Readers : /\ [u EXCEPT !.word = ""] \in Readers /\ [u EXCEPT !.word = ""].word = ""
                        /\ [u EXCEPT !.word = ""].mode = u.mode /\ [u EXCEPT !.word = ""].skip = u.skip
                        /\ Kept(u, [u EXCEPT !.word = ""]) /\ [u EXCEPT !.word = ""].odd = u.odd
  BY DEF Readers, Kept
<1>7. /\ plain \in Readers /\ plain.word = "" /\ plain.mode = "sql" /\ plain.skip = 0
      /\ Kept(z, plain) /\ plain.odd = z.odd
  BY <1>4, <1>6
<1> DEFINE y == plain
<1> HIDE DEF a, b, w, one, m, y
<1> USE <1>3, <1>4, <1>5
<1>8. ASSUME c = "-" /\ d = "-" PROVE x.mode = "line" /\ x.skip = 0 /\ x.word = "" /\ Kept(z, x)
  <2>1. x = [y EXCEPT !.mode = "line"]
    BY <1>2, <1>8 DEF y
  <2> QED
    BY <1>7, <2>1 DEF Readers, Kept, y
<1>9. ASSUME c = "/" /\ d = "*" PROVE x.mode = "block" /\ x.depth = one /\ x.skip = one /\ x.word = "" /\ Kept(z, x)
  <2>1. x = [y EXCEPT !.mode = "block", !.depth = one, !.skip = one]
    BY <1>2, <1>9 DEF y
  <2> QED
    BY <1>7, <2>1 DEF Readers, Kept, y
<1>10. ASSUME c = "E" /\ d = "'" /\ z.word = "" PROVE x.mode = "escape" /\ x.skip = one /\ x.word = "" /\ Kept(z, x)
  <2>1. x = [y EXCEPT !.mode = "escape", !.skip = one]
    BY <1>2, <1>10 DEF y
  <2> QED
    BY <1>7, <2>1 DEF Readers, Kept, y
<1>11. ASSUME c = "'" PROVE x.mode = "string" /\ x.skip = 0 /\ x.word = "" /\ Kept(z, x)
  <2>1. x = [y EXCEPT !.mode = "string"]
    BY <1>2, <1>11 DEF y
  <2> QED
    BY <1>7, <2>1 DEF Readers, Kept, y
<1>12. ASSUME c = "q" PROVE x.mode = "name" /\ x.skip = 0 /\ x.word = "" /\ Kept(z, x)
  <2>1. x = [y EXCEPT !.mode = "name"]
    BY <1>2, <1>12 DEF y
  <2> QED
    BY <1>7, <2>1 DEF Readers, Kept, y
<1>13. ASSUME c = "$" /\ z.word = "identifier" PROVE x.odd
  <2>1. x = [z EXCEPT !.odd = TRUE]
    BY <1>2, <1>13 DEF y
  <2> QED
    BY <1>7, <2>1 DEF Readers, Kept, y
<1>14. ASSUME c = "$" /\ z.word # "identifier" /\ tag = <<>> /\ d \notin DIGIT PROVE x.odd
  <2>1. x = [y EXCEPT !.odd = TRUE]
    BY <1>2, <1>14 DEF y
  <2> QED
    BY <1>7, <2>1 DEF Readers, Kept, y
<1>15. ASSUME c = "$" /\ z.word # "identifier" /\ tag # <<>>
       PROVE  x.mode = "dollar" /\ x.tag = tag /\ x.skip = m /\ x.word = "" /\ Kept(z, x)
  <2>1. x = [y EXCEPT !.mode = "dollar", !.tag = tag, !.skip = m]
    BY <1>2, <1>15 DEF y
  <2> QED
    BY <1>7, <2>1 DEF Readers, Kept, y
<1>16. ASSUME c = "$" /\ z.word # "identifier" /\ d \in DIGIT
       PROVE  /\ x.mode = "sql" /\ x.skip = a /\ x.word = "number"
              /\ x.placeholders = Append(z.placeholders, w) /\ x.references = z.references
  <2>1. x = [z EXCEPT !.word = "number", !.skip = a, !.placeholders = Append(z.placeholders, w)]
    BY <1>2, <1>16 DEF y
  <2> QED
    BY <1>7, <2>1 DEF Readers, Kept, y
<1>17. ASSUME c = ":" /\ d = ":" PROVE x.mode = "sql" /\ x.skip = one /\ x.word = "" /\ Kept(z, x)
  <2>1. x = [y EXCEPT !.skip = one]
    BY <1>2, <1>17 DEF y
  <2> QED
    BY <1>7, <2>1 DEF Readers, Kept, y
<1>18. ASSUME c = ":" /\ d \in IDENTIFIER_START
       PROVE  x.mode = "sql" /\ x.skip = b /\ x.word = "" /\ (z.word = "identifier" => x.odd)
  <2>1. x = [y EXCEPT !.references = @ + 1, !.skip = b, !.odd = y.odd \/ z.word = "identifier"]
    BY <1>2, <1>18 DEF y
  <2> QED
    BY <1>7, <2>1 DEF Readers, Kept, y
<1>19. ASSUME c \in IDENTIFIER_START /\ ~(c = "E" /\ d = "'" /\ z.word = "")
       PROVE  x.mode = "sql" /\ x.skip = 0 /\ x.word = "identifier" /\ Kept(z, x)
  <2>1. x = [z EXCEPT !.word = "identifier"]
    BY <1>2, <1>19 DEF y
  <2> QED
    BY <1>7, <2>1 DEF Readers, Kept, y
<1>20. ASSUME c \in DIGIT
       PROVE  x.mode = "sql" /\ x.skip = 0 /\ Kept(z, x) /\ x.word = IF z.word = "" THEN "number" ELSE z.word
  <2>1. x = [z EXCEPT !.word = IF z.word = "" THEN "number" ELSE z.word]
    BY <1>2, <1>20 DEF y
  <2> QED
    BY <1>7, <2>1 DEF Readers, Kept, y
<1>21. ASSUME /\ ~(c = "-" /\ d = "-") /\ ~(c = "/" /\ d = "*") /\ c \notin {"'", "q", "$"}
              /\ ~(c = ":" /\ (d = ":" \/ d \in IDENTIFIER_START)) /\ c \notin IDENTIFIER_PART
       PROVE  x.mode = "sql" /\ x.skip = 0 /\ x.word = "" /\ Kept(z, x)
  <2>1. x = y
    BY <1>2, <1>21 DEF y
  <2> QED
    BY <1>7, <2>1 DEF Readers, Kept, y
<1> QED
  BY <1>8, <1>9, <1>10, <1>11, <1>12, <1>13, <1>14, <1>15, <1>16, <1>17, <1>18, <1>19, <1>20, <1>21
     DEF a, b, w, one, m, SqlEffect

-----------------------------------------------------------------------------
(* A part of the statement, and a text with the same part elsewhere: the    *)
(* reader sees the same there, but for a placeholder that may follow.       *)

Reference(k) == At(statement, k) = ":" /\ At(statement, k + 1) \in IDENTIFIER_START

Same(U, e, i, q) ==
    /\ U \in Text /\ e \in Int /\ i \in Nat \ {0} /\ q \in Nat /\ i <= q /\ q <= Len(statement) + 1
    /\ i + e >= 1 /\ q + e <= Len(U) + 1
    /\ \A k \in i .. q - 1 : U[k + e] = statement[k]
    /\ At(U, q + e) = At(statement, q) \/ (Reference(q) /\ At(U, q + e) = "$")

(* What Same says about each place, and about the one behind the part. *)
LEMMA SameFacts ==
    ASSUME statement \in Text, NEW U, NEW e, NEW i, NEW q, Same(U, e, i, q)
    PROVE  /\ i + e - 1 \in 0 .. Len(U) /\ q + e - 1 \in 0 .. Len(U) /\ U \in Text /\ Len(U) \in Nat
           /\ e \in Int /\ i \in Nat \ {0} /\ q \in Nat /\ i <= q /\ q <= Len(statement) + 1
           /\ q = Len(statement) + 1 => q + e = Len(U) + 1
           /\ i + e >= 1 /\ q + e <= Len(U) + 1
           /\ \A k \in i .. q - 1 : k \in 1 .. Len(statement) /\ At(statement, k) = statement[k]
           /\ \A k \in i .. q - 1 :
                 /\ k + e \in 1 .. Len(U) /\ U[k + e] = statement[k]
                 /\ \/ At(U, k + e + 1) = At(statement, k + 1)
                    \/ k + 1 = q /\ Reference(q) /\ At(U, k + e + 1) = "$"
<1> DEFINE n == Len(statement)
           m == Len(U)
<1>1. /\ U \in Text /\ e \in Int /\ i \in Nat \ {0} /\ q \in Nat /\ i <= q /\ q <= n + 1
      /\ i + e >= 1 /\ q + e <= m + 1
      /\ \A k \in i .. q - 1 : U[k + e] = statement[k]
      /\ At(U, q + e) = At(statement, q) \/ (Reference(q) /\ At(U, q + e) = "$")
  BY DEF Same
<1>2. n \in Nat /\ m \in Nat
  BY <1>1, AtFacts
<1> HIDE DEF n, m
<1>3. i + e - 1 \in 0 .. m /\ q + e - 1 \in 0 .. m /\ q + e \in Int
  BY <1>1, <1>2
<1>4. \A k \in i .. q - 1 : k \in 1 .. n /\ k + e \in 1 .. m
  BY <1>1, <1>2
<1>5. q = n + 1 => q + e = m + 1
  <2> SUFFICES ASSUME q = n + 1
               PROVE  ~(q + e \in 1 .. m)
    BY <1>1, <1>2, <1>3
  <2>1. q \notin 1 .. n
    BY <1>2
  <2>2. At(statement, q) = ""
    BY <2>1, AtFacts DEF n
  <2>3. At(U, q + e) = ""
    <3>1. "" # ":"
      OBVIOUS
    <3> QED
      BY <1>1, <2>2, <3>1 DEF Reference
  <2>4. \A k \in 1 .. m : At(U, k) = U[k] /\ U[k] # ""
    BY <1>1, AtFacts DEF m
  <2> QED
    BY <2>3, <2>4
<1>6. ASSUME NEW k \in i .. q - 1
      PROVE  /\ At(statement, k) = statement[k]
             /\ \/ At(U, k + e + 1) = At(statement, k + 1)
                \/ k + 1 = q /\ Reference(q) /\ At(U, k + e + 1) = "$"
  <2>1. k \in 1 .. n
    BY <1>4
  <2>2. At(statement, k) = statement[k]
    BY <2>1, AtFacts DEF n
  <2>3. CASE k + 1 = q
    <3>1. k + e + 1 = q + e
      BY <1>1, <2>3
    <3> QED
      BY <1>1, <2>2, <2>3, <3>1
  <2>4. CASE k + 1 # q
    <3>1. k + 1 \in i .. q - 1 /\ k + e + 1 = (k + 1) + e
      BY <1>1, <2>4
    <3>2. k + 1 \in 1 .. n /\ (k + 1) + e \in 1 .. m
      BY <1>4, <3>1
    <3>3. At(statement, k + 1) = statement[k + 1]
      BY <3>2, AtFacts DEF n
    <3>4. At(U, (k + 1) + e) = U[(k + 1) + e]
      BY <1>1, <3>2, AtFacts DEF m
    <3>5. U[(k + 1) + e] = statement[k + 1]
      BY <1>1, <3>1
    <3> QED
      BY <2>2, <3>1, <3>3, <3>4, <3>5
  <2> QED
    BY <2>3, <2>4
<1> QED
  BY <1>1, <1>2, <1>3, <1>4, <1>5, <1>6 DEF n, m

(* What follows the place of k. *)
Ahead(U, e, k, q) ==
    \/ At(U, k + e + 1) = At(statement, k + 1)
    \/ k + 1 = q /\ Reference(q) /\ At(U, k + e + 1) = "$"

(* What follows a place, for each place of the part. *)
LEMMA SameAhead ==
    ASSUME statement \in Text, NEW U, NEW e, NEW i, NEW q, Same(U, e, i, q), NEW k \in i .. q - 1
    PROVE  Ahead(U, e, k, q)
BY SameFacts DEF Ahead

(* The statement has each of its parts in the same place. *)
LEMMA SelfSame ==
    ASSUME statement \in Text, NEW i \in Nat \ {0}, NEW q \in Nat, i <= q, q <= Len(statement) + 1
    PROVE  Same(statement, 0, i, q)
<1>1. Len(statement) \in Nat
  BY AtFacts
<1>2. \A k \in i .. q - 1 : k + 0 = k
  OBVIOUS
<1> QED
  BY <1>1, <1>2 DEF Same

(* The reader before it reads the place of k. *)
Before(U, e, k) == ReaderAfter(U)[k - 1 + e]

(* From a place to the next the reader reads one character. *)
LEMMA ReadStep ==
    ASSUME statement \in Text, NEW U, NEW e, NEW i, NEW q, Same(U, e, i, q), NEW k \in i .. q - 1
    PROVE  /\ IsReader(Before(U, e, k)) /\ IsReader(Before(U, e, k + 1))
           /\ Before(U, e, k + 1) = Read(U, k + e, Before(U, e, k))
<1> DEFINE m == Len(U)
           p == k + e
           p0 == k - 1 + e
           p1 == (k + 1) - 1 + e
<1>1. U \in Text /\ p \in 1 .. m /\ m \in Nat
  BY SameFacts
<1>2. /\ \A j \in 1 .. m : ReaderAfter(U)[j] = Read(U, j, ReaderAfter(U)[j - 1])
      /\ \A j \in 0 .. m : IsReader(ReaderAfter(U)[j])
  BY <1>1, ReaderUnfolds
<1> HIDE DEF m
<1>3. p - 1 = p0 /\ p1 = p /\ p0 \in 0 .. m /\ p \in 0 .. m
  <2>1. k \in Int /\ e \in Int
    BY DEF Same
  <2> QED
    BY <1>1, <2>1
<1> HIDE DEF p, p0, p1
<1>4. IsReader(ReaderAfter(U)[p0]) /\ IsReader(ReaderAfter(U)[p])
  BY <1>2, <1>3
<1>5. ReaderAfter(U)[p] = Read(U, p, ReaderAfter(U)[p0])
  BY <1>1, <1>2, <1>3
<1>6. Before(U, e, k) = ReaderAfter(U)[p0] /\ Before(U, e, k + 1) = ReaderAfter(U)[p1]
  BY DEF Before, p0, p1
<1> QED
  BY <1>3, <1>4, <1>5, <1>6 DEF p

(* Where it skips, one less is left to skip. *)
LEMMA SkipStep ==
    ASSUME statement \in Text, NEW U, NEW e, NEW i, NEW q, Same(U, e, i, q), NEW k \in i .. q, NEW j \in k .. q,
           NEW m \in Nat, j - k <= m, NEW z, z = Before(U, e, k), z.skip = m, NEW x, x = Before(U, e, j)
    PROVE  /\ IsReader(x) /\ x.mode = z.mode /\ x.depth = z.depth /\ x.tag = z.tag /\ x.word = z.word
           /\ Kept(z, x) /\ x.skip = m - (j - k)
<1> DEFINE n == Len(U)
           p == k - 1 + e
           p1 == j - 1 + e
           d == j - k
<1>1. U \in Text /\ n \in Nat
  BY SameFacts
<1>2. k \in Int /\ j \in Int /\ e \in Int /\ q + e - 1 <= n /\ i + e - 1 \in 0 .. n /\ q \in Int /\ i \in Int
  BY SameFacts DEF Same
<1>3. p \in 0 .. n /\ p1 \in 0 .. n /\ p1 = p + d /\ d \in 0 .. m /\ p + d <= n
  BY <1>1, <1>2
<1>4. z = ReaderAfter(U)[p] /\ x = ReaderAfter(U)[p1]
  BY DEF Before
<1> HIDE DEF n, p, p1, d
<1>5. ReaderAfter(U)[p + d] = [ReaderAfter(U)[p] EXCEPT !.skip = m - d]
  BY <1>1, <1>3, <1>4, Skipping DEF n
<1>6. x = [z EXCEPT !.skip = m - d]
  BY <1>3, <1>4, <1>5
<1>7. IsReader(z) /\ IsReader(x)
  BY <1>1, <1>3, <1>4, ReaderUnfolds DEF n
<1>8. z \in Readers
  BY <1>7 DEF IsReader
<1> HIDE <1>4
<1>9. /\ x.mode = z.mode /\ x.depth = z.depth /\ x.tag = z.tag /\ x.word = z.word
      /\ Kept(z, x) /\ x.skip = m - d
  BY <1>6, <1>8 DEF Readers, Kept
<1> QED
  BY <1>7, <1>9 DEF d

-----------------------------------------------------------------------------
(* What the reader makes of each kind of fragment.                         *)

Becomes(z, x, mode, skip, word) == x.mode = mode /\ x.skip = skip /\ x.word = word /\ Kept(z, x)

(* What the reader makes of the character c, with b next in the statement and d in U. *)
Effect(U, e, k, q, z, x, c, b, d) ==
    /\ d = b \/ (k + 1 = q /\ Reference(q) /\ b = ":" /\ d = "$")
    /\ c = "-" /\ b = "-" => Becomes(z, x, "line", 0, "")
    /\ c = "/" /\ b = "*" => Becomes(z, x, "block", 1, "") /\ x.depth = 1
    /\ c = "E" /\ b = "'" /\ z.word = "" => Becomes(z, x, "escape", 1, "")
    /\ c = "'" => Becomes(z, x, "string", 0, "")
    /\ c = "q" => Becomes(z, x, "name", 0, "")
    /\ c = "$" /\ (z.word = "identifier" \/ (DollarTag(U, k + e) = <<>> /\ d \notin DIGIT)) => x.odd
    /\ c = "$" /\ z.word # "identifier" /\ DollarTag(U, k + e) # <<>> =>
          Becomes(z, x, "dollar", Len(DollarTag(U, k + e)) - 1, "") /\ x.tag = DollarTag(U, k + e)
    /\ c = ":" /\ d = ":" => Becomes(z, x, "sql", 1, "")
    /\ c = ":" /\ d \in IDENTIFIER_START =>
          /\ x.mode = "sql" /\ x.skip = IdentifierEnd(U, k + e + 1) - (k + e) - 1 /\ x.word = ""
          /\ z.word = "identifier" => x.odd
    /\ c \in IDENTIFIER_START /\ ~(c = "E" /\ b = "'" /\ z.word = "") =>
          Becomes(z, x, "sql", 0, "identifier")
    /\ c \in DIGIT => Becomes(z, x, "sql", 0, IF z.word = "" THEN "number" ELSE z.word)
    /\ (/\ ~(c = "-" /\ b = "-") /\ ~(c = "/" /\ b = "*") /\ c \notin {"'", "q", "$"}
        /\ ~(c = ":" /\ (b = ":" \/ b \in IDENTIFIER_START)) /\ c \notin IDENTIFIER_PART) =>
          Becomes(z, x, "sql", 0, "")

(* Where it does not, the statement says what it makes of the character. *)
LEMMA SqlStep ==
    ASSUME statement \in Text, NEW U, NEW e, NEW i, NEW q, Same(U, e, i, q), NEW k \in i .. q - 1,
           NEW z, z = Before(U, e, k), z.mode = "sql", z.skip = 0, NEW x, x = Before(U, e, k + 1),
           NEW c, c = statement[k], NEW b, b = At(statement, k + 1), NEW d, d = At(U, k + e + 1)
    PROVE  Effect(U, e, k, q, z, x, c, b, d)
<1> DEFINE p == k + e
           tag == DollarTag(U, p)
           skip == IdentifierEnd(U, p + 1) - p - 1
<1>1. IsReader(z) /\ x = Read(U, p, z)
  BY ReadStep
<1>2. U \in Text /\ p \in 1 .. Len(U) /\ U[p] = c
  BY SameFacts
<1>3. d = b \/ (k + 1 = q /\ Reference(q) /\ d = "$")
  BY SameFacts
<1>4. k + 1 = q /\ Reference(q) => b = ":"
  BY DEF Reference
<1>5. d = At(U, p + 1)
  OBVIOUS
<1> HIDE DEF p
<1>6. SqlEffect(U, p, z, x, c, d, tag)
  BY <1>1, <1>2, <1>5, ReadInSql
<1>7. /\ c = "-" /\ d = "-" => x.mode = "line" /\ x.skip = 0 /\ x.word = "" /\ Kept(z, x)
      /\ c = "/" /\ d = "*" =>
            x.mode = "block" /\ x.depth = 1 /\ x.skip = 1 /\ x.word = "" /\ Kept(z, x)
      /\ c = "E" /\ d = "'" /\ z.word = "" =>
            x.mode = "escape" /\ x.skip = 1 /\ x.word = "" /\ Kept(z, x)
      /\ c = "'" => x.mode = "string" /\ x.skip = 0 /\ x.word = "" /\ Kept(z, x)
      /\ c = "q" => x.mode = "name" /\ x.skip = 0 /\ x.word = "" /\ Kept(z, x)
      /\ c = "$" /\ (z.word = "identifier" \/ (tag = <<>> /\ d \notin DIGIT)) => x.odd
      /\ c = "$" /\ z.word # "identifier" /\ tag # <<>> =>
            x.mode = "dollar" /\ x.tag = tag /\ x.skip = Len(tag) - 1 /\ x.word = "" /\ Kept(z, x)
      /\ c = ":" /\ d = ":" => x.mode = "sql" /\ x.skip = 1 /\ x.word = "" /\ Kept(z, x)
      /\ c = ":" /\ d \in IDENTIFIER_START =>
            /\ x.mode = "sql" /\ x.skip = skip /\ x.word = ""
            /\ z.word = "identifier" => x.odd
      /\ c \in IDENTIFIER_START /\ ~(c = "E" /\ d = "'" /\ z.word = "") =>
            x.mode = "sql" /\ x.skip = 0 /\ x.word = "identifier" /\ Kept(z, x)
      /\ c \in DIGIT =>
            /\ x.mode = "sql" /\ x.skip = 0 /\ Kept(z, x)
            /\ x.word = IF z.word = "" THEN "number" ELSE z.word
      /\ (/\ ~(c = "-" /\ d = "-") /\ ~(c = "/" /\ d = "*") /\ c \notin {"'", "q", "$"}
          /\ ~(c = ":" /\ (d = ":" \/ d \in IDENTIFIER_START)) /\ c \notin IDENTIFIER_PART) =>
            x.mode = "sql" /\ x.skip = 0 /\ x.word = "" /\ Kept(z, x)
  BY <1>6 DEF SqlEffect
<1>8. /\ d = "-" <=> b = "-"
      /\ d = "*" <=> b = "*"
      /\ d = "'" <=> b = "'"
      /\ b # ":" => d = b
  BY <1>3, <1>4
<1> DEFINE word == IF z.word = "" THEN "number" ELSE z.word
           less == Len(tag) - 1
           one == 1
           odd == x.odd
<1> HIDE DEF tag, skip, word, less, one
<1>9. /\ c = "-" /\ b = "-" => Becomes(z, x, "line", 0, "")
      /\ c = "/" /\ b = "*" => Becomes(z, x, "block", one, "") /\ x.depth = one
      /\ c = "E" /\ b = "'" /\ z.word = "" => Becomes(z, x, "escape", one, "")
      /\ c = "'" => Becomes(z, x, "string", 0, "")
      /\ c = "q" => Becomes(z, x, "name", 0, "")
      /\ c \in IDENTIFIER_START /\ ~(c = "E" /\ b = "'" /\ z.word = "") => Becomes(z, x, "sql", 0, "identifier")
      /\ c \in DIGIT => Becomes(z, x, "sql", 0, word)
  BY <1>7, <1>8 DEF Becomes, one, word
<1>10. /\ c = "$" /\ (z.word = "identifier" \/ (tag = <<>> /\ d \notin DIGIT)) => odd
       /\ c = "$" /\ z.word # "identifier" /\ tag # <<>> => Becomes(z, x, "dollar", less, "") /\ x.tag = tag
       /\ c = ":" /\ d = ":" => Becomes(z, x, "sql", one, "")
       /\ c = ":" /\ d \in IDENTIFIER_START =>
             /\ x.mode = "sql" /\ x.skip = skip /\ x.word = ""
             /\ z.word = "identifier" => odd
  BY <1>7 DEF Becomes, one, less
<1>11. (/\ ~(c = "-" /\ b = "-") /\ ~(c = "/" /\ b = "*") /\ c \notin {"'", "q", "$"}
        /\ ~(c = ":" /\ (b = ":" \/ b \in IDENTIFIER_START)) /\ c \notin IDENTIFIER_PART) =>
            Becomes(z, x, "sql", 0, "")
  BY <1>7, <1>8 DEF Becomes
<1> QED
  BY <1>3, <1>4, <1>9, <1>10, <1>11 DEF tag, skip, less, word, one, p, Effect

(* A reader that nothing moves stays as it is. *)
LEMMA Stays ==
    ASSUME statement \in Text, NEW U, NEW e, NEW i, NEW q, Same(U, e, i, q), NEW j \in i .. q, NEW l \in j .. q,
           NEW z, z = Before(U, e, j), \A k \in j .. l - 1 : Read(U, k + e, z) = z
    PROVE  Before(U, e, l) = z
<1> DEFINE m == l - j
           D == {d \in 0 .. m : Before(U, e, j + d) = z}
<1>1. i \in Nat /\ q \in Nat /\ j \in Nat /\ i <= j /\ l \in Nat /\ j <= l /\ l <= q
  <2>1. i \in Nat /\ q \in Nat
    BY DEF Same
  <2>2. \A a \in i .. q : a \in Nat /\ i <= a
    BY ONLY <2>1
  <2>3. j \in Nat /\ i <= j
    BY <2>2
  <2>4. l \in Nat /\ j <= l /\ l <= q
    BY <2>1, <2>3
  <2> QED
    BY <2>1, <2>3, <2>4
<1>2. m \in Nat /\ j + 0 = j /\ j + m = l /\ 0 \in 0 .. m /\ m \in 0 .. m
  BY <1>1
<1>3. 0 \in D
  BY <1>2
<1>4. ASSUME NEW d \in 0 .. m - 1, d \in D PROVE d + 1 \in D
  <2>1. j + d \in i .. q - 1 /\ j + d \in j .. l - 1 /\ (j + d) + 1 = j + (d + 1) /\ d + 1 \in 0 .. m
    BY <1>1
  <2> DEFINE k == j + d
  <2>2. Before(U, e, k) = z
    BY <1>4
  <2>3. k \in i .. q - 1 /\ k \in j .. l - 1
    BY <2>1
  <2>4. k + 1 = j + (d + 1)
    BY <2>1
  <2> HIDE DEF k
  <2>5. Before(U, e, k + 1) = Read(U, k + e, Before(U, e, k))
    BY <2>3, ReadStep
  <2>6. Before(U, e, k + 1) = z
    BY <2>2, <2>3, <2>5
  <2> QED
    BY <2>1, <2>4, <2>6
<1> HIDE DEF D
<1>5. \A d \in 0 .. m : d \in D
  <2> HIDE DEF m
  <2> QED
    BY <1>2, <1>3, <1>4, Induction
<1>6. m \in D
  BY <1>2, <1>5
<1> QED
  BY <1>2, <1>6 DEF D

(* After a fragment the reader is back in live SQL, between two words. *)
Landed(x, q) ==
    q <= Len(statement) =>
        /\ x.skip = 0 /\ x.word = ""
        /\ x.mode = "sql" \/ (x.mode = "line" /\ At(statement, q) = "n")
        /\ At(statement, q - 1) \notin IDENTIFIER_PART \/ At(statement, q) \notin IDENTIFIER_PART

(* A line comment goes on to the end of the line. *)
LEMMA LineCommentRead ==
    ASSUME statement \in Text, NEW U, NEW e, NEW i, NEW q, Same(U, e, i, q), i < q,
           NEW z, z = Before(U, e, i), z.mode = "sql", z.skip = 0,
           At(statement, i) = "-", At(statement, i + 1) = "-",
           q = FirstFrom(statement, i, {k \in DOMAIN statement : statement[k] = "n"}),
           NEW x, x = Before(U, e, q)
    PROVE  Kept(z, x) /\ Landed(x, q)
<1> DEFINE n == Len(statement)
           places == {k \in DOMAIN statement : statement[k] = "n"}
           y == Before(U, e, i + 1)
<1>0. n \in Nat /\ DOMAIN statement = 1 .. n /\ \A k \in 1 .. n : At(statement, k) = statement[k]
  BY AtFacts
<1> HIDE DEF n
<1>1. /\ U \in Text /\ i \in Nat \ {0} /\ q \in Nat /\ i <= q /\ q <= n + 1
      /\ \A k \in i .. q - 1 : k \in 1 .. n /\ At(statement, k) = statement[k]
      /\ \A k \in i .. q - 1 : U[k + e] = statement[k]
  <2>0. statement \in Text /\ Same(U, e, i, q)
    OBVIOUS
  <2>1. /\ U \in Text /\ i \in Nat \ {0} /\ q \in Nat /\ i <= q /\ q <= n + 1
        /\ \A k \in i .. q - 1 : k \in 1 .. n /\ At(statement, k) = statement[k]
    BY ONLY <2>0, SameFacts DEF n
  <2>2. \A k \in i .. q - 1 : U[k + e] = statement[k]
    BY DEF Same
  <2> QED
    BY <2>1, <2>2
<1>2. i \in i .. q - 1 /\ i + 1 \in i .. q /\ \A k \in i + 1 .. q - 1 : k \in i .. q - 1
  BY <1>1
<1>3. statement[i] = "-"
  BY <1>1, <1>2
<1>4. Becomes(z, y, "line", 0, "")
  <2>1. Effect(U, e, i, q, z, y, "-", "-", At(U, i + e + 1))
    BY <1>2, <1>3, SqlStep
  <2> QED
    BY <2>1 DEF Effect
<1>5. (q = n + 1 \/ q \in places) /\ \A k \in places : i <= k => q <= k
  <2>1. places \in SUBSET (1 .. n) /\ i <= n + 1
    BY <1>0, <1>1
  <2> HIDE DEF places
  <2>2. q = FirstFrom(statement, i, places)
    BY DEF places
  <2> QED
    BY <1>1, <2>1, <2>2, FirstFromFacts DEF n
<1>6. \A k \in i .. q - 1 : statement[k] # "n"
  <2> SUFFICES ASSUME NEW k \in i .. q - 1, statement[k] = "n"
               PROVE  FALSE
    OBVIOUS
  <2>1. k \in places
    BY <1>0, <1>1
  <2>2. i <= k /\ ~(q <= k)
    BY <1>1
  <2> QED
    BY <1>5, <2>1, <2>2
<1> HIDE DEF y, places
<1>7. \A k \in i + 1 .. q - 1 : Read(U, k + e, y) = y
  <2> SUFFICES ASSUME NEW k \in i + 1 .. q - 1
               PROVE  Read(U, k + e, y) = y
    OBVIOUS
  <2>1. U[k + e] # "n"
    BY <1>1, <1>2, <1>6
  <2>2. y.mode = "line" /\ y.skip = 0 /\ ~(y.skip > 0)
    <3>1. y.mode = "line" /\ y.skip = 0
      BY <1>4 DEF Becomes
    <3>2. ~(y.skip > 0)
      <4>1. y.skip = 0
        BY <3>1
      <4> QED
        BY ONLY <4>1
    <3> QED
      BY <3>1, <3>2
  <2> QED
    BY <2>1, <2>2 DEF Read
<1>8. x = y
  <2>1. q \in i + 1 .. q
    BY <1>1
  <2> QED
    BY <1>2, <1>7, <2>1, Stays DEF y
<1>9. q <= n => At(statement, q) = "n" /\ At(statement, q) \notin IDENTIFIER_PART
  <2>1. q <= n => q \in places
    BY <1>0, <1>1, <1>5
  <2>2. q \in places => At(statement, q) = "n"
    BY <1>0 DEF places
  <2> QED
    BY <2>1, <2>2 DEF IDENTIFIER_PART, IDENTIFIER_START, DIGIT
<1> QED
  BY <1>4, <1>8, <1>9 DEF Becomes, Landed, n

(* Words within the part are words of both texts. *)
LEMMA SameIsAt ==
    ASSUME statement \in Text, NEW U, NEW e, NEW i, NEW q, Same(U, e, i, q), NEW k \in i .. q - 1,
           NEW word \in Text, Len(word) # 0, k + Len(word) <= q \/ q = Len(statement) + 1
    PROVE  IsAt(U, k + e, word) <=> IsAt(statement, k, word)
<1> DEFINE n == Len(statement)
           l == Len(U)
           m == Len(word)
           p == k + e
<1>1. n \in Nat /\ l \in Nat /\ m \in Nat /\ m # 0 /\ U \in Text
  BY SameFacts, AtFacts
<1>2. /\ e \in Int /\ i \in Nat \ {0} /\ q \in Nat /\ i <= q /\ q <= n + 1 /\ q + e <= l + 1
      /\ q = n + 1 => q + e = l + 1
  <2>1. statement \in Text /\ Same(U, e, i, q)
    OBVIOUS
  <2> QED
    BY ONLY <2>1, SameFacts
<1>3. k \in Nat \ {0} /\ p \in Nat \ {0}
  <2>1. k + e \in 1 .. l
    BY SameFacts
  <2> QED
    BY <1>1, <1>2, <2>1
<1>4. k + m <= q \/ q = n + 1
  OBVIOUS
<1> HIDE DEF n, l, m
<1>5. p + m - 1 <= l <=> k + m - 1 <= n
  <2>1. k \in Int
    BY <1>3
  <2> QED
    BY ONLY <1>1, <1>2, <1>4, <2>1
<1>6. ASSUME k + m - 1 <= n, NEW d \in 1 .. m
      PROVE  U[p + d - 1] = statement[k + d - 1]
  <2> DEFINE j == k + d - 1
  <2>1. j \in i .. q - 1 /\ j + e = p + d - 1
    BY <1>1, <1>2, <1>4, <1>6
  <2>2. U[j + e] = statement[j]
    <3> HIDE DEF j
    <3> QED
      BY <2>1 DEF Same
  <2> QED
    BY <2>1, <2>2
<1>7. IsAt(statement, k, word) <=> k + m - 1 <= n /\ \A d \in 1 .. m : statement[k + d - 1] = word[d]
  BY <1>3, IsAtFacts DEF m, n
<1> HIDE DEF p
<1>8. IsAt(U, p, word) <=> p + m - 1 <= l /\ \A d \in 1 .. m : U[p + d - 1] = word[d]
  BY <1>1, <1>3, IsAtFacts DEF m, l
<1>9. IsAt(U, p, word) <=> IsAt(statement, k, word)
  BY <1>5, <1>6, <1>7, <1>8
<1> QED
  BY <1>9 DEF p

(* A dollar tag in the one is a dollar tag in the other. *)
LEMMA SameTag ==
    ASSUME statement \in Text, NEW U, NEW e, NEW i, NEW q, Same(U, e, i, q), i < q,
           NEW tag, tag = DollarTag(statement, i), tag # <<>>, i + Len(tag) <= q
    PROVE  DollarTag(U, i + e) = tag
<1> DEFINE n == Len(statement)
           l == Len(U)
           m == Len(tag)
           p == i + e
           end == i + m - 1
           pend == p + m - 1
<1>1. /\ U \in Text /\ e \in Int /\ i \in Nat \ {0} /\ q \in Nat /\ q <= n + 1 /\ l \in Nat
      /\ \A k \in i .. q - 1 : k + e \in 1 .. l /\ U[k + e] = statement[k]
  <2>1. statement \in Text /\ Same(U, e, i, q)
    OBVIOUS
  <2>2. /\ U \in Text /\ e \in Int /\ i \in Nat \ {0} /\ q \in Nat /\ q <= n + 1 /\ l \in Nat
    BY ONLY <2>1, SameFacts
  <2>3. \A k \in i .. q - 1 : k + e \in 1 .. l
    BY ONLY <2>1, SameFacts
  <2>4. \A k \in i .. q - 1 : U[k + e] = statement[k]
    BY ONLY <2>1 DEF Same
  <2> QED
    BY <2>2, <2>3, <2>4
<1>2. n \in Nat /\ i \in 1 .. n
  <2>1. n \in Nat
    BY AtFacts
  <2> QED
    BY <1>1, <2>1
<1>3. /\ statement[i] = "$" /\ tag \in Text /\ m \in Nat /\ m >= 2
      /\ end <= n /\ statement[end] = "$"
      /\ \A d \in 1 .. m : tag[d] = statement[i + d - 1]
      /\ \A k \in i + 1 .. i + m - 2 : statement[k] \in IDENTIFIER_PART
      /\ statement[i + 1] \in IDENTIFIER_START \cup {"$"}
  BY <1>2, DollarTagFacts
<1> HIDE DEF n, l, m
<1>4. ASSUME NEW d \in 1 .. m
      PROVE  p + d - 1 \in 1 .. l /\ U[p + d - 1] = statement[i + d - 1]
  <2> DEFINE j == i + d - 1
  <2>1. j \in i .. q - 1 /\ j + e = p + d - 1
    BY <1>1, <1>3 DEF m
  <2> HIDE DEF j
  <2>2. j + e \in 1 .. l /\ U[j + e] = statement[j]
    BY <1>1, <2>1
  <2> QED
    BY <2>1, <2>2 DEF j
<1>5. /\ 1 \in 1 .. m /\ 2 \in 1 .. m /\ m \in 1 .. m /\ p + 1 - 1 = p /\ p + 2 - 1 = p + 1
      /\ i + 1 - 1 = i /\ i + 2 - 1 = i + 1
  BY <1>1, <1>3
<1>6. p \in 1 .. l /\ U[p] = "$" /\ U[p + 1] \in IDENTIFIER_START \cup {"$"} /\ pend \in 1 .. l /\ U[pend] = "$"
  <2>1. p \in 1 .. l /\ U[p] = statement[i]
    BY <1>4, <1>5
  <2>2. U[p + 1] = statement[i + 1]
    BY <1>4, <1>5
  <2>3. pend \in 1 .. l /\ U[pend] = statement[end]
    BY <1>4, <1>5
  <2> QED
    BY <1>3, <2>1, <2>2, <2>3
<1>7. \A k \in p + 1 .. pend - 1 : U[k] \in IDENTIFIER_PART
  <2> SUFFICES ASSUME NEW k \in p + 1 .. pend - 1
               PROVE  U[k] \in IDENTIFIER_PART
    OBVIOUS
  <2> DEFINE d == k - p + 1
             j == i + d - 1
  <2>1. d \in 1 .. m /\ p + d - 1 = k /\ j \in i + 1 .. i + m - 2
    BY <1>1, <1>3
  <2> HIDE DEF d
  <2>2. U[p + d - 1] = statement[j]
    BY <1>4, <2>1
  <2>3. statement[j] \in IDENTIFIER_PART
    BY <1>3, <2>1
  <2> QED
    BY <2>1, <2>2, <2>3
<1>8. p \in Nat \ {0} /\ pend \in Nat /\ p < pend /\ pend <= l /\ pend + 1 - p = m /\ p <= pend + 1
  BY <1>1, <1>3, <1>6
<1> DEFINE s == SubSeq(U, p, pend)
<1> HIDE DEF p, pend
<1>9. DollarTag(U, p) = s
  BY <1>1, <1>6, <1>7, <1>8, DollarTagIs DEF l
<1>10. s \in Text /\ Len(s) = m /\ \A d \in 1 .. m : s[d] = U[p + d - 1]
  <2>1. s \in Text /\ Len(s) = pend + 1 - p /\ \A d \in 1 .. pend + 1 - p : s[d] = U[p + d - 1]
    BY <1>1, <1>8, SubSeqFacts DEF l
  <2> QED
    BY <1>8, <2>1
<1> HIDE DEF s
<1>11. \A d \in 1 .. m : s[d] = tag[d]
  BY <1>3, <1>4, <1>10 DEF p
<1>12. s = tag
  <2>1. s \in Seq(Character) /\ tag \in Seq(Character) /\ Len(s) = Len(tag)
    BY <1>3, <1>10 DEF Text, m
  <2>2. \A d \in 1 .. Len(s) : s[d] = tag[d]
    BY <1>10, <1>11
  <2> QED
    BY <2>1, <2>2, SeqEqual
<1> QED
  BY <1>9, <1>12 DEF p

(* Dollar quotes go on to the tag that opened them. *)
LEMMA DollarQuotedRead ==
    ASSUME statement \in Text, NEW U, NEW e, NEW i, NEW q, Same(U, e, i, q), i < q,
           NEW z, z = Before(U, e, i), z.mode = "sql", z.skip = 0, z.word # "identifier",
           NEW tag, tag = DollarTag(statement, i), tag # <<>>,
           NEW closing,
           closing = FirstFrom(statement, i + Len(tag), {k \in DOMAIN statement : IsAt(statement, k, tag)}),
           q = IF closing > Len(statement) THEN Len(statement) + 1 ELSE closing + Len(tag),
           NEW x, x = Before(U, e, q)
    PROVE  Kept(z, x) /\ Landed(x, q)
<1> DEFINE n == Len(statement)
           m == Len(tag)
           j == i + m
           places == {k \in DOMAIN statement : IsAt(statement, k, tag)}
           y == Before(U, e, i + 1)
           w == Before(U, e, j)
<1>1. n \in Nat /\ DOMAIN statement = 1 .. n /\ \A k \in 1 .. n : At(statement, k) = statement[k]
  BY AtFacts
<1>2. /\ U \in Text /\ i \in Nat \ {0} /\ q \in Nat /\ q <= n + 1 /\ e \in Int
      /\ \A k \in i .. q - 1 : k \in 1 .. n /\ At(statement, k) = statement[k]
  <2>1. statement \in Text /\ Same(U, e, i, q)
    OBVIOUS
  <2> QED
    BY ONLY <2>1, SameFacts
<1>3. i \in 1 .. n
  BY <1>1, <1>2
<1>4. /\ statement[i] = "$" /\ tag \in Text /\ m \in Nat /\ m >= 2 /\ m # 0
      /\ i + m - 1 <= n /\ \A d \in 1 .. m : tag[d] = statement[i + d - 1]
  <2>1. /\ statement[i] = "$" /\ tag \in Text /\ m \in Nat /\ m >= 2
        /\ i + m - 1 <= n /\ \A d \in 1 .. m : tag[d] = statement[i + d - 1]
    BY <1>3, DollarTagFacts
  <2> QED
    BY <2>1
<1>5. tag[m] = "$"
  <2>1. statement[i + m - 1] = "$"
    BY <1>3, DollarTagFacts
  <2>2. m \in 1 .. m
    BY <1>4
  <2> QED
    BY <1>4, <2>1, <2>2
<1> HIDE DEF n, m
<1>6. j \in Nat /\ j <= n + 1 /\ places \in SUBSET (1 .. n)
  BY <1>1, <1>2, <1>4
<1>7. /\ closing \in Nat /\ j <= closing /\ closing <= n + 1
      /\ closing = n + 1 \/ closing \in places
      /\ \A k \in places : j <= k => closing <= k
  <2> HIDE DEF places, j
  <2>1. closing = FirstFrom(statement, j, places)
    BY DEF places, j, m
  <2> QED
    BY <1>6, <2>1, FirstFromFacts DEF n
<1>8. closing \in places => closing + m - 1 <= n
  <2> SUFFICES ASSUME closing \in places
               PROVE  closing + m - 1 <= n
    OBVIOUS
  <2>1. IsAt(statement, closing, tag) /\ closing \in Nat \ {0}
    BY <1>1, <1>7
  <2> QED
    BY <1>4, <2>1, IsAtFacts DEF m, n
<1>9. q = IF closing > n THEN n + 1 ELSE closing + m
  BY DEF n, m
<1>10. j <= q /\ (closing > n => closing = n + 1 /\ q = n + 1) /\ (closing <= n => closing \in places /\ q = closing + m)
  BY <1>1, <1>4, <1>6, <1>7, <1>9
<1>11. DollarTag(U, i + e) = tag
  BY <1>10, SameTag DEF m
<1> HIDE DEF places, y, w
<1>12. Becomes(z, y, "dollar", m - 1, "") /\ y.tag = tag
  <2>1. i \in i .. q - 1
    BY <1>2
  <2>2. Effect(U, e, i, q, z, y, "$", At(statement, i + 1), At(U, i + e + 1))
    BY <1>4, <2>1, SqlStep DEF y
  <2> QED
    BY <1>4, <1>11, <2>2 DEF Effect, m
<1>13. /\ IsReader(w) /\ w.mode = "dollar" /\ w.tag = tag /\ w.word = "" /\ Kept(z, w) /\ w.skip = 0
  <2> DEFINE k == i + 1
             a == m - 1
  <2>1. k \in i .. q /\ j \in k .. q /\ a \in Nat /\ j - k <= a /\ a - (j - k) = 0
    BY <1>2, <1>4, <1>6, <1>10
  <2>2. y = Before(U, e, k) /\ w = Before(U, e, j) /\ y.skip = a
    BY <1>12 DEF y, w, Becomes
  <2> HIDE DEF k, a, j
  <2>3. /\ IsReader(w) /\ w.mode = y.mode /\ w.tag = y.tag /\ w.word = y.word /\ Kept(y, w) /\ w.skip = a - (j - k)
    BY <2>1, <2>2, SkipStep
  <2> QED
    BY <1>12, <2>1, <2>3 DEF Becomes, Kept
<1>14. ~(w.skip > 0)
  <2>1. w.skip = 0
    BY <1>13
  <2> QED
    BY ONLY <2>1
<1>15. ASSUME NEW k \in j .. q - 1, closing <= n => k <= closing
       PROVE  Read(U, k + e, w) = IF k \in places THEN [w EXCEPT !.skip = m - 1, !.mode = "sql"] ELSE w
  <2>1. k \in i .. q - 1 /\ (k + m <= q \/ q = n + 1)
    <3>1. n \in Nat /\ i \in Nat /\ q \in Nat /\ m \in Nat /\ closing \in Nat /\ k \in i + m .. q - 1
      BY <1>1, <1>2, <1>4, <1>7, <1>15
    <3>2. (closing > n => q = n + 1) /\ (closing <= n => k <= closing /\ q = closing + m)
      BY <1>10, <1>15
    <3> QED
      BY ONLY <3>1, <3>2
  <2>2. IsAt(U, k + e, tag) <=> IsAt(statement, k, tag)
    BY <1>4, <2>1, SameIsAt DEF m, n
  <2>3. k \in 1 .. n
    BY <1>2, <2>1
  <2>4. IsAt(U, k + e, tag) <=> k \in places
    BY <1>1, <2>2, <2>3 DEF places
  <2>5. Read(U, k + e, w) = IF IsAt(U, k + e, w.tag) THEN [w EXCEPT !.skip = Len(w.tag) - 1, !.mode = "sql"] ELSE w
    BY <1>13, <1>14 DEF Read
  <2> QED
    BY <1>13, <2>4, <2>5 DEF m
<1> DEFINE l == IF closing > n THEN q ELSE closing
<1>16. l \in j .. q /\ j \in i .. q /\ \A k \in j .. l - 1 : k \in j .. q - 1 /\ (closing <= n => k <= closing) /\ k \notin places
  <2>1. l \in j .. q /\ j \in i .. q /\ l <= closing /\ (closing <= n => l = closing)
    BY <1>1, <1>2, <1>4, <1>6, <1>7, <1>10
  <2> HIDE DEF l
  <2> SUFFICES ASSUME NEW k \in j .. l - 1
               PROVE  k \in j .. q - 1 /\ (closing <= n => k <= closing) /\ k \notin places
    BY <2>1
  <2>2. k \in j .. q - 1 /\ (closing <= n => k <= closing) /\ j <= k /\ ~(closing <= k)
    BY <1>2, <1>6, <1>7, <2>1
  <2> QED
    BY <1>7, <2>2
<1>17. Before(U, e, l) = w
  <2> HIDE DEF l, j
  <2>1. \A k \in j .. l - 1 : Read(U, k + e, w) = w
    BY <1>15, <1>16
  <2>2. w = Before(U, e, j)
    BY DEF w
  <2> QED
    BY <1>16, <2>1, <2>2, Stays
<1>18. CASE closing > n
  <2>1. x = w /\ q > n
    BY <1>1, <1>10, <1>17, <1>18
  <2>2. ~(q <= Len(statement))
    BY <1>1, <1>2, <2>1 DEF n
  <2> QED
    BY <1>13, <2>1, <2>2 DEF Landed
<1>19. CASE closing <= n
  <2> DEFINE v == Before(U, e, closing + 1)
             a == m - 1
  <2>1. closing \in places /\ q = closing + m /\ closing \in j .. q - 1 /\ closing \in i .. q - 1 /\ ~(closing > n)
    BY <1>1, <1>2, <1>4, <1>6, <1>7, <1>10, <1>19
  <2>2. Before(U, e, closing) = w
    BY <1>17, <2>1
  <2>3. v = Read(U, closing + e, w)
    BY <2>1, <2>2, ReadStep
  <2>4. v = [w EXCEPT !.skip = a, !.mode = "sql"]
    BY <1>15, <2>1, <2>3, <1>7
  <2>5. a \in Nat /\ closing + 1 \in i .. q /\ q \in closing + 1 .. q /\ q - (closing + 1) = a /\ a - a = 0 /\ a <= a
    BY <1>2, <1>4, <1>7, <2>1
  <2> HIDE DEF a, v
  <2>6. v.skip = a /\ v.mode = "sql" /\ v.word = "" /\ Kept(w, v)
    <3>1. w \in Readers
      BY <1>13 DEF IsReader
    <3>2. v.skip = a /\ v.mode = "sql" /\ v.word = w.word /\ Kept(w, v)
      BY <2>4, <3>1 DEF Readers, Kept
    <3> QED
      BY <1>13, <3>2
  <2>7. x.mode = v.mode /\ x.word = v.word /\ Kept(v, x) /\ x.skip = a - a
    <3> DEFINE k == closing + 1
    <3>1. k \in i .. q /\ q \in k .. q /\ q - k <= a /\ q - k = a
      BY <2>5
    <3>2. v = Before(U, e, k)
      BY DEF v
    <3> HIDE DEF k
    <3>3. statement \in Text /\ Same(U, e, i, q) /\ x = Before(U, e, q) /\ a \in Nat /\ v.skip = a
      BY <2>5, <2>6
    <3>4. x.mode = v.mode /\ x.word = v.word /\ Kept(v, x) /\ x.skip = a - (q - k)
      BY ONLY <3>1, <3>2, <3>3, SkipStep
    <3> QED
      BY <3>1, <3>4
  <2>8. At(statement, q - 1) = "$"
    <3>1. closing \in Nat \ {0} /\ IsAt(statement, closing, tag)
      BY <1>1, <2>1 DEF places
    <3>2. \A d \in 1 .. m : statement[closing + d - 1] = tag[d]
      <4>1. statement \in Text /\ tag \in Text /\ Len(tag) # 0
        BY <1>4 DEF m
      <4> QED
        BY ONLY <3>1, <4>1, IsAtFacts DEF m
    <3>3. m \in 1 .. m /\ q - 1 = closing + m - 1 /\ q - 1 \in 1 .. n
      BY <1>1, <1>2, <1>4, <1>8, <2>1, <3>1
    <3>4. statement[q - 1] = "$"
      BY <1>5, <3>2, <3>3
    <3> QED
      BY <1>1, <3>3, <3>4
  <2>9. "$" \notin IDENTIFIER_PART
    BY DEF IDENTIFIER_PART, IDENTIFIER_START, DIGIT
  <2>10. Kept(z, x)
    BY <1>13, <2>6, <2>7 DEF Kept
  <2>11. x.skip = 0
    BY <2>5, <2>7
  <2> QED
    BY <2>6, <2>7, <2>8, <2>9, <2>10, <2>11 DEF Landed
<1>20. closing > n \/ closing <= n
  BY <1>1, <1>7
<1> QED
  BY <1>18, <1>19, <1>20

-----------------------------------------------------------------------------
(* The ends of quotes and comments.                                        *)

(* The functions that go on from x to next[x], until they are done. *)
Descents(D, V, done, val, next1) ==
    {f \in [D -> V] : \A x \in D : f[x] = IF x \in done THEN val[x] ELSE f[next1[x]]}

(* There is such a function if V is large enough. *)
LEMMA DescentExists ==
    ASSUME NEW N \in Nat, NEW D, NEW V, NEW done, NEW val \in [D -> V], NEW next1 \in [D -> D],
           NEW size \in [D -> 0 .. N], \A x \in D : x \notin done => size[next1[x]] < size[x]
    PROVE  Descents(D, V, done, val, next1) # {}
<1> DEFINE S == [D -> V]
           Once(s) == [x \in D |-> IF x \in done THEN val[x] ELSE s[next1[x]]]
           F == [i \in 1 .. N + 1 |-> [s \in S |-> Once(s)]]
<1>1. \A s \in S : Once(s) \in S /\ \A x \in D : Once(s)[x] = IF x \in done THEN val[x] ELSE s[next1[x]]
  OBVIOUS
<1>2. \A i \in 1 .. N + 1 : \A s \in S : F[i][s] = Once(s) /\ F[i][s] \in S
  BY <1>1
<1>3. N + 1 \in Nat /\ val \in S
  OBVIOUS
<1> HIDE DEF F, S, Once
<1>4. Iterations(N + 1, S, val, F) # {}
  BY <1>2, <1>3, IterationExists
<1>5. PICK h \in [0 .. N + 1 -> S] : h[0] = val /\ \A i \in 1 .. N + 1 : h[i] = F[i][h[i - 1]]
  BY <1>4 DEF Iterations
<1>6. ASSUME NEW m \in 0 .. N, NEW x \in D
      PROVE  h[m + 1][x] = IF x \in done THEN val[x] ELSE h[m][next1[x]]
  <2>1. m + 1 \in 1 .. N + 1 /\ (m + 1) - 1 = m /\ m \in 0 .. N + 1
    OBVIOUS
  <2>2. h[m] \in S
    BY <1>5, <2>1
  <2>3. h[m + 1] = Once(h[m])
    BY <1>2, <1>5, <2>1, <2>2
  <2> QED
    BY <1>1, <2>2, <2>3
<1> DEFINE E == {m \in 0 .. N : \A x \in D : size[x] <= m => h[m][x] = h[m + 1][x]}
<1>7. 0 \in E
  <2>1. 0 \in 0 .. N
    OBVIOUS
  <2>2. ASSUME NEW x \in D, size[x] <= 0 PROVE h[0][x] = h[0 + 1][x]
    <3>1. size[x] \in 0 .. N /\ size[next1[x]] \in 0 .. N
      OBVIOUS
    <3>2. x \in done
      BY <2>2, <3>1
    <3> QED
      BY <1>5, <1>6, <2>1, <3>2
  <2> QED
    BY <2>1, <2>2
<1>8. ASSUME NEW m \in 0 .. N - 1, m \in E PROVE m + 1 \in E
  <2>1. m \in 0 .. N /\ m + 1 \in 0 .. N
    OBVIOUS
  <2>2. ASSUME NEW x \in D, size[x] <= m + 1 PROVE h[m + 1][x] = h[(m + 1) + 1][x]
    <3>1. h[m + 1][x] = IF x \in done THEN val[x] ELSE h[m][next1[x]]
      BY <1>6, <2>1
    <3>2. h[(m + 1) + 1][x] = IF x \in done THEN val[x] ELSE h[m + 1][next1[x]]
      BY <1>6, <2>1
    <3>3. x \notin done => h[m][next1[x]] = h[m + 1][next1[x]]
      <4> SUFFICES ASSUME x \notin done
                   PROVE  h[m][next1[x]] = h[m + 1][next1[x]]
        OBVIOUS
      <4>1. size[x] \in 0 .. N /\ size[next1[x]] \in 0 .. N /\ size[next1[x]] < size[x] /\ next1[x] \in D
        OBVIOUS
      <4>2. size[next1[x]] <= m
        BY <2>1, <2>2, <4>1
      <4> QED
        BY <1>8, <4>1, <4>2
    <3> QED
      BY <3>1, <3>2, <3>3
  <2> QED
    BY <2>1, <2>2
<1> HIDE DEF E
<1>9. N \in E
  <2>1. \A m \in 0 .. N : m \in E
    BY <1>7, <1>8, Induction
  <2>2. N \in 0 .. N
    OBVIOUS
  <2> QED
    BY <2>1, <2>2
<1>10. h[N] \in S /\ \A x \in D : h[N][x] = IF x \in done THEN val[x] ELSE h[N][next1[x]]
  <2>1. N \in 0 .. N /\ N \in 0 .. N + 1
    OBVIOUS
  <2>2. h[N] \in S
    BY <1>5, <2>1
  <2>3. ASSUME NEW x \in D PROVE h[N][x] = h[N + 1][x]
    <3>1. size[x] <= N
      OBVIOUS
    <3> QED
      BY <1>9, <3>1 DEF E
  <2>4. ASSUME NEW x \in D PROVE h[N + 1][x] = IF x \in done THEN val[x] ELSE h[N][next1[x]]
    BY <1>6, <2>1
  <2> QED
    BY <2>2, <2>3, <2>4
<1>11. h[N] \in Descents(D, V, done, val, next1)
  BY <1>10 DEF Descents, S
<1> QED
  BY <1>11

(* Where a quote ends, from where the next character ends. *)
LEMMA QuoteEndUnfolds ==
    ASSUME statement \in Text, NEW quote, NEW escapes, NEW k \in Nat
    PROVE  QuoteEnd(quote, k, escapes) =
               IF k > Len(statement) THEN k
               ELSE IF escapes /\ statement[k] = "\\" THEN QuoteEnd(quote, k + 2, escapes)
               ELSE IF statement[k] # quote THEN QuoteEnd(quote, k + 1, escapes)
               ELSE IF At(statement, k + 1) = quote THEN QuoteEnd(quote, k + 2, escapes) ELSE k + 1
<1> DEFINE n == Len(statement)
           escaped(j) == escapes /\ statement[j] = "\\"
           Body(f, j) ==
               IF j > n THEN j
               ELSE IF escapes /\ statement[j] = "\\" THEN f[j + 2]
               ELSE IF statement[j] # quote THEN f[j + 1]
               ELSE IF At(statement, j + 1) = quote THEN f[j + 2] ELSE j + 1
           end == CHOOSE f : f = [j \in Nat |-> Body(f, j)]
           done == {j \in Nat : j > n \/ (~escaped(j) /\ statement[j] = quote /\ At(statement, j + 1) # quote)}
           val == [j \in Nat |-> IF j > n THEN j ELSE j + 1]
           skips(j) == escaped(j) \/ ~(statement[j] # quote)
           next1 == [j \in Nat |-> IF skips(j) THEN j + 2 ELSE j + 1]
           size == [j \in Nat |-> IF j > n + 1 THEN 0 ELSE n + 1 - j]
<1>1. n \in Nat
  BY AtFacts
<1>2. \A j \in Nat : QuoteEnd(quote, j, escapes) = end[j]
  BY DEF QuoteEnd
<1> HIDE DEF n
<1>3. Descents(Nat, Nat, done, val, next1) # {}
  <2>1. n + 1 \in Nat /\ val \in [Nat -> Nat] /\ next1 \in [Nat -> Nat] /\ size \in [Nat -> 0 .. n + 1]
    BY <1>1
  <2>2. \A j \in Nat : j \notin done => size[next1[j]] < size[j]
    <3> SUFFICES ASSUME NEW j \in Nat, j \notin done
                 PROVE  size[next1[j]] < size[j]
      OBVIOUS
    <3>1. j <= n
      BY <1>1
    <3>2. next1[j] = j + 1 \/ next1[j] = j + 2
      OBVIOUS
    <3>3. size[j] = n + 1 - j
      BY <1>1, <3>1
    <3>4. size[j + 1] = n - j /\ size[j + 2] <= n - j
      BY <1>1, <3>1
    <3> HIDE DEF size, next1, done
    <3>5. size[next1[j]] <= n - j /\ size[next1[j]] \in Int
      <4>1. CASE next1[j] = j + 1
        BY <1>1, <3>4, <4>1
      <4>2. CASE next1[j] = j + 2
        <5>1. size[j + 2] \in Int
          BY <2>1
        <5> QED
          BY <3>4, <4>2, <5>1
      <4> QED
        BY <3>2, <4>1, <4>2
    <3> QED
      BY <1>1, <3>3, <3>5
  <2> HIDE DEF done, val, next1, size
  <2> QED
    BY <2>1, <2>2, DescentExists
<1>4. PICK f \in [Nat -> Nat] : \A j \in Nat : f[j] = IF j \in done THEN val[j] ELSE f[next1[j]]
  BY <1>3 DEF Descents
<1>5. \A j \in Nat : f[j] = Body(f, j)
  <2> SUFFICES ASSUME NEW j \in Nat
               PROVE  f[j] = Body(f, j)
    OBVIOUS
  <2>1. f[j] = IF j \in done THEN val[j] ELSE f[next1[j]]
    BY <1>4
  <2>2. CASE j > n
    <3>1. j \in done /\ val[j] = j
      BY <2>2
    <3> HIDE DEF done, val, next1
    <3> QED
      BY <2>1, <2>2, <3>1
  <2>3. CASE ~(j > n) /\ escaped(j)
    <3>1. j \notin done /\ next1[j] = j + 2
      BY <2>3
    <3> HIDE DEF done, val, next1
    <3> QED
      BY <2>1, <2>3, <3>1
  <2>4. CASE ~(j > n) /\ ~escaped(j) /\ statement[j] # quote
    <3>1. j \notin done /\ next1[j] = j + 1
      BY <2>4
    <3> HIDE DEF done, val, next1
    <3> QED
      BY <2>1, <2>4, <3>1
  <2>5. CASE ~(j > n) /\ ~escaped(j) /\ ~(statement[j] # quote) /\ At(statement, j + 1) = quote
    <3>1. j \notin done /\ next1[j] = j + 2
      BY <2>5
    <3> HIDE DEF done, val, next1
    <3> QED
      BY <2>1, <2>5, <3>1
  <2>6. CASE ~(j > n) /\ ~escaped(j) /\ ~(statement[j] # quote) /\ At(statement, j + 1) # quote
    <3>1. j \in done /\ val[j] = j + 1
      BY <2>6
    <3> HIDE DEF done, val, next1
    <3> QED
      BY <2>1, <2>6, <3>1
  <2> QED
    BY <2>2, <2>3, <2>4, <2>5, <2>6
<1> HIDE DEF done, val, next1, size
<1>6. f = [j \in Nat |-> Body(f, j)]
  BY <1>5
<1>7. end = [j \in Nat |-> Body(end, j)]
  BY <1>6
<1> HIDE DEF end, Body
<1>9. \A j \in Nat : end[j] = Body(end, j)
  BY <1>7
<1>10. k + 1 \in Nat /\ k + 2 \in Nat
  OBVIOUS
<1> QED
  BY <1>2, <1>9, <1>10 DEF Body, n

(* A quote that ends within the statement ends behind a quote character. *)
LEMMA QuoteEndFacts ==
    ASSUME statement \in Text, NEW quote, NEW escapes, NEW k \in Nat, NEW Q, Q = QuoteEnd(quote, k, escapes)
    PROVE  Q \in Nat /\ k <= Q /\ (k <= Len(statement) => k < Q)
<1> DEFINE n == Len(statement)
           End(j) == QuoteEnd(quote, j, escapes)
           P(j) == End(j) \in Nat /\ j <= End(j) /\ (j <= n => j < End(j))
           D == {d \in 0 .. n + 1 : \A j \in Nat : n + 1 <= j + d => P(j)}
<1>1. n \in Nat
  BY AtFacts
<1>2. \A j \in Nat : \/ j > n /\ End(j) = j
                     \/ j <= n /\ (End(j) = End(j + 2) \/ End(j) = End(j + 1) \/ End(j) = j + 1)
  <2> SUFFICES ASSUME NEW j \in Nat
               PROVE  \/ j > n /\ End(j) = j
                      \/ j <= n /\ (End(j) = End(j + 2) \/ End(j) = End(j + 1) \/ End(j) = j + 1)
    OBVIOUS
  <2>1. \/ j > n /\ End(j) = j
        \/ ~(j > n) /\ (End(j) = End(j + 2) \/ End(j) = End(j + 1) \/ End(j) = j + 1)
    BY QuoteEndUnfolds
  <2> HIDE DEF n, End
  <2> QED
    BY <1>1, <2>1
<1> HIDE DEF n, End
<1>3. 0 \in D
  <2>1. ASSUME NEW j \in Nat, n + 1 <= j + 0 PROVE P(j)
    BY <1>1, <1>2, <2>1
  <2> QED
    BY <1>1, <2>1
<1>4. ASSUME NEW d \in 0 .. (n + 1) - 1, d \in D PROVE d + 1 \in D
  <2>1. ASSUME NEW j \in Nat, n + 1 <= j + (d + 1) PROVE P(j)
    <3>1. /\ j + 1 \in Nat /\ j + 2 \in Nat /\ n + 1 <= (j + 1) + d /\ n + 1 <= (j + 2) + d
      BY <1>1, <2>1
    <3>2. P(j + 1) /\ P(j + 2)
      BY <1>4, <3>1
    <3> QED
      BY <1>1, <1>2, <3>2
  <2>2. d + 1 \in 0 .. n + 1
    BY <1>1
  <2> QED
    BY <2>1, <2>2
<1> HIDE DEF D
<1>5. n + 1 \in D
  <2>1. n + 1 \in Nat /\ n + 1 \in 0 .. n + 1
    BY <1>1
  <2>2. \A d \in 0 .. n + 1 : d \in D
    BY <1>3, <1>4, <2>1, Induction
  <2> QED
    BY <2>1, <2>2
<1>6. P(k)
  <2>1. n + 1 <= k + (n + 1)
    BY <1>1
  <2> QED
    BY <1>5, <2>1 DEF D
<1> QED
  BY <1>6 DEF End, n

(* The quote, whether backslashes escape it, and the mode of the reader. *)
Quotings == {<<"'", FALSE, "string">>, <<"q", FALSE, "name">>, <<"'", TRUE, "escape">>}

(* What a reader makes of a character c in quotes, with d ahead. *)
QuoteEffect(quote, escapes, mode, w, y, x, c, d) ==
    /\ escapes /\ c = "\\" => Becomes(w, x, mode, 1, "")
    /\ ~(escapes /\ c = "\\") /\ c # quote => x = y
    /\ ~(escapes /\ c = "\\") /\ c = quote /\ d = quote => Becomes(w, x, mode, 1, "")
    /\ ~(escapes /\ c = "\\") /\ c = quote /\ d # quote => Becomes(w, x, "sql", 0, "")

(* That is what a character in quotes does. *)
LEMMA QuoteStep ==
    ASSUME NEW U, NEW p, NEW quote, NEW escapes, NEW mode,
           <<quote, escapes, mode>> \in Quotings,
           NEW w, NEW y, IsReader(y), Becomes(w, y, mode, 0, ""), NEW x, x = Read(U, p, y)
    PROVE  QuoteEffect(quote, escapes, mode, w, y, x, U[p], At(U, p + 1))
<1> DEFINE one == 1
           c == U[p]
           d == At(U, p + 1)
<1>1. y.mode = mode /\ y.skip = 0 /\ y.word = "" /\ Kept(w, y) /\ y \in Readers
  BY DEF Becomes, IsReader
<1>2. ~(y.skip > 0)
  <2>1. y.skip = 0
    BY <1>1
  <2> QED
    BY ONLY <2>1
<1>3. Becomes(w, [y EXCEPT !.skip = one], mode, one, "") /\ Becomes(w, [y EXCEPT !.mode = "sql"], "sql", 0, "")
  <2> HIDE DEF one
  <2> QED
    BY <1>1 DEF Readers, Becomes, Kept
<1>4. x = IF escapes /\ c = "\\" THEN [y EXCEPT !.skip = one]
          ELSE IF c # quote THEN y ELSE IF d = quote THEN [y EXCEPT !.skip = one] ELSE [y EXCEPT !.mode = "sql"]
  <2> HIDE DEF c, d
  <2>1. InQuotes(U, p, y, quote) = IF c # quote THEN y
                                   ELSE IF d = quote THEN [y EXCEPT !.skip = one] ELSE [y EXCEPT !.mode = "sql"]
    BY DEF InQuotes, c, d
  <2>2. CASE <<quote, escapes, mode>> = <<"'", FALSE, "string">>
    <3>1. quote = "'" /\ escapes = FALSE /\ mode = "string"
      BY <2>2
    <3>2. x = InQuotes(U, p, y, quote)
      BY <1>1, <1>2, <3>1 DEF Read
    <3> QED
      BY <2>1, <3>1, <3>2
  <2>3. CASE <<quote, escapes, mode>> = <<"q", FALSE, "name">>
    <3>1. quote = "q" /\ escapes = FALSE /\ mode = "name"
      BY <2>3
    <3>2. x = InQuotes(U, p, y, quote)
      BY <1>1, <1>2, <3>1 DEF Read
    <3> QED
      BY <2>1, <3>1, <3>2
  <2>4. CASE <<quote, escapes, mode>> = <<"'", TRUE, "escape">>
    <3>1. quote = "'" /\ escapes = TRUE /\ mode = "escape"
      BY <2>4
    <3>2. x = IF c = "\\" THEN [y EXCEPT !.skip = one] ELSE InQuotes(U, p, y, quote)
      BY <1>1, <1>2, <3>1 DEF Read, c
    <3> QED
      BY <2>1, <3>1, <3>2
  <2> QED
    BY <2>2, <2>3, <2>4 DEF Quotings
<1> HIDE DEF one, c, d
<1>5. /\ escapes /\ c = "\\" => Becomes(w, x, mode, one, "")
      /\ ~(escapes /\ c = "\\") /\ c # quote => x = y
      /\ ~(escapes /\ c = "\\") /\ c = quote /\ d = quote => Becomes(w, x, mode, one, "")
      /\ ~(escapes /\ c = "\\") /\ c = quote /\ d # quote => Becomes(w, x, "sql", 0, "")
  BY <1>3, <1>4
<1> QED
  BY <1>5 DEF one, c, d, QuoteEffect

AsDeep(y, x) == x.depth = y.depth

(* A character that is skipped leaves the reader where it was. *)
LEMMA SkipOne ==
    ASSUME statement \in Text, NEW U, NEW e, NEW i, NEW q, Same(U, e, i, q), NEW k \in i .. q - 1,
           NEW z, NEW mode, NEW word, NEW y, y = Before(U, e, k), Becomes(z, y, mode, 1, word),
           NEW x, x = Before(U, e, k + 1)
    PROVE  Becomes(z, x, mode, 0, word) /\ AsDeep(y, x) /\ IsReader(x)
<1> DEFINE j == k + 1
           one == 1
<1>1. k \in i .. q /\ j \in k .. q /\ one \in Nat /\ j - k <= one /\ one - (j - k) = 0
  <2>1. i \in Nat \ {0} /\ q \in Nat
    BY SameFacts
  <2> QED
    BY <2>1
<1>2. y.skip = one /\ y.mode = mode /\ y.word = word /\ Kept(z, y)
  BY DEF Becomes
<1>3. statement \in Text /\ Same(U, e, i, q) /\ x = Before(U, e, j) /\ y = Before(U, e, k)
  OBVIOUS
<1> HIDE DEF j, one
<1>4. IsReader(x) /\ x.mode = y.mode /\ x.depth = y.depth /\ x.word = y.word /\ Kept(y, x) /\ x.skip = one - (j - k)
  BY ONLY <1>1, <1>2, <1>3, SkipStep
<1> QED
  BY <1>1, <1>2, <1>4 DEF Becomes, Kept, AsDeep

(* In the midst of quotes or a comment. *)
Inside(z, y, mode) == Becomes(z, y, mode, 0, "")

(* Quotes go on to QuoteEnd. *)
LEMMA QuotesRead ==
    ASSUME statement \in Text, NEW U, NEW e, NEW i, NEW q, Same(U, e, i, q), NEW k \in i .. q,
           NEW quote, NEW escapes, NEW mode,
           <<quote, escapes, mode>> \in Quotings,
           NEW Q, Q = QuoteEnd(quote, k, escapes),
           q = IF Q > Len(statement) THEN Len(statement) + 1 ELSE Q,
           NEW z, Inside(z, Before(U, e, k), mode), NEW x, x = Before(U, e, q)
    PROVE  Kept(z, x) /\ Landed(x, q)
<1> DEFINE n == Len(statement)
           End(j) == QuoteEnd(quote, j, escapes)
           Goal == Kept(z, x) /\ Landed(x, q)
           In(j) == j \in i .. q /\ End(j) = Q /\ Inside(z, Before(U, e, j), mode)
           D == {d \in 0 .. n + 1 : \A j \in Nat : n + 1 <= j + d /\ In(j) => Goal}
<1>1. n \in Nat
  BY AtFacts
<1>2. \A j \in 1 .. n : At(statement, j) = statement[j]
  BY AtFacts
<1>3. \A j : At(statement, j) # "" => j \in 1 .. n
  BY AtFacts
<1>4. /\ U \in Text /\ i \in Nat \ {0} /\ q \in Nat /\ i <= q /\ q <= n + 1 /\ e \in Int
      /\ \A j \in i .. q - 1 : j \in 1 .. n
  <2>1. statement \in Text /\ Same(U, e, i, q)
    OBVIOUS
  <2> QED
    BY ONLY <2>1, SameFacts
<1>5. \A j \in i .. q - 1 : U[j + e] = statement[j]
  BY DEF Same
<1>6. quote \notin {"", ":", "$", "\\"} /\ quote \notin IDENTIFIER_PART
  BY DEF Quotings, IDENTIFIER_PART, IDENTIFIER_START, DIGIT
<1> HIDE DEF n
<1>7. k \in Nat /\ (k \in 1 .. n \/ k = n + 1)
  BY <1>1, <1>4
<1>8. Q \in Nat /\ (Q > n => q = n + 1) /\ (Q <= n => q = Q)
  <2>1. Q \in Nat
    BY <1>7, QuoteEndFacts
  <2>2. q = IF Q > n THEN n + 1 ELSE Q
    BY DEF n
  <2> QED
    BY <1>1, <2>1, <2>2
<1>9. \A j \in Nat : In(j) => j <= Q /\ (j <= n => j < Q /\ j < q)
  <2> SUFFICES ASSUME NEW j \in Nat, In(j)
               PROVE  j <= Q /\ (j <= n => j < Q /\ j < q)
    OBVIOUS
  <2>1. j <= Q /\ (j <= n => j < Q)
    BY QuoteEndFacts DEF n
  <2>2. j <= n /\ j < Q => j < q
    BY <1>1, <1>4, <1>8
  <2> QED
    BY <2>1, <2>2
<1>10. ASSUME NEW j \in Nat, In(j), j > n PROVE Goal
  <2>1. j = q /\ q = n + 1
    BY <1>1, <1>4, <1>10
  <2>2. Becomes(z, x, mode, 0, "")
    BY <1>10, <2>1 DEF Inside
  <2>3. ~(q <= n)
    BY <1>1, <2>1
  <2> QED
    BY <2>2, <2>3 DEF Becomes, Landed, n
<1> HIDE DEF End
<1>11. 0 \in D
  <2>1. 0 \in 0 .. n + 1 /\ \A j \in Nat : n + 1 <= j + 0 => j > n
    BY <1>1
  <2> HIDE DEF Goal, In
  <2> QED
    BY <1>10, <2>1
<1>12. ASSUME NEW d \in 0 .. (n + 1) - 1, d \in D PROVE d + 1 \in D
  <2>1. ASSUME NEW j \in Nat, n + 1 <= j + (d + 1), In(j), j <= n PROVE Goal
    <3> DEFINE y == Before(U, e, j)
               v == Before(U, e, j + 1)
               c == statement[j]
               b == At(statement, j + 1)
    <3>1. j < Q /\ j < q /\ j \in i .. q
      BY <1>9, <2>1
    <3>2. j \in i .. q - 1 /\ j + 1 \in i .. q /\ j \in 1 .. n
      BY <1>1, <1>4, <2>1, <3>1
    <3>3. IsReader(y) /\ v = Read(U, j + e, y)
      BY <3>2, ReadStep
    <3>4. U[j + e] = c
      BY <1>5, <3>2
    <3>5. At(U, j + e + 1) = b \/ (j + 1 = q /\ Reference(q) /\ At(U, j + e + 1) = "$")
      <4>1. Ahead(U, e, j, q)
        BY <3>2, SameAhead
      <4> QED
        BY <4>1 DEF Ahead, b
    <3>6. At(U, j + e + 1) = quote <=> b = quote
      <4>1. j + 1 = q /\ Reference(q) => b = ":"
        BY DEF Reference
      <4> QED
        BY <1>6, <3>5, <4>1
    <3>7. Becomes(z, y, mode, 0, "") /\ End(j) = Q
      BY <2>1 DEF Inside
    <3> HIDE DEF y, v, c, b, Goal
    <3>8. /\ escapes /\ c = "\\" => Becomes(z, v, mode, 1, "")
          /\ ~(escapes /\ c = "\\") /\ c # quote => v = y
          /\ ~(escapes /\ c = "\\") /\ c = quote /\ b = quote => Becomes(z, v, mode, 1, "")
          /\ ~(escapes /\ c = "\\") /\ c = quote /\ b # quote => Becomes(z, v, "sql", 0, "")
      <4> DEFINE p == j + e
      <4>1. v = Read(U, p, y) /\ U[p] = c /\ (At(U, p + 1) = quote <=> b = quote)
        BY <3>3, <3>4, <3>6
      <4> HIDE DEF p
      <4>2. QuoteEffect(quote, escapes, mode, z, y, v, U[p], At(U, p + 1))
        BY <3>3, <3>7, <4>1, QuoteStep
      <4> QED
        BY <4>1, <4>2 DEF QuoteEffect
    <3>9. Q = IF escapes /\ c = "\\" THEN End(j + 2)
              ELSE IF c # quote THEN End(j + 1)
              ELSE IF b = quote THEN End(j + 2) ELSE j + 1
      <4>1. ~(j > Len(statement))
        BY <1>1, <2>1 DEF n
      <4> QED
        BY <3>7, <4>1, QuoteEndUnfolds DEF End, c, b
    <3>10. ASSUME Becomes(z, v, mode, 1, ""), Q = End(j + 2) PROVE Goal
      <4>1. j + 2 \in Nat /\ j + 1 \in Nat
        OBVIOUS
      <4>2. j + 2 <= Q
        BY <3>10, <4>1, QuoteEndFacts DEF End
      <4>3. CASE j + 1 = q
        <5>1. q = n + 1
          BY <1>1, <1>4, <1>8, <4>2, <4>3
        <5>2. ~(q <= n)
          BY <1>1, <5>1
        <5>3. x = v
          BY <4>3 DEF v
        <5> QED
          BY <3>10, <5>2, <5>3 DEF Goal, Becomes, Landed, n
      <4>4. CASE j + 1 # q
        <5> DEFINE l == j + 1
        <5>1. l \in i .. q - 1 /\ l + 1 = j + 2 /\ j + 2 \in i .. q /\ n + 1 <= (j + 2) + d
          BY <1>1, <1>4, <2>1, <3>2, <4>4
        <5>2. statement \in Text /\ Same(U, e, i, q) /\ v = Before(U, e, l)
          BY DEF v
        <5> HIDE DEF l
        <5>3. Becomes(z, Before(U, e, l + 1), mode, 0, "")
          BY ONLY <3>10, <5>1, <5>2, SkipOne
        <5>4. In(j + 2)
          BY <3>10, <5>1, <5>3 DEF Inside
        <5> HIDE DEF In
        <5> QED
          BY <1>12, <4>1, <5>1, <5>4
      <4> QED
        BY <4>3, <4>4
    <3>11. ASSUME v = y, Q = End(j + 1) PROVE Goal
      <4>1. j + 1 \in Nat /\ n + 1 <= (j + 1) + d
        BY <1>1, <2>1
      <4>2. In(j + 1)
        BY <3>2, <3>7, <3>11 DEF v, Inside
      <4> HIDE DEF In
      <4> QED
        BY <1>12, <4>1, <4>2
    <3>12. ASSUME Becomes(z, v, "sql", 0, ""), Q = j + 1, c = quote PROVE Goal
      <4>1. q = j + 1
        <5>1. Q = j + 1
          BY <3>12
        <5> QED
          BY <1>1, <1>4, <1>8, <2>1, <5>1
      <4>2. x = v /\ q - 1 = j
        BY <4>1 DEF v
      <4>3. At(statement, q - 1) = quote
        BY <1>2, <3>2, <3>12, <4>2 DEF c
      <4> QED
        BY <1>6, <3>12, <4>2, <4>3 DEF Goal, Becomes, Landed
    <3> QED
      BY <3>8, <3>9, <3>10, <3>11, <3>12
  <2>2. d + 1 \in 0 .. n + 1 /\ \A j \in Nat : j > n \/ j <= n
    BY <1>1
  <2> HIDE DEF Goal, In
  <2> QED
    BY <1>10, <2>1, <2>2
<1>13. k \in Nat /\ n + 1 <= k + (n + 1) /\ In(k)
  BY <1>1, <1>7 DEF End
<1> HIDE DEF D, Goal, In
<1>14. n + 1 \in D
  <2>1. n + 1 \in Nat /\ n + 1 \in 0 .. n + 1
    BY <1>1
  <2>2. \A d \in 0 .. n + 1 : d \in D
    BY <1>11, <1>12, <2>1, Induction
  <2> QED
    BY <2>1, <2>2
<1>15. Goal
  BY <1>13, <1>14 DEF D
<1> QED
  BY <1>15 DEF Goal

(* The ends of the comments one is in at k, by their depth. *)
Depths == Nat \ {0}
Opens(k) == IsAt(statement, k, <<"/", "*">>)
Closes(k) == IsAt(statement, k, <<"*", "/">>)

CommentEnds ==
    CHOOSE end :
        end = [k \in Nat |->
                  [depth \in Depths |->
                      IF k > Len(statement) THEN k
                      ELSE IF Opens(k) THEN end[k + 2][depth + 1]
                      ELSE IF ~Closes(k) THEN end[k + 1][depth]
                      ELSE IF depth = 1 THEN k + 2 ELSE end[k + 2][depth - 1]]]

(* Where a comment ends, from where it ends one character or two further on. *)
LEMMA CommentEndsUnfold ==
    ASSUME statement \in Text
    PROVE  /\ \A i : BlockEnd(i) = CommentEnds[i + 2][1]
           /\ \A k \in Nat : \A depth \in Depths :
                CommentEnds[k][depth] =
                      IF k > Len(statement) THEN k
                      ELSE IF Opens(k) THEN CommentEnds[k + 2][depth + 1]
                      ELSE IF ~Closes(k) THEN CommentEnds[k + 1][depth]
                      ELSE IF depth = 1 THEN k + 2 ELSE CommentEnds[k + 2][depth - 1]
<1> DEFINE n == Len(statement)
           Body(f, k, depth) ==
               IF k > n THEN k
               ELSE IF Opens(k) THEN f[k + 2][depth + 1]
               ELSE IF ~Closes(k) THEN f[k + 1][depth]
               ELSE IF depth = 1 THEN k + 2 ELSE f[k + 2][depth - 1]
           D == Nat \X Depths
           done == {x \in D : x[1] > n \/ (~Opens(x[1]) /\ Closes(x[1]) /\ x[2] = 1)}
           val == [x \in D |-> IF x[1] > n THEN x[1] ELSE x[1] + 2]
           next1 == [x \in D |-> IF Opens(x[1]) THEN <<x[1] + 2, x[2] + 1>>
                                 ELSE IF ~Closes(x[1]) THEN <<x[1] + 1, x[2]>>
                                 ELSE <<x[1] + 2, IF x[2] = 1 THEN 1 ELSE x[2] - 1>>]
           Size(k) == IF k > n + 1 THEN 0 ELSE n + 1 - k
           size == [x \in D |-> Size(x[1])]
<1>1. n \in Nat
  BY AtFacts
<1>2. CommentEnds = CHOOSE f : f = [k \in Nat |-> [depth \in Depths |-> Body(f, k, depth)]]
  BY DEF CommentEnds
<1>3. \A i : BlockEnd(i) = CommentEnds[i + 2][1]
  BY DEF BlockEnd, CommentEnds, Depths, Opens, Closes
<1> HIDE DEF n
<1>4. \A d \in Depths : d \in Nat /\ d # 0 /\ d + 1 \in Depths /\ (d # 1 => d - 1 \in Depths) /\ 1 \in Depths
  BY DEF Depths
<1>5. \A x \in D : x = <<x[1], x[2]>> /\ x[1] \in Nat /\ x[2] \in Depths /\ x[1] + 1 \in Nat /\ x[1] + 2 \in Nat
  OBVIOUS
<1>6. \A k \in Nat : Size(k) \in 0 .. n + 1 /\ (k <= n => Size(k + 1) < Size(k) /\ Size(k + 2) < Size(k))
  BY <1>1
<1>7. Descents(D, Nat, done, val, next1) # {}
  <2>1. n + 1 \in Nat /\ val \in [D -> Nat]
    BY <1>1, <1>5
  <2>2. next1 \in [D -> D]
    BY <1>4, <1>5
  <2>3. size \in [D -> 0 .. n + 1]
    <3> HIDE DEF Size
    <3> QED
      BY <1>5, <1>6
  <2>4. \A x \in D : x \notin done => size[next1[x]] < size[x]
    <3> SUFFICES ASSUME NEW x \in D, x \notin done
                 PROVE  size[next1[x]] < size[x]
      OBVIOUS
    <3>1. x[1] <= n /\ x[1] \in Nat
      BY <1>1, <1>5
    <3>2. next1[x] \in D /\ (next1[x][1] = x[1] + 1 \/ next1[x][1] = x[1] + 2)
      BY <2>2
    <3>3. size[next1[x]] = Size(next1[x][1]) /\ size[x] = Size(x[1])
      BY <3>2
    <3> HIDE DEF Size, next1, size, done, D
    <3> QED
      BY <1>6, <3>1, <3>2, <3>3
  <2> HIDE DEF done, val, next1, size, D
  <2> QED
    BY <2>1, <2>2, <2>3, <2>4, DescentExists
<1>8. PICK f \in [D -> Nat] : \A x \in D : f[x] = IF x \in done THEN val[x] ELSE f[next1[x]]
  BY <1>7 DEF Descents
<1> DEFINE g == [k \in Nat |-> [depth \in Depths |-> f[<<k, depth>>]]]
<1>9. \A k \in Nat : \A d \in Depths : g[k][d] = f[<<k, d>>]
  OBVIOUS
<1>10. ASSUME NEW k \in Nat, NEW d \in Depths
       PROVE  g[k][d] = Body(g, k, d)
  <2> DEFINE x == <<k, d>>
  <2>1. x \in D /\ x[1] = k /\ x[2] = d
    OBVIOUS
  <2>2. g[k][d] = IF x \in done THEN val[x] ELSE f[next1[x]]
    BY <1>8, <1>9, <2>1
  <2>3. k + 1 \in Nat /\ k + 2 \in Nat /\ d + 1 \in Depths /\ (d # 1 => d - 1 \in Depths)
    BY <1>4
  <2> HIDE DEF x, g
  <2>4. CASE k > n
    <3>1. x \in done /\ val[x] = k
      BY <2>1, <2>4
    <3> HIDE DEF done, val, next1
    <3> QED
      BY <2>2, <2>4, <3>1
  <2>5. CASE ~(k > n) /\ Opens(k)
    <3>1. x \notin done /\ next1[x] = <<k + 2, d + 1>>
      BY <2>1, <2>5
    <3> HIDE DEF done, val, next1
    <3> QED
      BY <1>9, <2>2, <2>3, <2>5, <3>1
  <2>6. CASE ~(k > n) /\ ~Opens(k) /\ ~Closes(k)
    <3>1. x \notin done /\ next1[x] = <<k + 1, d>>
      BY <2>1, <2>6
    <3> HIDE DEF done, val, next1
    <3> QED
      BY <1>9, <2>2, <2>3, <2>6, <3>1
  <2>7. CASE ~(k > n) /\ ~Opens(k) /\ Closes(k) /\ d = 1
    <3>1. x \in done /\ val[x] = k + 2
      BY <2>1, <2>7
    <3> HIDE DEF done, val, next1
    <3> QED
      BY <2>2, <2>7, <3>1
  <2>8. CASE ~(k > n) /\ ~Opens(k) /\ Closes(k) /\ d # 1
    <3>1. x \notin done /\ next1[x] = <<k + 2, d - 1>>
      BY <2>1, <2>8
    <3> HIDE DEF done, val, next1
    <3> QED
      BY <1>9, <2>2, <2>3, <2>8, <3>1
  <2> QED
    BY <2>4, <2>5, <2>6, <2>7, <2>8
<1> HIDE DEF done, val, next1, size
<1>11. g = [k \in Nat |-> [depth \in Depths |-> Body(g, k, depth)]]
  <2>1. \A k \in Nat : g[k] = [depth \in Depths |-> Body(g, k, depth)]
    <3> SUFFICES ASSUME NEW k \in Nat
                 PROVE  g[k] = [depth \in Depths |-> Body(g, k, depth)]
      OBVIOUS
    <3>1. g[k] = [depth \in Depths |-> f[<<k, depth>>]]
      OBVIOUS
    <3>2. \A d \in Depths : f[<<k, d>>] = Body(g, k, d)
      BY <1>9, <1>10
    <3> HIDE DEF g, Body
    <3> QED
      BY <3>1, <3>2
  <2>2. g = [k \in Nat |-> g[k]]
    OBVIOUS
  <2> HIDE DEF g, Body
  <2> QED
    BY <2>1, <2>2
<1> HIDE DEF g
<1>12. CommentEnds = [k \in Nat |-> [depth \in Depths |-> Body(CommentEnds, k, depth)]]
  BY <1>2, <1>11
<1>13. ASSUME NEW k \in Nat, NEW d \in Depths
       PROVE  CommentEnds[k][d] = Body(CommentEnds, k, d)
  <2> DEFINE E == CommentEnds
  <2>1. E = [j \in Nat |-> [depth \in Depths |-> Body(E, j, depth)]]
    BY <1>12
  <2> HIDE DEF E, Body
  <2>2. E[k] = [depth \in Depths |-> Body(E, k, depth)]
    BY <2>1
  <2>3. E[k][d] = Body(E, k, d)
    BY <2>2
  <2> QED
    BY <2>3 DEF E
<1> QED
  BY <1>3, <1>13 DEF n

(* It ends behind where it starts. *)
LEMMA CommentEndsFacts ==
    ASSUME statement \in Text, NEW k \in Nat, NEW depth \in Depths, NEW Q, Q = CommentEnds[k][depth]
    PROVE  Q \in Nat /\ k <= Q /\ (k <= Len(statement) => k < Q)
<1> DEFINE n == Len(statement)
           End(j, d) == CommentEnds[j][d]
           P(j, d) == End(j, d) \in Nat /\ j <= End(j, d) /\ (j <= n => j < End(j, d))
           D == {b \in 0 .. n + 1 : \A j \in Nat : \A d \in Depths : n + 1 <= j + b => P(j, d)}
<1>1. n \in Nat
  BY AtFacts
<1>2. \A d \in Depths : d + 1 \in Depths /\ (d # 1 => d - 1 \in Depths)
  BY DEF Depths
<1>3. \A j \in Nat : \A d \in Depths :
          \/ j > n /\ End(j, d) = j
          \/ j <= n /\ (End(j, d) = j + 2 \/ \E b \in Depths : End(j, d) = End(j + 2, b) \/ End(j, d) = End(j + 1, b))
  <2> SUFFICES ASSUME NEW j \in Nat, NEW d \in Depths
               PROVE  \/ j > n /\ End(j, d) = j
                      \/ /\ j <= n
                         /\ End(j, d) = j + 2 \/ \E b \in Depths : End(j, d) = End(j + 2, b) \/ End(j, d) = End(j + 1, b)
    OBVIOUS
  <2>1. End(j, d) = IF j > n THEN j
                    ELSE IF Opens(j) THEN End(j + 2, d + 1)
                    ELSE IF ~Closes(j) THEN End(j + 1, d)
                    ELSE IF d = 1 THEN j + 2 ELSE End(j + 2, d - 1)
    BY CommentEndsUnfold
  <2> HIDE DEF n, End
  <2>2. j > n \/ j <= n
    BY <1>1
  <2>3. j <= n => ~(j > n)
    BY <1>1
  <2> QED
    BY <1>2, <2>1, <2>2, <2>3
<1> HIDE DEF n, End
<1>4. 0 \in D
  <2>1. ASSUME NEW j \in Nat, NEW d \in Depths, n + 1 <= j + 0 PROVE P(j, d)
    <3>1. ~(j <= n)
      BY <1>1, <2>1
    <3>2. End(j, d) = j
      BY <1>3, <3>1
    <3> QED
      BY <3>1, <3>2
  <2> QED
    BY <1>1, <2>1
<1>5. ASSUME NEW a \in 0 .. (n + 1) - 1, a \in D PROVE a + 1 \in D
  <2>1. ASSUME NEW j \in Nat, NEW d \in Depths, n + 1 <= j + (a + 1) PROVE P(j, d)
    <3>1. /\ j + 1 \in Nat /\ j + 2 \in Nat /\ n + 1 <= (j + 1) + a /\ n + 1 <= (j + 2) + a
      BY <1>1, <2>1
    <3>2. \A b \in Depths : P(j + 1, b) /\ P(j + 2, b)
      BY <1>5, <3>1
    <3>3. CASE j > n
      <4>1. ~(j <= n)
        BY <1>1, <3>3
      <4>2. End(j, d) = j
        BY <1>3, <4>1
      <4> QED
        BY <4>1, <4>2
    <3>4. CASE j <= n /\ End(j, d) = j + 2
      BY <3>4
    <3>5. CASE j <= n /\ \E b \in Depths : End(j, d) = End(j + 2, b) \/ End(j, d) = End(j + 1, b)
      <4>1. PICK b \in Depths : End(j, d) = End(j + 2, b) \/ End(j, d) = End(j + 1, b)
        BY <3>5
      <4>2. P(j + 1, b) /\ P(j + 2, b)
        BY <3>2
      <4> DEFINE l == End(j, d)
      <4>3. l \in Nat /\ (j + 1 <= l \/ j + 2 <= l)
        BY <4>1, <4>2
      <4> HIDE DEF l
      <4>4. l \in Nat /\ j < l /\ j <= l
        BY <4>3
      <4> QED
        BY <4>4 DEF l
    <3> QED
      BY <1>3, <3>3, <3>4, <3>5
  <2>2. a + 1 \in 0 .. n + 1
    BY <1>1
  <2> QED
    BY <2>1, <2>2
<1> HIDE DEF D
<1>6. n + 1 \in D
  <2>1. n + 1 \in Nat /\ n + 1 \in 0 .. n + 1
    BY <1>1
  <2>2. \A a \in 0 .. n + 1 : a \in D
    BY <1>4, <1>5, <2>1, Induction
  <2> QED
    BY <2>1, <2>2
<1>7. P(k, depth)
  <2>1. n + 1 <= k + (n + 1)
    BY <1>1
  <2> QED
    BY <1>6, <2>1 DEF D
<1> QED
  BY <1>7 DEF End, n

(* What a reader in a comment makes of the beginning and the end of another. *)
CommentEffect(w, y, x, opens, closes) ==
    /\ opens => Becomes(w, x, "block", 1, "") /\ x.depth = y.depth + 1
    /\ ~opens /\ ~closes => x = y
    /\ ~opens /\ closes /\ y.depth = 1 => Becomes(w, x, "sql", 1, "")
    /\ ~opens /\ closes /\ y.depth # 1 => Becomes(w, x, "block", 1, "") /\ x.depth = y.depth - 1

(* That is what a character in a comment does. *)
LEMMA CommentStep ==
    ASSUME NEW U, NEW p, NEW w, NEW y, IsReader(y), Inside(w, y, "block"), NEW x, x = Read(U, p, y)
    PROVE  CommentEffect(w, y, x, IsAt(U, p, <<"/", "*">>), IsAt(U, p, <<"*", "/">>))
<1> DEFINE one == 1
           more == y.depth + 1
           less == y.depth - 1
           opens == IsAt(U, p, <<"/", "*">>)
           closes == IsAt(U, p, <<"*", "/">>)
           first == y.depth = 1
<1>1. y.mode = "block" /\ y.skip = 0 /\ y.word = "" /\ Kept(w, y) /\ y \in Readers
  BY DEF Inside, Becomes, IsReader
<1>2. ~(y.skip > 0)
  <2>1. y.skip = 0
    BY <1>1
  <2> QED
    BY ONLY <2>1
<1>3. x = IF opens THEN [y EXCEPT !.depth = more, !.skip = one]
          ELSE IF ~closes THEN y
          ELSE [y EXCEPT !.depth = less, !.skip = one, !.mode = IF first THEN "sql" ELSE @]
  <2> HIDE DEF opens, closes
  <2> QED
    BY <1>1, <1>2 DEF Read, opens, closes
<1> HIDE DEF one, more, less, opens, closes, first
<1>4. /\ Becomes(w, [y EXCEPT !.depth = more, !.skip = one], "block", one, "")
      /\ [y EXCEPT !.depth = more, !.skip = one].depth = more
  BY <1>1 DEF Readers, Becomes, Kept
<1>5. Becomes(w, [y EXCEPT !.depth = less, !.skip = one, !.mode = "sql"], "sql", one, "")
  BY <1>1 DEF Readers, Becomes, Kept
<1>6. /\ Becomes(w, [y EXCEPT !.depth = less, !.skip = one, !.mode = y.mode], "block", one, "")
      /\ [y EXCEPT !.depth = less, !.skip = one, !.mode = y.mode].depth = less
  BY <1>1 DEF Readers, Becomes, Kept
<1>7. /\ opens => Becomes(w, x, "block", one, "") /\ x.depth = more
      /\ ~opens /\ ~closes => x = y
      /\ ~opens /\ closes /\ first => Becomes(w, x, "sql", one, "")
      /\ ~opens /\ closes /\ ~first => Becomes(w, x, "block", one, "") /\ x.depth = less
  BY <1>3, <1>4, <1>5, <1>6
<1> QED
  BY <1>7 DEF one, more, less, opens, closes, first, CommentEffect

(* Two characters within the part are the same two in both texts. *)
LEMMA SamePair ==
    ASSUME statement \in Text, NEW U, NEW e, NEW i, NEW q, Same(U, e, i, q), NEW k \in i .. q - 1,
           NEW a \in Character, NEW b \in Character \ {":", "$"}
    PROVE  /\ IsAt(U, k + e, <<a, b>>) <=> IsAt(statement, k, <<a, b>>)
           /\ IsAt(statement, k, <<a, b>>) => k + 1 \in 1 .. Len(statement) /\ At(statement, k + 1) = b
<1> DEFINE p == k + e
<1>1. U \in Text /\ p \in 1 .. Len(U) /\ k \in 1 .. Len(statement)
  BY SameFacts
<1>2. U[p] = statement[k]
  BY DEF Same
<1>3. Ahead(U, e, k, q)
  BY SameAhead
<1>4. At(U, p + 1) = At(statement, k + 1) \/ (At(statement, k + 1) = ":" /\ At(U, p + 1) = "$")
  BY <1>3 DEF Ahead, Reference
<1> HIDE DEF p
<1>5. At(U, p) = U[p] /\ At(statement, k) = statement[k]
  BY <1>1, AtFacts
<1>6. p \in Nat \ {0} /\ k \in Nat \ {0} /\ b \in Character
  <2>1. Len(U) \in Nat /\ Len(statement) \in Nat
    BY <1>1, AtFacts
  <2> QED
    BY <1>1, <2>1
<1>7. IsAt(U, p, <<a, b>>) <=> At(U, p) = a /\ At(U, p + 1) = b
  BY <1>1, <1>6, PairIsAt
<1>8. IsAt(statement, k, <<a, b>>) <=> At(statement, k) = a /\ At(statement, k + 1) = b
  BY <1>6, PairIsAt
<1>9. At(statement, k + 1) = b => k + 1 \in 1 .. Len(statement)
  <2>1. b # ""
    BY SqlScanAssumption
  <2> QED
    BY <2>1, AtFacts
<1>10. IsAt(U, p, <<a, b>>) <=> IsAt(statement, k, <<a, b>>)
  BY <1>2, <1>4, <1>5, <1>7, <1>8
<1> QED
  BY <1>8, <1>9, <1>10 DEF p

(* A comment neither starts nor ends with what a placeholder could replace. *)
LEMMA CommentCharacters == "/" \in Character \ {":", "$"} /\ "*" \in Character \ {":", "$"}
BY SqlScanAssumption

InComment(z, y, depth) == Inside(z, y, "block") /\ y.depth = depth

(* A comment goes on to BlockEnd. *)
LEMMA CommentsRead ==
    ASSUME statement \in Text, NEW U, NEW e, NEW i, NEW q, Same(U, e, i, q), NEW k \in i .. q,
           NEW depth \in Depths, NEW Q, Q = CommentEnds[k][depth],
           q = IF Q > Len(statement) THEN Len(statement) + 1 ELSE Q,
           NEW z, InComment(z, Before(U, e, k), depth), NEW x, x = Before(U, e, q)
    PROVE  Kept(z, x) /\ Landed(x, q)
<1> DEFINE n == Len(statement)
           End(j, d) == CommentEnds[j][d]
           Goal == Kept(z, x) /\ Landed(x, q)
           In(j, d) == j \in i .. q /\ End(j, d) = Q /\ InComment(z, Before(U, e, j), d)
           D == {a \in 0 .. n + 1 : \A j \in Nat : \A d \in Depths : n + 1 <= j + a /\ In(j, d) => Goal}
<1>1. n \in Nat
  BY AtFacts
<1>2. /\ U \in Text /\ i \in Nat \ {0} /\ q \in Nat /\ i <= q /\ q <= n + 1 /\ e \in Int
      /\ \A j \in i .. q - 1 : j \in 1 .. n
  <2>1. statement \in Text /\ Same(U, e, i, q)
    OBVIOUS
  <2> QED
    BY ONLY <2>1, SameFacts
<1> HIDE DEF n
<1>3. \A d \in Depths : d + 1 \in Depths /\ (d # 1 => d - 1 \in Depths)
  BY DEF Depths
<1>4. k \in Nat /\ (k \in 1 .. n \/ k = n + 1)
  BY <1>1, <1>2
<1>5. Q \in Nat /\ (Q > n => q = n + 1) /\ (Q <= n => q = Q)
  <2>1. Q \in Nat
    BY <1>4, CommentEndsFacts
  <2>2. q = IF Q > n THEN n + 1 ELSE Q
    BY DEF n
  <2> QED
    BY <1>1, <2>1, <2>2
<1>6. \A j \in Nat : \A d \in Depths : In(j, d) => j <= Q /\ (j <= n => j < Q /\ j < q)
  <2> SUFFICES ASSUME NEW j \in Nat, NEW d \in Depths, In(j, d)
               PROVE  j <= Q /\ (j <= n => j < Q /\ j < q)
    OBVIOUS
  <2>1. j <= Q /\ (j <= n => j < Q)
    BY CommentEndsFacts DEF n
  <2>2. j <= n /\ j < Q => j < q
    BY <1>1, <1>2, <1>5
  <2> QED
    BY <2>1, <2>2
<1>7. ASSUME NEW j \in Nat, NEW d \in Depths, In(j, d), j > n PROVE Goal
  <2>1. j = q /\ q = n + 1
    BY <1>1, <1>2, <1>7
  <2>2. InComment(z, x, d)
    BY <1>7, <2>1
  <2>3. ~(q <= n)
    BY <1>1, <2>1
  <2> QED
    BY <2>2, <2>3 DEF InComment, Inside, Becomes, Landed, n
<1> HIDE DEF End
<1>8. 0 \in D
  <2>1. 0 \in 0 .. n + 1 /\ \A j \in Nat : n + 1 <= j + 0 => j > n
    BY <1>1
  <2> HIDE DEF Goal, In
  <2> QED
    BY <1>7, <2>1
<1>9. ASSUME NEW a \in 0 .. (n + 1) - 1, a \in D PROVE a + 1 \in D
  <2>1. ASSUME NEW j \in Nat, NEW d \in Depths, n + 1 <= j + (a + 1), In(j, d), j <= n PROVE Goal
    <3> DEFINE y == Before(U, e, j)
               v == Before(U, e, j + 1)
    <3>1. j < Q /\ j < q /\ j \in i .. q
      BY <1>6, <2>1
    <3>2. j \in i .. q - 1 /\ j + 1 \in i .. q /\ j \in 1 .. n /\ j + 1 \in Nat /\ j + 2 \in Nat
      BY <1>1, <1>2, <2>1, <3>1
    <3>3. IsReader(y) /\ v = Read(U, j + e, y)
      BY <3>2, ReadStep
    <3>4. InComment(z, y, d) /\ End(j, d) = Q
      BY <2>1
    <3> DEFINE l == j + 1
    <3>5. /\ IsAt(U, j + e, <<"/", "*">>) <=> Opens(j)
          /\ IsAt(U, j + e, <<"*", "/">>) <=> Closes(j)
          /\ Opens(j) \/ Closes(j) => l \in 1 .. n
          /\ Closes(j) => At(statement, l) = "/"
      <4>2. /\ IsAt(U, j + e, <<"/", "*">>) <=> IsAt(statement, j, <<"/", "*">>)
            /\ IsAt(statement, j, <<"/", "*">>) => l \in 1 .. n
        BY <3>2, CommentCharacters, SamePair DEF n
      <4>3. /\ IsAt(U, j + e, <<"*", "/">>) <=> IsAt(statement, j, <<"*", "/">>)
            /\ IsAt(statement, j, <<"*", "/">>) => l \in 1 .. n /\ At(statement, l) = "/"
        BY <3>2, CommentCharacters, SamePair DEF n
      <4> QED
        BY <4>2, <4>3 DEF Opens, Closes
    <3> HIDE DEF y, v, Goal, l
    <3>6. CommentEffect(z, y, v, Opens(j), Closes(j))
      <4> DEFINE p == j + e
                 opens == IsAt(U, p, <<"/", "*">>)
                 closes == IsAt(U, p, <<"*", "/">>)
      <4>1. v = Read(U, p, y) /\ (opens <=> Opens(j)) /\ (closes <=> Closes(j))
        BY <3>3, <3>5
      <4> HIDE DEF p
      <4>2. CommentEffect(z, y, v, opens, closes)
        BY <3>3, <3>4, <4>1, CommentStep DEF InComment
      <4> HIDE DEF opens, closes
      <4> QED
        BY <4>1, <4>2 DEF CommentEffect
    <3>7. Q = IF Opens(j) THEN End(j + 2, d + 1)
              ELSE IF ~Closes(j) THEN End(j + 1, d)
              ELSE IF d = 1 THEN j + 2 ELSE End(j + 2, d - 1)
      <4>1. ~(j > Len(statement))
        BY <1>1, <2>1 DEF n
      <4> QED
        BY <3>4, <4>1, CommentEndsUnfold DEF End
    <3>8. y.depth = d
      BY <3>4 DEF InComment
    <3>9. Opens(j) \/ Closes(j) => l \in i .. q - 1 /\ l + 1 = j + 2 /\ j + 2 \in i .. q
      <4> SUFFICES ASSUME Opens(j) \/ Closes(j)
                   PROVE  l \in i .. q - 1 /\ l + 1 = j + 2 /\ j + 2 \in i .. q
        OBVIOUS
      <4>1. l \in 1 .. n /\ l = j + 1
        BY <3>5 DEF l
      <4>2. j + 2 <= Q
        <5>1. ASSUME NEW b \in Depths, Q = End(j + 2, b) PROVE j + 2 <= Q
          BY <3>2, <5>1, CommentEndsFacts DEF End
        <5>2. CASE Q = j + 2
          BY <3>2, <5>2
        <5> QED
          BY <1>3, <3>7, <5>1, <5>2
      <4> QED
        BY <1>1, <1>2, <1>5, <3>2, <4>1, <4>2
    <3>10. ASSUME NEW mode, Becomes(z, v, mode, 1, ""), Opens(j) \/ Closes(j)
           PROVE  Becomes(z, Before(U, e, j + 2), mode, 0, "") /\ Before(U, e, j + 2).depth = v.depth
      <4>1. statement \in Text /\ Same(U, e, i, q) /\ v = Before(U, e, l)
        BY DEF v, l
      <4>2. l \in i .. q - 1 /\ l + 1 = j + 2
        BY <3>9, <3>10
      <4>3. Becomes(z, v, mode, 1, "")
        BY <3>10
      <4>4. Becomes(z, Before(U, e, l + 1), mode, 0, "")
        BY ONLY <4>1, <4>2, <4>3, SkipOne
      <4>5. AsDeep(v, Before(U, e, l + 1))
        BY ONLY <4>1, <4>2, <4>3, SkipOne
      <4> QED
        BY <4>2, <4>4, <4>5 DEF AsDeep
    <3>11. ASSUME NEW b \in Depths, Becomes(z, v, "block", 1, ""), v.depth = b, Q = End(j + 2, b), Opens(j) \/ Closes(j)
           PROVE  Goal
      <4>1. InComment(z, Before(U, e, j + 2), b)
        BY <3>10, <3>11 DEF InComment, Inside
      <4>2. In(j + 2, b)
        BY <3>9, <3>11, <4>1
      <4> HIDE DEF In
      <4>3. n + 1 <= (j + 2) + a
        BY <1>1, <2>1
      <4> QED
        BY <1>9, <3>2, <4>2, <4>3
    <3>12. ASSUME v = y, Q = End(j + 1, d) PROVE Goal
      <4>1. In(j + 1, d)
        BY <3>2, <3>4, <3>12 DEF v
      <4> HIDE DEF In
      <4>2. n + 1 <= (j + 1) + a
        BY <1>1, <2>1
      <4> QED
        BY <1>9, <3>2, <4>1, <4>2
    <3>13. ASSUME Becomes(z, v, "sql", 1, ""), Q = j + 2, Closes(j) PROVE Goal
      <4>1. q = j + 2 /\ q - 1 = l
        <5>1. Q = j + 2 /\ j + 2 \in i .. q /\ l = j + 1
          BY <3>9, <3>13 DEF l
        <5> QED
          BY <1>1, <1>2, <1>5, <5>1
      <4>2. Becomes(z, x, "sql", 0, "")
        BY <3>10, <3>13, <4>1
      <4>3. At(statement, q - 1) = "/"
        BY <3>5, <3>13, <4>1
      <4>4. "/" \notin IDENTIFIER_PART
        BY DEF IDENTIFIER_PART, IDENTIFIER_START, DIGIT
      <4> QED
        BY <4>2, <4>3, <4>4 DEF Goal, Becomes, Landed
    <3>14. CASE Opens(j)
      <4>1. Becomes(z, v, "block", 1, "") /\ v.depth = d + 1
        BY <3>6, <3>8, <3>14 DEF CommentEffect
      <4>2. Q = End(j + 2, d + 1)
        BY <3>7, <3>14
      <4> QED
        BY <1>3, <3>11, <3>14, <4>1, <4>2
    <3>15. CASE ~Opens(j) /\ ~Closes(j)
      BY <3>6, <3>7, <3>12, <3>15 DEF CommentEffect
    <3>16. CASE ~Opens(j) /\ Closes(j) /\ d = 1
      BY <3>6, <3>7, <3>8, <3>13, <3>16 DEF CommentEffect
    <3>17. CASE ~Opens(j) /\ Closes(j) /\ d # 1
      <4>1. Becomes(z, v, "block", 1, "") /\ v.depth = d - 1
        BY <3>6, <3>8, <3>17 DEF CommentEffect
      <4>2. Q = End(j + 2, d - 1)
        BY <3>7, <3>17
      <4> QED
        BY <1>3, <3>11, <3>17, <4>1, <4>2
    <3> QED
      BY <3>14, <3>15, <3>16, <3>17
  <2>2. a + 1 \in 0 .. n + 1 /\ \A j \in Nat : j > n \/ j <= n
    BY <1>1
  <2> HIDE DEF Goal, In
  <2> QED
    BY <1>7, <2>1, <2>2
<1>10. k \in Nat /\ n + 1 <= k + (n + 1) /\ In(k, depth)
  BY <1>1, <1>4 DEF End
<1> HIDE DEF D, Goal, In
<1>11. n + 1 \in D
  <2>1. n + 1 \in Nat /\ n + 1 \in 0 .. n + 1
    BY <1>1
  <2>2. \A a \in 0 .. n + 1 : a \in D
    BY <1>8, <1>9, <2>1, Induction
  <2> QED
    BY <2>1, <2>2
<1>12. Goal
  BY <1>10, <1>11 DEF D
<1> QED
  BY <1>12 DEF Goal

-----------------------------------------------------------------------------
(* The fragments that begin with one character or two.                     *)

(* The first character of a fragment. *)
LEMMA FirstStep ==
    ASSUME statement \in Text, NEW U, NEW e, NEW i, NEW q, Same(U, e, i, q), i < q,
           NEW z, z = Before(U, e, i), z.mode = "sql", z.skip = 0
    PROVE  /\ Effect(U, e, i, q, z, Before(U, e, i + 1), At(statement, i), At(statement, i + 1), At(U, i + e + 1))
           /\ i \in 1 .. Len(statement)
<1>1. /\ i \in Nat \ {0} /\ q \in Nat
      /\ \A k \in i .. q - 1 : k \in 1 .. Len(statement) /\ At(statement, k) = statement[k]
  <2>1. statement \in Text /\ Same(U, e, i, q)
    OBVIOUS
  <2> QED
    BY ONLY <2>1, SameFacts
<1>2. i \in i .. q - 1
  BY <1>1
<1>3. i \in 1 .. Len(statement) /\ At(statement, i) = statement[i]
  BY <1>1, <1>2
<1>4. Effect(U, e, i, q, z, Before(U, e, i + 1), At(statement, i), At(statement, i + 1), At(U, i + e + 1))
  BY <1>2, <1>3, SqlStep
<1> QED
  BY <1>3, <1>4

(* The second one, where the first had it skipped. *)
LEMMA SecondStep ==
    ASSUME statement \in Text, NEW U, NEW e, NEW i, NEW q, Same(U, e, i, q), i + 2 <= q,
           NEW z, NEW mode, NEW word, Becomes(z, Before(U, e, i + 1), mode, 1, word)
    PROVE  /\ Becomes(z, Before(U, e, i + 2), mode, 0, word)
           /\ AsDeep(Before(U, e, i + 1), Before(U, e, i + 2))
<1> DEFINE k == i + 1
           y == Before(U, e, k)
<1>1. k \in i .. q - 1 /\ k + 1 = i + 2
  <2>1. i \in Nat \ {0} /\ q \in Nat
    BY DEF Same
  <2> QED
    BY <2>1
<1>2. statement \in Text /\ Same(U, e, i, q) /\ Becomes(z, y, mode, 1, word) /\ y = Before(U, e, k)
  OBVIOUS
<1> HIDE DEF k, y
<1>3. Becomes(z, Before(U, e, k + 1), mode, 0, word)
  BY ONLY <1>1, <1>2, SkipOne
<1>4. AsDeep(y, Before(U, e, k + 1))
  BY ONLY <1>1, <1>2, SkipOne
<1> QED
  BY <1>1, <1>3, <1>4 DEF k, y

(* A block comment, from its first character on. *)
LEMMA BlockCommentRead ==
    ASSUME statement \in Text, NEW U, NEW e, NEW i, NEW q, Same(U, e, i, q), i < q,
           NEW z, z = Before(U, e, i), z.mode = "sql", z.skip = 0,
           At(statement, i) = "/", At(statement, i + 1) = "*",
           q = IF BlockEnd(i) > Len(statement) THEN Len(statement) + 1 ELSE BlockEnd(i),
           NEW x, x = Before(U, e, q)
    PROVE  Kept(z, x) /\ Landed(x, q)
<1> DEFINE n == Len(statement)
           one == 1
           k == i + 2
           Q == CommentEnds[k][one]
           y == Before(U, e, i + 1)
           w == Before(U, e, k)
<1>1. n \in Nat /\ i \in 1 .. n /\ i + 1 \in 1 .. n /\ q \in Nat /\ i \in Nat \ {0}
  <2>1. i \in 1 .. n
    BY FirstStep
  <2>2. At(statement, i + 1) # ""
    OBVIOUS
  <2>3. n \in Nat /\ i + 1 \in 1 .. n
    BY <2>2, AtFacts
  <2> QED
    BY <2>1, <2>3 DEF Same
<1>2. BlockEnd(i) = Q
  BY CommentEndsUnfold
<1>3. one \in Depths /\ k \in Nat
  BY <1>1 DEF Depths
<1>4. Effect(U, e, i, q, z, y, "/", "*", At(U, i + e + 1))
  BY FirstStep
<1>5. Becomes(z, y, "block", 1, "") /\ y.depth = one
  BY <1>4 DEF Effect
<1> HIDE DEF y, Q
<1>6. Q \in Nat /\ k <= Q
  <2> HIDE DEF k, one
  <2> QED
    BY <1>3, CommentEndsFacts DEF Q
<1>7. q = IF Q > Len(statement) THEN Len(statement) + 1 ELSE Q
  BY <1>2
<1>8. i + 2 <= q /\ k \in i .. q
  <2>1. q = IF Q > n THEN n + 1 ELSE Q
    BY <1>7
  <2> HIDE DEF n, one
  <2> QED
    BY <1>1, <1>6, <2>1
<1>9. Becomes(z, w, "block", 0, "") /\ AsDeep(y, w)
  <2>1. statement \in Text /\ Same(U, e, i, q) /\ Becomes(z, Before(U, e, i + 1), "block", 1, "")
    BY <1>5 DEF y
  <2> QED
    BY ONLY <1>8, <2>1, SecondStep DEF y, w, k
<1>10. InComment(z, w, one)
  BY <1>5, <1>9 DEF InComment, Inside, AsDeep
<1> HIDE DEF k, one, w
<1>11. InComment(z, Before(U, e, k), one) /\ Q = CommentEnds[k][one] /\ statement \in Text /\ Same(U, e, i, q)
       /\ x = Before(U, e, q)
  BY <1>10 DEF w, Q
<1> QED
  BY ONLY <1>3, <1>7, <1>8, <1>11, CommentsRead

(* A string with escapes, from its E on. *)
LEMMA EscapeStringRead ==
    ASSUME statement \in Text, NEW U, NEW e, NEW i, NEW q, Same(U, e, i, q), i < q,
           NEW z, z = Before(U, e, i), z.mode = "sql", z.skip = 0, z.word = "",
           At(statement, i) = "E", At(statement, i + 1) = "'",
           NEW Q, Q = QuoteEnd("'", i + 2, TRUE),
           q = IF Q > Len(statement) THEN Len(statement) + 1 ELSE Q,
           NEW x, x = Before(U, e, q)
    PROVE  Kept(z, x) /\ Landed(x, q)
<1> DEFINE n == Len(statement)
           k == i + 2
           y == Before(U, e, i + 1)
           w == Before(U, e, k)
           quote == "'"
           mode == "escape"
<1>1. n \in Nat /\ i \in 1 .. n /\ i + 1 \in 1 .. n /\ q \in Nat /\ i \in Nat \ {0}
  <2>1. i \in 1 .. n
    BY FirstStep
  <2>2. At(statement, i + 1) # ""
    OBVIOUS
  <2>3. n \in Nat /\ i + 1 \in 1 .. n
    BY <2>2, AtFacts
  <2> QED
    BY <2>1, <2>3 DEF Same
<1>4. Effect(U, e, i, q, z, y, "E", "'", At(U, i + e + 1))
  BY FirstStep
<1>5. Becomes(z, y, mode, 1, "")
  BY <1>4 DEF Effect
<1>6. <<quote, TRUE, mode>> \in Quotings
  BY DEF Quotings
<1> HIDE DEF y, quote, mode, n
<1>7. k \in Nat /\ Q = QuoteEnd(quote, k, TRUE)
  <2>1. k \in Nat
    BY ONLY <1>1
  <2> QED
    BY <2>1 DEF quote
<1>8. Q \in Nat /\ k <= Q
  <2> HIDE DEF k
  <2> QED
    BY <1>7, QuoteEndFacts
<1>9. q = IF Q > n THEN n + 1 ELSE Q
  BY DEF n
<1>10. i + 2 <= q /\ k \in i .. q
  BY ONLY <1>1, <1>8, <1>9
<1>11. Becomes(z, w, mode, 0, "")
  <2>1. statement \in Text /\ Same(U, e, i, q) /\ Becomes(z, Before(U, e, i + 1), mode, 1, "")
    BY <1>5 DEF y
  <2> QED
    BY ONLY <1>10, <2>1, SecondStep DEF w, k
<1> HIDE DEF k, w
<1>12. /\ Inside(z, Before(U, e, k), mode) /\ statement \in Text /\ Same(U, e, i, q) /\ x = Before(U, e, q)
       /\ q = IF Q > Len(statement) THEN Len(statement) + 1 ELSE Q
  BY <1>11 DEF Inside, w
<1> QED
  BY ONLY <1>6, <1>7, <1>10, <1>12, QuotesRead

(* A string or a quoted name, from its quote on. *)
LEMMA QuotedRead ==
    ASSUME statement \in Text, NEW U, NEW e, NEW i, NEW q, Same(U, e, i, q), i < q,
           NEW z, z = Before(U, e, i), z.mode = "sql", z.skip = 0,
           At(statement, i) \in {"'", "q"},
           NEW Q, Q = QuoteEnd(At(statement, i), i + 1, FALSE),
           q = IF Q > Len(statement) THEN Len(statement) + 1 ELSE Q,
           NEW x, x = Before(U, e, q)
    PROVE  Kept(z, x) /\ Landed(x, q)
<1> DEFINE n == Len(statement)
           k == i + 1
           w == Before(U, e, k)
           quote == At(statement, i)
           mode == IF quote = "q" THEN "name" ELSE "string"
<1>1. n \in Nat /\ i \in 1 .. n /\ q \in Nat /\ i \in Nat \ {0}
  BY FirstStep, AtFacts DEF Same
<1>4. Effect(U, e, i, q, z, w, quote, At(statement, i + 1), At(U, i + e + 1))
  BY FirstStep
<1>5. Becomes(z, w, mode, 0, "")
  BY <1>4 DEF Effect
<1>6. <<quote, FALSE, mode>> \in Quotings
  BY DEF Quotings
<1> HIDE DEF quote, mode, n
<1>7. k \in Nat /\ Q = QuoteEnd(quote, k, FALSE)
  BY <1>1 DEF quote
<1>8. k \in i .. q
  <2>1. i < q
    OBVIOUS
  <2> QED
    BY ONLY <1>1, <2>1
<1> HIDE DEF k, w
<1>9. /\ Inside(z, Before(U, e, k), mode) /\ statement \in Text /\ Same(U, e, i, q) /\ x = Before(U, e, q)
      /\ q = IF Q > Len(statement) THEN Len(statement) + 1 ELSE Q
  BY <1>5 DEF Inside, w
<1> QED
  BY ONLY <1>6, <1>7, <1>8, <1>9, QuotesRead

-----------------------------------------------------------------------------
(* Between the fragments.                                                  *)

(* The reader is in live SQL before the place of i, and knows whether a word ends there. *)
Live(z, i) ==
    /\ z.skip = 0
    /\ z.mode = "sql" \/ (z.mode = "line" /\ z.word = "" /\ At(statement, i) = "n")
    /\ At(statement, i) \in IDENTIFIER_PART => (z.word = "" <=> At(statement, i - 1) \notin IDENTIFIER_PART)

InWord(z) == z.word = "identifier"

(* A reader that has landed is in live SQL. *)
LEMMA LandedLive ==
    ASSUME NEW x, NEW q, q <= Len(statement), Landed(x, q)
    PROVE  Live(x, q) /\ ~InWord(x)
BY DEF Landed, Live, InWord

(* A reader in live SQL reads the next character there, at the end of a line too. *)
LEMMA LiveInSql ==
    ASSUME NEW z, NEW i, Live(z, i), At(statement, i) # "n"
    PROVE  z.mode = "sql" /\ z.skip = 0
BY DEF Live

(* A cast is read as one. *)
LEMMA CastRead ==
    ASSUME statement \in Text, NEW U, NEW e, NEW i, NEW q, Same(U, e, i, q), q = i + 2,
           NEW z, z = Before(U, e, i), z.mode = "sql", z.skip = 0,
           At(statement, i) = ":", At(statement, i + 1) = ":", NEW x, x = Before(U, e, q)
    PROVE  Kept(z, x) /\ Landed(x, q)
<1> DEFINE y == Before(U, e, i + 1)
           d == At(U, i + e + 1)
<1>1. i \in Nat \ {0} /\ q \in Nat /\ q = i + 2
  BY DEF Same
<1>2. i < q /\ i + 2 <= q /\ i + 1 # q /\ q - 1 = i + 1
  BY ONLY <1>1
<1>3. Effect(U, e, i, q, z, y, ":", ":", d)
  BY <1>2, FirstStep
<1>4. d = ":"
  BY <1>2, <1>3 DEF Effect
<1>5. Becomes(z, y, "sql", 1, "")
  BY <1>3, <1>4 DEF Effect
<1>6. Becomes(z, Before(U, e, i + 2), "sql", 0, "")
  <2>1. statement \in Text /\ Same(U, e, i, q) /\ Becomes(z, Before(U, e, i + 1), "sql", 1, "")
    BY <1>5
  <2> QED
    BY ONLY <1>2, <2>1, SecondStep
<1>7. Becomes(z, x, "sql", 0, "")
  BY <1>1, <1>6
<1>8. At(statement, q - 1) = ":"
  BY <1>2
<1>9. ":" \notin IDENTIFIER_PART
  BY DEF IDENTIFIER_PART, IDENTIFIER_START, DIGIT
<1> QED
  BY <1>7, <1>8, <1>9 DEF Becomes, Landed

LiteralEffect(z, x, c, q) ==
    /\ Kept(z, x) /\ Live(x, q)
    /\ InWord(x) <=> c \in IDENTIFIER_START \/ (c \in DIGIT /\ InWord(z))

(* Any other character leaves the reader in live SQL. *)
LEMMA LiteralRead ==
    ASSUME statement \in Text, NEW U, NEW e, NEW i, NEW q, Same(U, e, i, q), q = i + 1,
           NEW z, z = Before(U, e, i), Live(z, i),
           NEW c, c = At(statement, i), NEW b, b = At(statement, i + 1), c \notin {"'", "q", "$"},
           <<c, b>> \notin {<<"-", "-">>, <<"/", "*">>, <<":", ":">>}, ~(c = ":" /\ b \in IDENTIFIER_START),
           ~(c = "E" /\ b = "'" /\ At(statement, i - 1) \notin IDENTIFIER_PART),
           NEW x, x = Before(U, e, q)
    PROVE  LiteralEffect(z, x, c, q)
<1> DEFINE word == IF z.word = "" THEN "number" ELSE z.word
<1>1. i \in Nat \ {0} /\ q \in Nat /\ q = i + 1
  BY DEF Same
<1>2. i < q /\ i \in i .. q - 1 /\ q - 1 = i
  BY ONLY <1>1
<1>3. /\ IDENTIFIER_START = {"a", "b", "E"} /\ IDENTIFIER_PART = IDENTIFIER_START \cup DIGIT
      /\ {"-", "/", "'", "q", "$", ":", "n"} \cap IDENTIFIER_PART = {} /\ IDENTIFIER_START \cap DIGIT = {}
  BY DEF IDENTIFIER_PART, IDENTIFIER_START, DIGIT
<1>4. At(statement, q - 1) = c
  BY <1>2
<1>5. CASE z.mode = "sql"
  <2>1. z.skip = 0
    BY DEF Live
  <2>2. Effect(U, e, i, q, z, x, c, b, At(U, i + e + 1))
    BY <1>2, <1>5, <2>1, FirstStep
  <2>3. ~(c = "E" /\ b = "'" /\ z.word = "")
    BY <1>3 DEF Live
  <2>4. /\ c \in IDENTIFIER_START /\ ~(c = "E" /\ b = "'" /\ z.word = "") => Becomes(z, x, "sql", 0, "identifier")
        /\ c \in DIGIT => Becomes(z, x, "sql", 0, word)
        /\ (/\ ~(c = "-" /\ b = "-") /\ ~(c = "/" /\ b = "*") /\ c \notin {"'", "q", "$"}
            /\ ~(c = ":" /\ (b = ":" \/ b \in IDENTIFIER_START)) /\ c \notin IDENTIFIER_PART) =>
              Becomes(z, x, "sql", 0, "")
    BY <2>2 DEF Effect
  <2>5. CASE c \in IDENTIFIER_START
    <3>1. Becomes(z, x, "sql", 0, "identifier")
      BY <2>3, <2>4, <2>5
    <3> QED
      BY <1>3, <1>4, <2>5, <3>1 DEF Becomes, LiteralEffect, Live, InWord
  <2>6. CASE c \in DIGIT
    <3>1. Becomes(z, x, "sql", 0, word) /\ word # "" /\ (word = "identifier" <=> z.word = "identifier")
      BY <2>4, <2>6
    <3> QED
      BY <1>3, <1>4, <2>6, <3>1 DEF Becomes, LiteralEffect, Live, InWord
  <2>7. CASE c \notin IDENTIFIER_PART
    <3>1. Becomes(z, x, "sql", 0, "")
      BY <2>4, <2>7
    <3> QED
      BY <1>3, <1>4, <2>7, <3>1 DEF Becomes, LiteralEffect, Live, InWord
  <2> QED
    BY <1>3, <2>5, <2>6, <2>7
<1>6. CASE z.mode = "line" /\ z.word = "" /\ c = "n"
  <2>1. x = Read(U, i + e, z) /\ IsReader(z)
    BY <1>2, ReadStep
  <2>2. U[i + e] = c
    <3>1. i \in 1 .. Len(statement) /\ U[i + e] = statement[i]
      <4>1. statement \in Text /\ Same(U, e, i, q)
        OBVIOUS
      <4> QED
        BY ONLY <1>2, <4>1, SameFacts
    <3> QED
      BY <3>1, AtFacts
  <2>3. z.skip = 0 /\ ~(z.skip > 0)
    <3>1. z.skip = 0
      BY DEF Live
    <3>2. ~(z.skip > 0)
      BY ONLY <3>1
    <3> QED
      BY <3>1, <3>2
  <2>4. x = [z EXCEPT !.mode = "sql"]
    BY <1>6, <2>1, <2>2, <2>3 DEF Read
  <2>5. x.mode = "sql" /\ x.skip = 0 /\ x.word = "" /\ Kept(z, x)
    BY <1>6, <2>1, <2>3, <2>4 DEF IsReader, Readers, Kept
  <2> QED
    BY <1>3, <1>4, <1>6, <2>5 DEF LiteralEffect, Live, InWord
<1> QED
  BY <1>5, <1>6 DEF Live

-----------------------------------------------------------------------------
(* A reference in the statement, and the placeholder in its stead.         *)

(* A reference of the statement is read as one, and ends as a number does. *)
LEMMA ReferenceRead ==
    ASSUME statement \in Text, NEW i \in Nat \ {0}, Reference(i), ~PostgresReads(statement).odd,
           NEW q, q = IdentifierEnd(statement, i + 1),
           NEW z, z = Before(statement, 0, i), Live(z, i), NEW x, x = Before(statement, 0, q)
    PROVE  /\ q \in Nat /\ i + 1 < q /\ q <= Len(statement) + 1 /\ At(statement, q) \notin IDENTIFIER_PART
           /\ ~InWord(z) /\ (q <= Len(statement) => Live(x, q) /\ ~InWord(x))
<1> DEFINE n == Len(statement)
           j == i + 1
           m == q - i - 1
           y == Before(statement, 0, j)
           b == At(statement, j)
<1>1. b \in IDENTIFIER_START /\ At(statement, i) = ":"
  BY DEF Reference
<1>2. b # "" /\ b \in IDENTIFIER_PART /\ At(statement, i) # ""
  BY <1>1 DEF IDENTIFIER_START, IDENTIFIER_PART
<1>3. n \in Nat /\ i \in 1 .. n /\ j \in 1 .. n
  BY <1>1, <1>2, AtFacts
<1> HIDE DEF n, b
<1>4. j \in Nat \ {0} /\ j <= n + 1
  BY <1>3
<1>5. q \in Nat /\ j <= q /\ q <= n + 1 /\ At(statement, q) \notin IDENTIFIER_PART
  <2>1. /\ q \in Nat /\ j <= q /\ q <= Len(statement) + 1 /\ At(statement, q) \notin IDENTIFIER_PART
    <3> HIDE DEF j
    <3>1. q = IdentifierEnd(statement, j) /\ j <= Len(statement) + 1
      BY <1>4 DEF j, n
    <3> QED
      BY <1>4, <3>1, IdentifierEndFacts
  <2> QED
    BY <2>1 DEF n
<1>6. j # q
  BY <1>2, <1>5 DEF b
<1>7. j < q /\ i < q /\ i <= q /\ m \in Nat /\ q - j <= m /\ m - (q - j) = 0 /\ j \in i .. q /\ q \in j .. q
  BY ONLY <1>3, <1>5, <1>6
<1>8. Same(statement, 0, i, q)
  BY <1>5, <1>7, SelfSame DEF n
<1>9. z.mode = "sql" /\ z.skip = 0
  <2>1. ":" # "n"
    OBVIOUS
  <2> QED
    BY <1>1, <2>1, LiveInSql
<1>10. i + 0 = i /\ i + 0 + 1 = j /\ j - 1 + 0 = i /\ (i + 0) = i
  BY ONLY <1>3
<1>11. Effect(statement, 0, i, q, z, y, ":", b, b)
  <2>1. Effect(statement, 0, i, q, z, y, At(statement, i), At(statement, i + 1), At(statement, i + 0 + 1))
    BY <1>7, <1>8, <1>9, FirstStep
  <2> QED
    BY <1>1, <1>10, <2>1 DEF b
<1>12. /\ y.mode = "sql" /\ y.skip = IdentifierEnd(statement, i + 0 + 1) - (i + 0) - 1 /\ y.word = ""
       /\ z.word = "identifier" => y.odd
  BY <1>1, <1>11 DEF Effect
<1>13. y.skip = m
  <2>1. y.skip = IdentifierEnd(statement, i + 0 + 1) - (i + 0) - 1
    BY <1>12
  <2> QED
    BY <1>10, <2>1
<1>14. ~y.odd
  <2>1. y = ReaderAfter(statement)[i]
    BY <1>10 DEF Before
  <2>2. i \in 0 .. Len(statement)
    BY <1>3 DEF n
  <2> QED
    BY <2>1, <2>2, OddStays
<1>15. x.mode = y.mode /\ x.word = y.word /\ x.skip = m - (q - j)
  <2>1. statement \in Text /\ y = Before(statement, 0, j) /\ x = Before(statement, 0, q)
    OBVIOUS
  <2> HIDE DEF j, m, y
  <2> QED
    BY ONLY <1>7, <1>8, <1>13, <2>1, SkipStep
<1>16. Live(x, q) /\ ~InWord(x)
  BY <1>5, <1>7, <1>12, <1>15 DEF Live, InWord
<1>17. ~InWord(z)
  BY <1>12, <1>14 DEF InWord
<1>18. i + 1 < q
  BY ONLY <1>7
<1> QED
  BY <1>5, <1>16, <1>17, <1>18 DEF n

PlaceholderEffect(z, x, numeral) ==
    /\ Becomes(x, x, "sql", 0, "number")
    /\ x.placeholders = Append(z.placeholders, numeral) /\ x.references = z.references

(* A placeholder is read as one, with its number. *)
LEMMA PlaceholderRead ==
    ASSUME NEW U \in Text, NEW p \in Nat \ {0}, NEW numeral \in Seq(DIGIT), NEW m, m = Len(numeral), m # 0,
           p + m <= Len(U), U[p] = "$", \A k \in 1 .. m : U[p + k] = numeral[k], At(U, p + m + 1) \notin DIGIT,
           NEW z, z = ReaderAfter(U)[p - 1], z.mode = "sql", z.skip = 0, ~InWord(z),
           NEW x, x = ReaderAfter(U)[p + m]
    PROVE  PlaceholderEffect(z, x, numeral)
<1> DEFINE n == Len(U)
           j == p + 1
           q == p + m + 1
           d == At(U, j)
           y == ReaderAfter(U)[p]
           tag == DollarTag(U, p)
           skip == NumberEnd(U, p + 1) - p - 1
           w == SubSeq(U, p + 1, NumberEnd(U, p + 1) - 1)
<1>1. n \in Nat /\ m \in Nat /\ m # 0 /\ p \in Nat \ {0} /\ p + m <= n
  <2>1. n \in Nat
    BY AtFacts
  <2>2. m \in Nat
    BY LenProperties
  <2> QED
    BY <2>1, <2>2
<1>2. \A k \in 1 .. m : numeral[k] \in DIGIT
  BY LenProperties
<1>3. /\ p \in 1 .. n /\ j \in 1 .. n /\ j \in Nat \ {0} /\ q \in Nat /\ j <= q /\ q <= n + 1 /\ 1 \in 1 .. m
      /\ p \in 0 .. n /\ m \in 0 .. m /\ p + m <= n
      /\ \A k \in j .. q - 1 : k - p \in 1 .. m /\ p + (k - p) = k
  BY ONLY <1>1
<1>4. d = U[j] /\ U[j] = numeral[1] /\ d \in DIGIT
  <2>1. U[p + 1] = numeral[1]
    BY <1>3
  <2>2. d = U[j]
    BY <1>3, AtFacts
  <2> QED
    BY <1>2, <1>3, <2>1, <2>2
<1>5. \A k \in j .. q - 1 : U[k] \in DIGIT
  <2> SUFFICES ASSUME NEW k \in j .. q - 1
               PROVE  U[k] \in DIGIT
    OBVIOUS
  <2>1. k - p \in 1 .. m /\ p + (k - p) = k
    BY <1>3
  <2>2. U[p + (k - p)] = numeral[k - p] /\ numeral[k - p] \in DIGIT
    BY <1>2, <2>1
  <2> QED
    BY <2>1, <2>2
<1>6. NumberEnd(U, j) = q
  <2>1. U \in Text /\ At(U, q) \notin DIGIT /\ n = Len(U)
    OBVIOUS
  <2> HIDE DEF j, q, n
  <2>2. j \in Nat \ {0} /\ q \in Nat /\ j <= q /\ q <= Len(U) + 1
    BY <1>3, <2>1
  <2> QED
    BY ONLY <1>5, <2>1, <2>2, NumberEndIs
<1>7. skip = m /\ w = SubSeq(U, j, p + m)
  <2>1. q - 1 = p + m /\ q - p - 1 = m
    BY ONLY <1>1
  <2> QED
    BY <1>6, <2>1
<1>8. w = numeral
  <2> DEFINE s == SubSeq(U, j, p + m)
             o == p + m
  <2>1. o \in Nat /\ o <= Len(U) /\ j <= o + 1 /\ o + 1 - j = m /\ \A k \in 1 .. m : j + k - 1 = p + k
    BY ONLY <1>1
  <2> HIDE DEF o
  <2>2. SubSeq(U, j, o) \in Text /\ Len(SubSeq(U, j, o)) = m /\ \A k \in 1 .. m : SubSeq(U, j, o)[k] = U[j + k - 1]
    <3> HIDE DEF j
    <3>1. U \in Text /\ j \in Nat \ {0}
      BY <1>3
    <3> QED
      BY ONLY <2>1, <3>1, SubSeqFacts
  <2>3. s \in Text /\ Len(s) = m /\ \A k \in 1 .. m : s[k] = numeral[k]
    BY <2>1, <2>2 DEF o
  <2>4. numeral \in Text
    <3>1. DIGIT \subseteq Character
      BY SqlScanAssumption DEF IDENTIFIER_PART
    <3> QED
      BY <3>1, SeqMonotonic DEF Text
  <2> HIDE DEF s
  <2>5. s = numeral
    BY <2>3, <2>4, SeqEqual DEF Text
  <2> QED
    BY <1>7, <2>5 DEF s
<1>9. tag = <<>>
  BY <1>4 DEF DollarTag, IDENTIFIER_START, DIGIT
<1>10. IsReader(z) /\ y = Read(U, p, z)
  <2>1. p - 1 \in 0 .. n
    BY ONLY <1>1
  <2> QED
    BY <1>3, <2>1, ReaderUnfolds
<1>11. SqlEffect(U, p, z, y, "$", d, tag)
  BY <1>3, <1>10, ReadInSql
<1>12. /\ y.mode = "sql" /\ y.skip = skip /\ y.word = "number"
       /\ y.placeholders = Append(z.placeholders, w) /\ y.references = z.references
  BY <1>4, <1>11 DEF SqlEffect, InWord
<1> HIDE DEF skip, w, n, j, q, d, tag
<1>13. x = [y EXCEPT !.skip = m - m]
  <2>1. y.skip = m
    BY <1>7, <1>12
  <2>2. U \in Text /\ y = ReaderAfter(U)[p] /\ x = ReaderAfter(U)[p + m] /\ n = Len(U)
    BY DEF n
  <2> HIDE DEF y
  <2> QED
    BY ONLY <1>1, <1>3, <2>1, <2>2, Skipping
<1>14. IsReader(y) /\ m - m = 0
  <2>1. IsReader(y)
    BY <1>3, ReaderUnfolds DEF n
  <2>2. m - m = 0
    BY ONLY <1>1
  <2> QED
    BY <2>1, <2>2
<1> HIDE DEF y
<1>15. /\ x.mode = "sql" /\ x.word = "number" /\ x.placeholders = Append(z.placeholders, w)
       /\ x.references = z.references /\ x.skip = 0
  BY <1>12, <1>13, <1>14 DEF IsReader, Readers
<1> QED
  BY <1>8, <1>15 DEF PlaceholderEffect, Becomes, Kept

-----------------------------------------------------------------------------
(* Parts and what is between them.                                         *)

Gap(between, k) == IF k \in DOMAIN between THEN between[k] ELSE <<>>

Pieces(parts, between) ==
    CHOOSE text :
        text = [k \in 0 .. Len(parts) |->
                   IF k = 0 THEN <<>>
                   ELSE text[k - 1] \o parts[k] \o (IF k \in DOMAIN between THEN between[k] ELSE <<>>)]

(* Joined is what its recursion says, and a text. *)
LEMMA PiecesUnfold ==
    ASSUME NEW parts \in Seq(Text), NEW between, \A k \in DOMAIN between : between[k] \in Text
    PROVE  /\ Joined(parts, between) = Pieces(parts, between)[Len(parts)] /\ Joined(parts, between) \in Text
           /\ Pieces(parts, between)[0] = <<>>
           /\ \A k \in 0 .. Len(parts) : Pieces(parts, between)[k] \in Text
           /\ \A k \in 1 .. Len(parts) :
                Pieces(parts, between)[k] = Pieces(parts, between)[k - 1] \o parts[k] \o Gap(between, k)
<1> DEFINE n == Len(parts)
           A == Pieces(parts, between)
           F == [k \in 1 .. n |-> [t \in Text |-> t \o parts[k] \o Gap(between, k)]]
           Body(f, k) == IF k = 0 THEN <<>> ELSE f[k - 1] \o parts[k] \o Gap(between, k)
<1>1. n \in Nat /\ \A k \in 1 .. n : parts[k] \in Text
  BY LenProperties
<1>2. <<>> \in Text /\ \A t, u \in Text : t \o u \in Text
  BY EmptySeq, ConcatProperties DEF Text
<1>3. \A k : Gap(between, k) \in Text
  BY <1>2 DEF Gap
<1>4. Joined(parts, between) = A[n]
  BY DEF Joined, Pieces
<1>5. \A k \in 1 .. n : \A t \in Text : t \o parts[k] \o Gap(between, k) \in Text
  BY <1>1, <1>2, <1>3
<1>6. \A k \in 1 .. n : \A t \in Text : F[k][t] = t \o parts[k] \o Gap(between, k) /\ F[k][t] \in Text
  BY <1>5
<1> HIDE DEF F, n
<1>7. Iterations(n, Text, <<>>, F) # {}
  BY <1>1, <1>2, <1>6, IterationExists
<1>8. PICK h \in [0 .. n -> Text] : h[0] = <<>> /\ \A k \in 1 .. n : h[k] = F[k][h[k - 1]]
  BY <1>7 DEF Iterations
<1>9. ASSUME NEW k \in 0 .. n PROVE h[k] = Body(h, k)
  <2>1. CASE k = 0
    BY <1>8, <2>1
  <2>2. CASE k # 0
    <3>1. k \in 1 .. n /\ k - 1 \in 0 .. n
      BY <1>1, <2>2
    <3>2. h[k - 1] \in Text
      BY <3>1
    <3> QED
      BY <1>6, <1>8, <2>2, <3>1, <3>2
  <2> QED
    BY <2>1, <2>2
<1>10. h = [k \in 0 .. n |-> Body(h, k)]
  BY <1>9
<1>11. A = [k \in 0 .. n |-> Body(A, k)]
  BY <1>10 DEF Pieces, Gap, n
<1> HIDE DEF A
<1>12. \A k \in 0 .. n : A[k] = Body(A, k)
  BY <1>11
<1>13. A[0] = <<>> /\ \A k \in 1 .. n : A[k] = A[k - 1] \o parts[k] \o Gap(between, k)
  <2>1. 0 \in 0 .. n /\ \A k \in 1 .. n : k \in 0 .. n /\ k # 0
    BY <1>1
  <2> QED
    BY <1>12, <2>1
<1>14. \A k \in 0 .. n : A[k] \in Text
  <2> DEFINE D == {k \in 0 .. n : A[k] \in Text}
  <2>1. 0 \in D
    BY <1>1, <1>2, <1>13
  <2>2. ASSUME NEW k \in 0 .. n - 1, k \in D PROVE k + 1 \in D
    <3>1. k + 1 \in 1 .. n /\ k + 1 \in 0 .. n /\ (k + 1) - 1 = k
      BY <1>1
    <3> QED
      BY <1>5, <1>13, <2>2, <3>1
  <2> HIDE DEF D
  <2>3. \A k \in 0 .. n : k \in D
    BY <1>1, <2>1, <2>2, Induction
  <2> QED
    BY <2>3 DEF D
<1>15. Joined(parts, between) \in Text
  <2>1. n \in 0 .. n
    BY <1>1
  <2> QED
    BY <1>4, <1>14, <2>1
<1> QED
  BY <1>4, <1>13, <1>14, <1>15 DEF A, n

(* One part more, with a gap after it or none. *)
Longer(parts, part, before, after, n) ==
    /\ Joined(parts, before) \in Text
    /\ Joined(Append(parts, part), after) = Joined(parts, before) \o part \o Gap(after, n + 1)

(* A part more is appended, and the gap behind it if there is one. *)
LEMMA JoinedAppend ==
    ASSUME NEW parts \in Seq(Text), NEW part \in Text, NEW before, NEW after, NEW n, n = Len(parts),
           DOMAIN before = 1 .. n, DOMAIN after = 1 .. n \/ DOMAIN after = 1 .. n + 1,
           \A k \in DOMAIN after : after[k] \in Text, \A k \in 1 .. n : after[k] = before[k]
    PROVE  Longer(parts, part, before, after, n)
<1> DEFINE more == Append(parts, part)
           A == Pieces(parts, before)
           B == Pieces(more, after)
           D == {k \in 0 .. n : A[k] = B[k]}
<1>1. n \in Nat
  BY LenProperties
<1>2. more \in Seq(Text) /\ Len(more) = n + 1 /\ more[n + 1] = part /\ \A k \in 1 .. n : more[k] = parts[k]
  BY <1>1, AppendProperties
<1>3. \A k \in DOMAIN before : before[k] \in Text
  <2>1. \A k \in 1 .. n : k \in DOMAIN after
    BY <1>1
  <2> QED
    BY <2>1
<1> HIDE DEF more
<1>4. /\ Joined(parts, before) = A[n] /\ Joined(parts, before) \in Text /\ A[0] = <<>>
      /\ \A k \in 1 .. n : A[k] = A[k - 1] \o parts[k] \o Gap(before, k)
  BY <1>3, PiecesUnfold
<1>5. /\ Joined(more, after) = B[n + 1] /\ B[0] = <<>>
      /\ \A k \in 1 .. n + 1 : B[k] = B[k - 1] \o more[k] \o Gap(after, k)
  <2>1. /\ Joined(more, after) = B[Len(more)] /\ B[0] = <<>>
        /\ \A k \in 1 .. Len(more) : B[k] = B[k - 1] \o more[k] \o Gap(after, k)
    BY <1>2, PiecesUnfold
  <2> HIDE DEF B
  <2> QED
    BY <1>2, <2>1
<1> HIDE DEF A, B
<1>6. \A k \in 1 .. n : Gap(before, k) = Gap(after, k)
  <2>1. \A k \in 1 .. n : k \in DOMAIN after
    BY <1>1
  <2> QED
    BY <2>1 DEF Gap
<1>7. 0 \in D
  BY <1>1, <1>4, <1>5
<1>8. ASSUME NEW k \in 0 .. n - 1, k \in D PROVE k + 1 \in D
  <2>1. k + 1 \in 1 .. n /\ k + 1 \in 0 .. n /\ (k + 1) - 1 = k /\ k + 1 \in 1 .. n + 1
    BY <1>1
  <2> DEFINE l == k + 1
  <2>2. l \in 1 .. n /\ l - 1 = k /\ l \in 1 .. n + 1
    BY <2>1
  <2> HIDE DEF l
  <2>3. A[l] = A[k] \o parts[l] \o Gap(before, l) /\ B[l] = B[k] \o more[l] \o Gap(after, l)
    BY <1>4, <1>5, <2>2
  <2>4. A[l] = B[l]
    BY <1>2, <1>6, <1>8, <2>2, <2>3
  <2> QED
    BY <2>1, <2>4 DEF l
<1> HIDE DEF D
<1>9. n \in D
  <2>1. \A k \in 0 .. n : k \in D
    BY <1>1, <1>7, <1>8, Induction
  <2>2. n \in 0 .. n
    BY <1>1
  <2> QED
    BY <2>1, <2>2
<1>10. n + 1 \in 1 .. n + 1 /\ (n + 1) - 1 = n
  BY <1>1
<1>11. B[n + 1] = A[n] \o part \o Gap(after, n + 1)
  BY <1>2, <1>5, <1>9, <1>10 DEF D
<1> QED
  BY <1>4, <1>5, <1>11 DEF more, Longer

-----------------------------------------------------------------------------
(* The reader of the statement and the reader of the rendered text.        *)

(* z and w are at the place of i: a character means the same to both. *)
Twins(z, w, i) == Live(z, i) /\ Live(w, i) /\ (InWord(z) <=> InWord(w))

(* From i to q they stay together, and the one of the rendered text finds nothing. *)
Together(i, q) ==
    \A U \in Text : \A e \in Int :
        Same(U, e, i, q) /\ Twins(Before(U, e, i), Before(statement, 0, i), i) =>
            /\ Kept(Before(U, e, i), Before(U, e, q))
            /\ q <= Len(statement) => Twins(Before(U, e, q), Before(statement, 0, q), q)

(* A part of the statement that begins with c. *)
Fragment(i, q, c) == i \in Nat \ {0} /\ q \in Nat /\ i < q /\ q <= Len(statement) + 1 /\ At(statement, i) = c

(* Where a fragment starts, something is. *)
LEMMA FragmentFacts ==
    ASSUME statement \in Text, NEW i, NEW q, NEW c, Fragment(i, q, c)
    PROVE  /\ Same(statement, 0, i, q) /\ i \in Nat \ {0} /\ q \in Nat /\ i < q /\ At(statement, i) = c
           /\ \A z : Live(z, i) /\ c # "n" => z.mode = "sql" /\ z.skip = 0
<1>1. i \in Nat \ {0} /\ q \in Nat /\ i < q /\ q <= Len(statement) + 1 /\ At(statement, i) = c
  BY DEF Fragment
<1>2. i <= q
  BY ONLY <1>1
<1>3. Same(statement, 0, i, q)
  BY <1>1, <1>2, SelfSame
<1> QED
  BY <1>1, <1>3, LiveInSql

(* Readers that land at the end of a fragment stay together. *)
LEMMA LandedTogether ==
    ASSUME NEW i, NEW q,
           \A U \in Text : \A e \in Int :
              Same(U, e, i, q) /\ Twins(Before(U, e, i), Before(statement, 0, i), i) =>
                  /\ Kept(Before(U, e, i), Before(U, e, q)) /\ Landed(Before(U, e, q), q)
                  /\ Landed(Before(statement, 0, q), q)
    PROVE  Together(i, q)
BY LandedLive DEF Together, Twins

(* Readers stay together in a line comment, *)
LEMMA LineCommentTogether ==
    ASSUME statement \in Text, NEW i, NEW q, Fragment(i, q, "-"), At(statement, i + 1) = "-",
           q = FirstFrom(statement, i, {k \in DOMAIN statement : statement[k] = "n"})
    PROVE  Together(i, q)
<1>1. ASSUME NEW U, NEW e, Same(U, e, i, q), Live(Before(U, e, i), i)
      PROVE  Kept(Before(U, e, i), Before(U, e, q)) /\ Landed(Before(U, e, q), q)
  <2>1. Before(U, e, i).mode = "sql" /\ Before(U, e, i).skip = 0 /\ i < q /\ At(statement, i) = "-"
    BY <1>1, FragmentFacts
  <2> QED
    BY <1>1, <2>1, LineCommentRead
<1>2. Same(statement, 0, i, q)
  BY FragmentFacts
<1> QED
  BY <1>1, <1>2, LandedTogether DEF Twins

(* in a block comment, *)
LEMMA BlockCommentTogether ==
    ASSUME statement \in Text, NEW i, NEW q, Fragment(i, q, "/"), At(statement, i + 1) = "*",
           q = IF BlockEnd(i) > Len(statement) THEN Len(statement) + 1 ELSE BlockEnd(i)
    PROVE  Together(i, q)
<1>1. ASSUME NEW U, NEW e, Same(U, e, i, q), Live(Before(U, e, i), i)
      PROVE  Kept(Before(U, e, i), Before(U, e, q)) /\ Landed(Before(U, e, q), q)
  <2>1. Before(U, e, i).mode = "sql" /\ Before(U, e, i).skip = 0 /\ i < q /\ At(statement, i) = "/"
    BY <1>1, FragmentFacts
  <2> QED
    BY <1>1, <2>1, BlockCommentRead
<1>2. Same(statement, 0, i, q)
  BY FragmentFacts
<1> QED
  BY <1>1, <1>2, LandedTogether DEF Twins

(* in a string with escapes, *)
LEMMA EscapeStringTogether ==
    ASSUME statement \in Text, NEW i, NEW q, Fragment(i, q, "E"), At(statement, i + 1) = "'",
           At(statement, i - 1) \notin IDENTIFIER_PART,
           NEW Q, Q = QuoteEnd("'", i + 2, TRUE), q = IF Q > Len(statement) THEN Len(statement) + 1 ELSE Q
    PROVE  Together(i, q)
<1>1. ASSUME NEW U, NEW e, Same(U, e, i, q), Live(Before(U, e, i), i)
      PROVE  Kept(Before(U, e, i), Before(U, e, q)) /\ Landed(Before(U, e, q), q)
  <2>0. statement \in Text /\ Fragment(i, q, "E")
    OBVIOUS
  <2>1. Before(U, e, i).mode = "sql" /\ Before(U, e, i).skip = 0 /\ i < q /\ At(statement, i) = "E"
    BY ONLY <1>1, <2>0, FragmentFacts
  <2>2. Before(U, e, i).word = ""
    BY <1>1, <2>1 DEF Live, IDENTIFIER_PART, IDENTIFIER_START
  <2> QED
    BY <1>1, <2>1, <2>2, EscapeStringRead
<1>2. Same(statement, 0, i, q)
  BY FragmentFacts
<1> QED
  BY <1>1, <1>2, LandedTogether DEF Twins

(* in a string and in a quoted name, *)
LEMMA QuotedTogether ==
    ASSUME statement \in Text, NEW i, NEW q, NEW c \in {"'", "q"}, Fragment(i, q, c),
           NEW Q, Q = QuoteEnd(c, i + 1, FALSE), q = IF Q > Len(statement) THEN Len(statement) + 1 ELSE Q
    PROVE  Together(i, q)
<1>1. ASSUME NEW U, NEW e, Same(U, e, i, q), Live(Before(U, e, i), i)
      PROVE  Kept(Before(U, e, i), Before(U, e, q)) /\ Landed(Before(U, e, q), q)
  <2>1. Before(U, e, i).mode = "sql" /\ Before(U, e, i).skip = 0 /\ i < q /\ At(statement, i) = c
    BY <1>1, FragmentFacts
  <2> QED
    BY <1>1, <2>1, QuotedRead
<1>2. Same(statement, 0, i, q)
  BY FragmentFacts
<1> QED
  BY <1>1, <1>2, LandedTogether DEF Twins

(* in a cast, *)
LEMMA CastTogether ==
    ASSUME statement \in Text, NEW i, NEW q, Fragment(i, q, ":"), At(statement, i + 1) = ":", q = i + 2
    PROVE  Together(i, q)
<1>1. ASSUME NEW U, NEW e, Same(U, e, i, q), Live(Before(U, e, i), i)
      PROVE  Kept(Before(U, e, i), Before(U, e, q)) /\ Landed(Before(U, e, q), q)
  <2>1. Before(U, e, i).mode = "sql" /\ Before(U, e, i).skip = 0 /\ At(statement, i) = ":"
    BY <1>1, FragmentFacts
  <2> QED
    BY <1>1, <2>1, CastRead
<1>2. Same(statement, 0, i, q)
  BY FragmentFacts
<1> QED
  BY <1>1, <1>2, LandedTogether DEF Twins

(* A $ that is not odd neither is part of a word nor stands alone. *)
LEMMA DollarNotOdd ==
    ASSUME statement \in Text, NEW i, NEW q, Fragment(i, q, "$"), ~PostgresReads(statement).odd,
           Live(Before(statement, 0, i), i)
    PROVE  /\ ~InWord(Before(statement, 0, i))
           /\ DollarTag(statement, i) # <<>> \/ At(statement, i + 1) \in DIGIT
<1> DEFINE z == Before(statement, 0, i)
           y == Before(statement, 0, i + 1)
           tag == DollarTag(statement, i)
           d == At(statement, i + 1)
<1>1. /\ Same(statement, 0, i, q) /\ i \in Nat \ {0} /\ i < q /\ At(statement, i) = "$"
      /\ z.mode = "sql" /\ z.skip = 0
  BY FragmentFacts
<1>2. i + 0 = i /\ i + 0 + 1 = i + 1 /\ (i + 1) - 1 + 0 = i
  <2>1. i \in Nat \ {0}
    BY <1>1
  <2> QED
    BY ONLY <2>1
<1>3. /\ Effect(statement, 0, i, q, z, y, At(statement, i), At(statement, i + 1), At(statement, i + 0 + 1))
      /\ i \in 1 .. Len(statement)
  BY <1>1, FirstStep
<1>4. Effect(statement, 0, i, q, z, y, "$", d, d)
  BY <1>1, <1>2, <1>3
<1>5. z.word = "identifier" \/ (tag = <<>> /\ d \notin DIGIT) => y.odd
  <2>1. z.word = "identifier" \/ (DollarTag(statement, i + 0) = <<>> /\ d \notin DIGIT) => y.odd
    BY <1>4 DEF Effect
  <2> QED
    BY <1>2, <2>1
<1>6. ~y.odd
  <2>1. y = ReaderAfter(statement)[i]
    BY <1>2 DEF Before
  <2>2. Len(statement) \in Nat
    BY AtFacts
  <2>3. i \in 0 .. Len(statement)
    BY ONLY <1>3, <2>2
  <2> QED
    BY <2>1, <2>3, OddStays
<1> QED
  BY <1>5, <1>6 DEF InWord

(* They stay together in dollar quotes, *)
LEMMA DollarQuotedTogether ==
    ASSUME statement \in Text, NEW i, NEW q, Fragment(i, q, "$"), ~PostgresReads(statement).odd,
           NEW tag, tag = DollarTag(statement, i), tag # <<>>,
           NEW closing,
           closing = FirstFrom(statement, i + Len(tag), {k \in DOMAIN statement : IsAt(statement, k, tag)}),
           q = IF closing > Len(statement) THEN Len(statement) + 1 ELSE closing + Len(tag)
    PROVE  Together(i, q)
<1>1. ASSUME NEW U, NEW e, Same(U, e, i, q), Live(Before(U, e, i), i), ~InWord(Before(U, e, i))
      PROVE  Kept(Before(U, e, i), Before(U, e, q)) /\ Landed(Before(U, e, q), q)
  <2>1. Before(U, e, i).mode = "sql" /\ Before(U, e, i).skip = 0 /\ i < q
    BY <1>1, FragmentFacts
  <2>2. Before(U, e, i).word # "identifier"
    BY <1>1 DEF InWord
  <2> QED
    BY <1>1, <2>1, <2>2, DollarQuotedRead
<1>2. Same(statement, 0, i, q)
  BY FragmentFacts
<1>3. Live(Before(statement, 0, i), i) => ~InWord(Before(statement, 0, i))
  BY DollarNotOdd
<1> QED
  BY <1>1, <1>2, <1>3, LandedTogether DEF Twins

(* and in any other character. *)
LEMMA LiteralTogether ==
    ASSUME statement \in Text, NEW i, NEW q, NEW c, Fragment(i, q, c), q = i + 1, ~PostgresReads(statement).odd,
           NEW b, b = At(statement, i + 1), c \notin {"'", "q"},
           <<c, b>> \notin {<<"-", "-">>, <<"/", "*">>, <<":", ":">>}, ~(c = ":" /\ b \in IDENTIFIER_START),
           ~(c = "E" /\ b = "'" /\ At(statement, i - 1) \notin IDENTIFIER_PART),
           DollarTag(statement, i) = <<>>, ~(c = "$" /\ b \in DIGIT)
    PROVE  Together(i, q)
<1>1. Same(statement, 0, i, q) /\ At(statement, i) = c
  BY FragmentFacts
<1>2. SUFFICES ASSUME NEW U \in Text, NEW e \in Int, Same(U, e, i, q),
                      Twins(Before(U, e, i), Before(statement, 0, i), i)
               PROVE  /\ Kept(Before(U, e, i), Before(U, e, q))
                      /\ Twins(Before(U, e, q), Before(statement, 0, q), q)
  BY DEF Together
<1>3. /\ Live(Before(U, e, i), i) /\ Live(Before(statement, 0, i), i)
      /\ InWord(Before(U, e, i)) <=> InWord(Before(statement, 0, i))
  BY <1>2 DEF Twins
<1>4. c # "$"
  BY <1>3, DollarNotOdd
<1>5. LiteralEffect(Before(U, e, i), Before(U, e, q), c, q)
  BY <1>1, <1>2, <1>3, <1>4, LiteralRead
<1>6. LiteralEffect(Before(statement, 0, i), Before(statement, 0, q), c, q)
  BY <1>1, <1>3, <1>4, LiteralRead
<1> QED
  BY <1>3, <1>5, <1>6 DEF LiteralEffect, Twins

-----------------------------------------------------------------------------
(* The inductive invariant.                                                *)

(* Where the scanner is; a literal without an end may take it past the end. *)
Here == IF index > Len(statement) THEN Len(statement) + 1 ELSE index

(* What is rendered so far. *)
Rendered == Joined(segments, Placeholders) \o current

References == [k \in DOMAIN parameterNames |-> <<":">> \o parameterNames[k]]

Starts(U, R) == U \in Text /\ Len(R) <= Len(U) /\ \A k \in 1 .. Len(R) : U[k] = R[k]
Follows(U, p, i) == At(U, p) = At(statement, i) \/ (Reference(i) /\ At(U, p) = "$")

(* U may be the text that is rendered in the end. *)
Continues(U) == Starts(U, Rendered) /\ Follows(U, Len(Rendered) + 1, Here)

(* The reader z has found a placeholder for every parameter. *)
Reported(z) == z.placeholders = [k \in DOMAIN parameterNames |-> Numeral[k]] /\ z.references = 0

ReadSoFar(U) ==
    /\ Reported(ReaderAfter(U)[Len(Rendered)])
    /\ Here <= Len(statement) => Twins(ReaderAfter(U)[Len(Rendered)], Before(statement, 0, Here), Here)

ScanTypes ==
    /\ statement \in Statements /\ index \in Nat \ {0} /\ current \in Text /\ scanned \in BOOLEAN
    /\ segments \in Seq(Text) /\ parameterNames \in Seq(Text)
    /\ Len(segments) = IF scanned THEN Len(parameterNames) + 1 ELSE Len(parameterNames)
    /\ Len(parameterNames) < Here
    /\ scanned => index > Len(statement)

Understood ==
    IF scanned THEN Reported(PostgresReads(RenderPostgres)) ELSE \A U \in Text : Continues(U) => ReadSoFar(U)

ScanInv ==
    /\ ScanTypes /\ Reconstructs
    /\ positionalPlaceholder = <<>> /\ ~PostgresReads(statement).odd => Understood

(* A text that starts with two texts has the second behind the first. *)
LEMMA StartsConcat ==
    ASSUME NEW R \in Text, NEW piece \in Text, NEW U, Starts(U, R \o piece)
    PROVE  /\ Starts(U, R) /\ Len(R) \in Nat /\ Len(piece) \in Nat /\ Len(R \o piece) = Len(R) + Len(piece)
           /\ Len(R) + Len(piece) <= Len(U)
           /\ \A k \in 1 .. Len(piece) : U[Len(R) + k] = piece[k]
<1> DEFINE m == Len(R)
           l == Len(piece)
           n == Len(U)
           both == R \o piece
<1>1. /\ both \in Text /\ Len(both) = m + l
      /\ \A k \in 1 .. m + l : both[k] = IF k <= m THEN R[k] ELSE piece[k - m]
  BY ConcatProperties DEF Text
<1>2. m \in Nat /\ l \in Nat
  BY AtFacts
<1>3. U \in Text /\ n \in Nat /\ Len(both) <= n /\ \A k \in 1 .. Len(both) : U[k] = both[k]
  BY AtFacts DEF Starts
<1> HIDE DEF m, l, n, both
<1>4. m <= n /\ m + l <= n
  BY <1>1, <1>2, <1>3
<1>5. \A k \in 1 .. m : U[k] = R[k]
  BY <1>1, <1>2, <1>3
<1>6. ASSUME NEW k \in 1 .. l PROVE U[m + k] = piece[k]
  <2> DEFINE j == m + k
  <2>1. j \in 1 .. m + l /\ ~(j <= m) /\ j - m = k
    BY <1>2
  <2> HIDE DEF j
  <2>2. U[j] = piece[k]
    BY <1>1, <1>3, <2>1
  <2> QED
    BY <2>2 DEF j
<1> QED
  BY <1>1, <1>2, <1>3, <1>4, <1>5, <1>6 DEF Starts, m, l, n, both

(* In U the statement's part from i to q follows on R. *)
Copied(U, R, more, i, q, e) ==
    /\ Same(U, e, i, q) /\ e \in Int /\ Starts(U, R) /\ Follows(U, Len(R) + 1, i)
    /\ Before(U, e, i) = ReaderAfter(U)[Len(R)] /\ Before(U, e, q) = ReaderAfter(U)[Len(more)]

(* A text that starts with what is rendered and a part of the statement has that part. *)
LEMMA CopyReads ==
    ASSUME statement \in Text, NEW R \in Text, NEW i \in Nat \ {0}, NEW q \in Nat, i < q, q <= Len(statement) + 1,
           NEW U, NEW more, more = R \o SubSeq(statement, i, q - 1), Starts(U, more),
           Follows(U, Len(more) + 1, q), NEW e, e = Len(R) - i + 1
    PROVE  Copied(U, R, more, i, q, e)
<1> DEFINE n == Len(statement)
           piece == SubSeq(statement, i, q - 1)
           m == Len(R)
           l == Len(piece)
           u == Len(U)
<1>1. n \in Nat /\ m \in Nat /\ \A k \in 1 .. n : At(statement, k) = statement[k]
  BY AtFacts
<1>2. piece \in Text /\ l = q - i /\ \A k \in 1 .. l : piece[k] = statement[i + k - 1]
  <2> DEFINE o == q - 1
  <2>1. o \in Nat /\ o <= Len(statement) /\ i <= o + 1 /\ o + 1 - i = q - i
    BY <1>1
  <2> HIDE DEF o
  <2>2. SubSeq(statement, i, o) \in Text /\ Len(SubSeq(statement, i, o)) = o + 1 - i
        /\ \A k \in 1 .. o + 1 - i : SubSeq(statement, i, o)[k] = statement[i + k - 1]
    BY <2>1, SubSeqFacts
  <2> QED
    BY <2>1, <2>2 DEF o
<1>3. /\ Starts(U, R) /\ Len(more) = m + l /\ m + l <= u
      /\ \A k \in 1 .. l : U[m + k] = piece[k]
  <2>1. piece \in Text /\ Starts(U, R \o piece) /\ more = R \o piece
    BY <1>2
  <2> HIDE DEF piece, m, l, u
  <2>2. /\ Starts(U, R) /\ Len(R \o piece) = Len(R) + Len(piece) /\ Len(R) + Len(piece) <= Len(U)
        /\ \A k \in 1 .. Len(piece) : U[Len(R) + k] = piece[k]
    BY ONLY <2>1, StartsConcat, R \in Text
  <2> QED
    BY <2>1, <2>2 DEF m, l, u
<1>4. U \in Text /\ u \in Nat /\ \A k \in 1 .. u : At(U, k) = U[k]
  BY AtFacts DEF Starts
<1> HIDE DEF n, piece, m, l, u
<1>5. e \in Int /\ i + e = m + 1 /\ q + e = m + l + 1 /\ i + e >= 1 /\ q + e <= u + 1 /\ i <= q
      /\ i - 1 + e = m /\ q - 1 + e = m + l
  BY <1>1, <1>2, <1>3, <1>4 DEF m
<1>6. \A k \in i .. q - 1 : U[k + e] = statement[k]
  <2> SUFFICES ASSUME NEW k \in i .. q - 1
               PROVE  U[k + e] = statement[k]
    OBVIOUS
  <2> DEFINE j == k - i + 1
  <2>1. j \in 1 .. l /\ m + j = k + e /\ i + j - 1 = k
    <3>1. i \in Nat /\ q \in Nat
      OBVIOUS
    <3> QED
      BY ONLY <1>1, <1>2, <1>5, <3>1
  <2> HIDE DEF j
  <2>2. U[m + j] = statement[i + j - 1]
    BY <1>2, <1>3, <2>1
  <2> QED
    BY <2>1, <2>2
<1>7. At(U, q + e) = At(statement, q) \/ (Reference(q) /\ At(U, q + e) = "$")
  BY <1>3, <1>5 DEF Follows
<1>8. Same(U, e, i, q)
  BY <1>4, <1>5, <1>6, <1>7 DEF Same, n, u
<1>9. Follows(U, m + 1, i)
  <2>1. i \in i .. q - 1 /\ i \in 1 .. n /\ i + e \in 1 .. u
    BY <1>1, <1>2, <1>3, <1>4, <1>5 DEF n
  <2>2. At(U, i + e) = At(statement, i)
    BY <1>1, <1>4, <1>6, <2>1
  <2> QED
    BY <1>5, <2>2 DEF Follows
<1> QED
  BY <1>3, <1>5, <1>8, <1>9 DEF Before, m, Copied

-----------------------------------------------------------------------------
(* What the types say.                                                     *)

Written(k) == <<"$">> \o Numeral[k]
Named(name) == <<":">> \o name

(* A number is written with digits, and a placeholder is a text. *)
LEMMA NumeralFacts ==
    ASSUME NEW k \in 1 .. Len(Numeral)
    PROVE  Numeral[k] \in Seq(DIGIT) /\ Numeral[k] # <<>> /\ Written(k) \in Text
<1>1. Numeral \in Seq(Seq(DIGIT) \ {<<>>})
  BY SqlScanAssumption
<1>2. Numeral[k] \in Seq(DIGIT) \ {<<>>}
  BY <1>1, ElementOfSeq
<1>3. DIGIT \subseteq Character /\ "$" \in Character
  BY SqlScanAssumption DEF IDENTIFIER_PART
<1>4. Numeral[k] \in Text /\ <<"$">> \in Text
  BY <1>2, <1>3, SeqMonotonic DEF Text
<1> QED
  BY <1>2, <1>4, ConcatProperties DEF Written, Text

(* A reference is a text. *)
LEMMA NamedFacts ==
    ASSUME NEW name \in Text
    PROVE  Named(name) \in Text
<1>1. ":" \in Character
  BY SqlScanAssumption
<1>2. <<":">> \in Text
  BY <1>1 DEF Text
<1> QED
  BY <1>2, ConcatProperties DEF Named, Text

(* Where the scanner is, and that every text is one. *)
LEMMA TypeFacts ==
    ASSUME ScanTypes
    PROVE  /\ statement \in Text /\ Len(statement) \in Nat /\ index \in Nat \ {0} /\ Here \in Nat \ {0}
           /\ Here <= Len(statement) + 1 /\ Len(parameterNames) \in Nat /\ Len(parameterNames) < Here
           /\ Len(statement) <= Len(Numeral) /\ Len(Numeral) \in Nat
           /\ segments \in Seq(Text) /\ current \in Text /\ parameterNames \in Seq(Text)
           /\ DOMAIN parameterNames = 1 .. Len(parameterNames) /\ (index <= Len(statement) => scanned = FALSE)
<1>1. statement \in Text /\ Len(statement) <= Len(Numeral)
  BY SqlScanAssumption DEF ScanTypes, Text
<1>2. Numeral \in Seq(Seq(DIGIT) \ {<<>>})
  BY SqlScanAssumption
<1>3. Len(Numeral) \in Nat
  BY <1>2, LenProperties
<1>4. Len(statement) \in Nat
  BY <1>1, AtFacts
<1>5. index \in Nat \ {0} /\ current \in Text /\ segments \in Seq(Text) /\ parameterNames \in Seq(Text)
      /\ Len(parameterNames) < Here
  BY DEF ScanTypes
<1>6. Len(parameterNames) \in Nat /\ DOMAIN parameterNames = 1 .. Len(parameterNames)
  BY <1>5, LenProperties
<1>7. Here \in Nat \ {0} /\ Here <= Len(statement) + 1
  BY <1>4, <1>5 DEF Here
<1>8. index <= Len(statement) => scanned = FALSE
  <2>1. scanned \in BOOLEAN /\ (scanned => index > Len(statement))
    BY DEF ScanTypes
  <2>2. ~(index <= Len(statement) /\ index > Len(statement))
    BY ONLY <1>4, <1>5
  <2> QED
    BY <2>1, <2>2
<1> QED
  BY <1>1, <1>3, <1>4, <1>5, <1>6, <1>7, <1>8

(* What is between the parts, and what they are joined to. *)
LEMMA GapFacts ==
    ASSUME ScanTypes
    PROVE  /\ DOMAIN Placeholders = 1 .. Len(parameterNames) /\ DOMAIN References = 1 .. Len(parameterNames)
           /\ \A k \in 1 .. Len(parameterNames) :
                /\ k \in 1 .. Len(Numeral)
                /\ Placeholders[k] = Written(k) /\ Placeholders[k] \in Text
                /\ References[k] = Named(parameterNames[k]) /\ References[k] \in Text
           /\ Joined(segments, Placeholders) \in Text /\ Joined(segments, References) \in Text
           /\ Rendered \in Text
<1> DEFINE m == Len(parameterNames)
           o == Len(Numeral)
<1>1. /\ m \in Nat /\ m < Here /\ Here <= Len(statement) + 1 /\ Len(statement) <= o /\ Here \in Nat
      /\ Len(statement) \in Nat /\ o \in Nat /\ parameterNames \in Seq(Text) /\ segments \in Seq(Text)
      /\ current \in Text /\ DOMAIN parameterNames = 1 .. m
  BY TypeFacts
<1>2. DOMAIN Placeholders = 1 .. m /\ DOMAIN References = 1 .. m
  BY <1>1 DEF Placeholders, References
<1> HIDE DEF m, o
<1>3. \A k \in 1 .. m : k \in 1 .. o
  BY <1>1
<1>4. \A k \in 1 .. m : Written(k) \in Text
  BY <1>3, NumeralFacts DEF o
<1>5. \A k \in 1 .. m : parameterNames[k] \in Text
  BY <1>1, ElementOfSeq DEF m
<1>6. \A k \in 1 .. m : Named(parameterNames[k]) \in Text
  BY <1>5, NamedFacts
<1>7. \A k \in 1 .. m : Placeholders[k] = Written(k) /\ References[k] = Named(parameterNames[k])
  BY <1>1 DEF Placeholders, References, Written, Named
<1>8. Joined(segments, Placeholders) \in Text
  BY <1>1, <1>2, <1>4, <1>7, PiecesUnfold
<1>9. Joined(segments, References) \in Text
  BY <1>1, <1>2, <1>6, <1>7, PiecesUnfold
<1>10. Rendered \in Text
  BY <1>1, <1>8, ConcatProperties DEF Rendered, Text
<1> QED
  BY <1>2, <1>3, <1>4, <1>6, <1>7, <1>8, <1>9, <1>10 DEF m, o

(* It holds before anything is read. *)
LEMMA ScanStarts == ScanInit => ScanInv
<1> SUFFICES ASSUME ScanInit
             PROVE  ScanInv
  OBVIOUS
<1> DEFINE none == <<>>
<1>1. /\ statement \in Statements /\ index = 1 /\ current = none /\ segments = none /\ parameterNames = none
      /\ scanned = FALSE
  BY DEF ScanInit
<1>2. none \in Text /\ none \in Seq(Text) /\ Len(none) = 0
  BY EmptySeq DEF Text
<1> HIDE DEF none
<1>3. statement \in Text
  BY <1>1, SqlScanAssumption DEF Text
<1>4. Len(statement) \in Nat
  BY <1>3, AtFacts
<1>5. Here = 1
  BY <1>1, <1>4 DEF Here
<1>6. ScanTypes
  <2>1. Len(segments) = 0 /\ Len(parameterNames) = 0
    BY <1>1, <1>2
  <2>2. Len(parameterNames) < Here /\ index \in Nat \ {0}
    BY <1>1, <1>5, <2>1
  <2> QED
    BY <1>1, <1>2, <2>1, <2>2 DEF ScanTypes
<1>7. Joined(segments, Placeholders) = none /\ Joined(segments, References) = none
  <2>1. 0 \in 0 .. Len(segments) /\ Len(segments) = 0
    BY <1>1, <1>2
  <2>2. \A k \in DOMAIN Placeholders : Placeholders[k] \in Text
    BY <1>6, GapFacts
  <2>3. \A k \in DOMAIN References : References[k] \in Text
    BY <1>6, GapFacts
  <2>4. segments \in Seq(Text)
    BY <1>1, <1>2
  <2> QED
    BY <2>1, <2>2, <2>3, <2>4, PiecesUnfold DEF none
<1>8. none \o none = none
  BY <1>2, ConcatEmptySeq DEF none, Text
<1>9. Reconstructs
  <2>1. SubSeq(statement, 1, 0) = none
    BY SubSeqEmpty DEF none
  <2>2. (IF index > Len(statement) THEN Len(statement) ELSE index - 1) = 0
    BY <1>1, <1>4
  <2> QED
    BY <1>1, <1>7, <1>8, <2>1, <2>2 DEF Reconstructs, References
<1>10. Rendered = none
  BY <1>1, <1>7, <1>8 DEF Rendered
<1>11. ASSUME NEW U \in Text PROVE ReadSoFar(U)
  <2>1. ReaderAfter(U)[0] = Ground /\ ReaderAfter(statement)[0] = Ground
    BY <1>3, ReaderUnfolds
  <2>2. Len(Rendered) = 0 /\ Here - 1 + 0 = 0
    BY <1>2, <1>5, <1>10
  <2>3. ReaderAfter(U)[Len(Rendered)] = Ground /\ Before(statement, 0, Here) = Ground
    BY <2>1, <2>2 DEF Before
  <2>4. At(statement, 1 - 1) = ""
    <3>1. 1 - 1 \notin 1 .. Len(statement)
      BY <1>4
    <3> QED
      BY <1>3, <3>1, AtFacts
  <2>5. "" \notin IDENTIFIER_PART
    BY DEF IDENTIFIER_PART, IDENTIFIER_START, DIGIT
  <2>6. Twins(Ground, Ground, 1)
    BY <2>4, <2>5 DEF Twins, Live, Ground
  <2>7. Reported(Ground)
    <3>1. [k \in DOMAIN parameterNames |-> Numeral[k]] = none
      BY <1>1 DEF none
    <3> QED
      BY <3>1 DEF Reported, Ground, none
  <2> QED
    BY <1>5, <2>3, <2>6, <2>7 DEF ReadSoFar
<1> QED
  BY <1>1, <1>6, <1>9, <1>11 DEF ScanInv, Understood

-----------------------------------------------------------------------------
(* The steps.                                                              *)

(* Texts are put together in any order. *)
LEMMA TextConcat ==
    /\ \A s, t \in Text : s \o t \in Text
    /\ \A s, t, u \in Text : (s \o t) \o u = s \o (t \o u)
    /\ \A s \in Text : s \o <<>> = s /\ <<>> \o s = s
    /\ <<>> \in Text
BY ConcatProperties, ConcatAssociative, ConcatEmptySeq, EmptySeq DEF Text

(* Two parts of a text, one behind the other, are a part of it. *)
LEMMA SubSeqConcat ==
    ASSUME NEW U \in Text, NEW i \in Nat \ {0}, NEW q \in Nat, i <= q, q <= Len(U) + 1
    PROVE  SubSeq(U, 1, i - 1) \o SubSeq(U, i, q - 1) = SubSeq(U, 1, q - 1)
<1> DEFINE n == Len(U)
           a == SubSeq(U, 1, i - 1)
           b == SubSeq(U, i, q - 1)
           c == SubSeq(U, 1, q - 1)
<1>1. n \in Nat
  BY AtFacts
<1>2. i - 1 \in Nat /\ q - 1 \in Nat /\ i - 1 <= n /\ q - 1 <= n /\ 1 \in Nat \ {0}
  BY <1>1
<1>3. a \in Text /\ Len(a) = i - 1 /\ \A k \in 1 .. i - 1 : a[k] = U[k]
  <2>1. /\ a \in Text /\ Len(a) = (i - 1) + 1 - 1
        /\ \A k \in 1 .. (i - 1) + 1 - 1 : a[k] = U[1 + k - 1]
    BY <1>2, SubSeqFacts
  <2> HIDE DEF a
  <2> QED
    BY <1>2, <2>1
<1>4. b \in Text /\ Len(b) = q - i /\ \A k \in 1 .. q - i : b[k] = U[i + k - 1]
  <2>1. /\ b \in Text /\ Len(b) = (q - 1) + 1 - i
        /\ \A k \in 1 .. (q - 1) + 1 - i : b[k] = U[i + k - 1]
    BY <1>2, SubSeqFacts
  <2> HIDE DEF b
  <2> QED
    BY <1>2, <2>1
<1>5. c \in Text /\ Len(c) = q - 1 /\ \A k \in 1 .. q - 1 : c[k] = U[k]
  <2>1. /\ c \in Text /\ Len(c) = (q - 1) + 1 - 1
        /\ \A k \in 1 .. (q - 1) + 1 - 1 : c[k] = U[1 + k - 1]
    BY <1>2, SubSeqFacts
  <2> HIDE DEF c
  <2> QED
    BY <1>2, <2>1
<1> HIDE DEF a, b, c, n
<1>6. /\ a \o b \in Text /\ Len(a \o b) = (i - 1) + (q - i)
      /\ \A k \in 1 .. (i - 1) + (q - i) : (a \o b)[k] = IF k <= i - 1 THEN a[k] ELSE b[k - (i - 1)]
  <2>1. /\ a \o b \in Text /\ Len(a \o b) = Len(a) + Len(b)
        /\ \A k \in 1 .. Len(a) + Len(b) : (a \o b)[k] = IF k <= Len(a) THEN a[k] ELSE b[k - Len(a)]
    BY <1>3, <1>4, ConcatProperties DEF Text
  <2> QED
    BY <1>3, <1>4, <2>1
<1>7. (i - 1) + (q - i) = q - 1
  OBVIOUS
<1>8. ASSUME NEW k \in 1 .. q - 1 PROVE (a \o b)[k] = c[k]
  <2>1. CASE k <= i - 1
    <3>1. k \in 1 .. i - 1
      BY <2>1
    <3> QED
      BY <1>3, <1>5, <1>6, <1>7, <2>1, <3>1
  <2>2. CASE ~(k <= i - 1)
    <3> DEFINE j == k - (i - 1)
    <3>1. j \in 1 .. q - i /\ i + j - 1 = k
      BY <2>2
    <3>2. (a \o b)[k] = b[j]
      BY <1>6, <1>7, <2>2
    <3> HIDE DEF j
    <3> QED
      BY <1>4, <1>5, <3>1, <3>2
  <2> QED
    BY <2>1, <2>2
<1>9. a \o b = c
  BY <1>5, <1>6, <1>7, <1>8, SeqEqual DEF Text
<1> QED
  BY <1>9 DEF a, b, c

(* Reconstructs, with the place of the scanner by its name. *)
LEMMA ReconstructsFacts ==
    ASSUME ScanTypes
    PROVE  Reconstructs <=>
              Joined(segments, References) \o (IF scanned THEN <<>> ELSE current) = SubSeq(statement, 1, Here - 1)
<1>1. Here - 1 = IF index > Len(statement) THEN Len(statement) ELSE index - 1
  <2>1. index \in Nat \ {0} /\ Len(statement) \in Nat
    BY TypeFacts
  <2> QED
    BY <2>1 DEF Here
<1> QED
  BY <1>1 DEF Reconstructs, References

(* A fragment in which readers stay together may be copied. *)
LEMMA CopyPreserves ==
    ASSUME ScanInv, scanned = FALSE, index <= Len(statement), NEW stop \in Nat, index < stop, CopyTo(stop),
           NEW q, q = IF stop > Len(statement) THEN Len(statement) + 1 ELSE stop,
           positionalPlaceholder' = <<>> => positionalPlaceholder = <<>>,
           positionalPlaceholder' = <<>> /\ ~PostgresReads(statement).odd => Together(index, q)
    PROVE  ScanInv'
<1> DEFINE n == Len(statement)
           piece == SubSeq(statement, index, q - 1)
<1>1. /\ statement \in Text /\ n \in Nat /\ index \in Nat \ {0} /\ Here \in Nat \ {0}
      /\ segments \in Seq(Text) /\ current \in Text /\ parameterNames \in Seq(Text)
      /\ Len(parameterNames) \in Nat /\ Len(parameterNames) < Here /\ ScanTypes
  BY TypeFacts DEF ScanInv
<1>2. Here = index /\ q \in Nat /\ index < q /\ q <= n + 1 /\ index <= q
  BY <1>1 DEF Here
<1>3. /\ statement' = statement /\ segments' = segments /\ parameterNames' = parameterNames
      /\ scanned' = FALSE /\ index' = stop
  BY DEF CopyTo
<1>4. current' = current \o piece
  <2>1. (IF stop > n THEN n ELSE stop - 1) = q - 1
    BY <1>1
  <2> QED
    BY <2>1 DEF CopyTo
<1>5. piece \in Text
  <2> DEFINE o == q - 1
  <2>1. o \in Nat /\ o <= Len(statement) /\ index <= o + 1
    BY <1>1, <1>2
  <2> HIDE DEF o
  <2>2. SubSeq(statement, index, o) \in Text
    BY <1>1, <2>1, SubSeqFacts
  <2> QED
    BY <2>2 DEF o
<1>6. Here' = q
  BY <1>3 DEF Here
<1> HIDE DEF n, piece
<1>7. ScanTypes'
  <2>1. current' \in Text
    BY <1>1, <1>4, <1>5, ConcatProperties DEF Text
  <2>2. index' \in Nat \ {0} /\ Len(parameterNames') < Here'
    BY <1>1, <1>2, <1>3, <1>6
  <2> QED
    BY <1>1, <1>3, <2>1, <2>2 DEF ScanTypes
<1>8. /\ Joined(segments, Placeholders) \in Text /\ Joined(segments, References) \in Text /\ Rendered \in Text
  BY <1>1, GapFacts
<1>9. Placeholders' = Placeholders /\ References' = References
  BY <1>3 DEF Placeholders, References
<1>10. Rendered' = Rendered \o piece
  <2> DEFINE joined == Joined(segments, Placeholders)
  <2>1. Rendered' = joined \o (current \o piece)
    BY <1>3, <1>4, <1>9 DEF Rendered
  <2>2. Rendered = joined \o current
    BY DEF Rendered
  <2>3. joined \in Text
    BY <1>8
  <2> HIDE DEF joined
  <2> QED
    BY <1>1, <1>5, <2>1, <2>2, <2>3, TextConcat
<1>11. Reconstructs'
  <2>1. Joined(segments, References) \o current = SubSeq(statement, 1, index - 1)
    BY <1>1, <1>2, ReconstructsFacts DEF ScanInv
  <2>2. Joined(segments, References) \o (current \o piece) = (Joined(segments, References) \o current) \o piece
    BY <1>1, <1>5, <1>8, TextConcat
  <2>3. SubSeq(statement, 1, index - 1) \o piece = SubSeq(statement, 1, q - 1)
    BY <1>1, <1>2, SubSeqConcat DEF n, piece
  <2>4. /\ Joined(segments', References') \o (IF scanned' THEN <<>> ELSE current') = SubSeq(statement', 1, Here' - 1)
    BY <1>3, <1>4, <1>6, <1>9, <2>1, <2>2, <2>3
  <2>5. (Reconstructs <=>
              Joined(segments, References) \o (IF scanned THEN <<>> ELSE current) = SubSeq(statement, 1, Here - 1))'
    BY <1>7, ReconstructsFacts, PTL
  <2> QED
    BY <2>4, <2>5
<1>12. ASSUME positionalPlaceholder' = <<>>, ~PostgresReads(statement').odd, NEW U \in Text, Continues(U)'
       PROVE  ReadSoFar(U)'
  <2> DEFINE e == Len(Rendered) - index + 1
             z == Before(U, e, index)
             x == Before(U, e, q)
             w == Before(statement, 0, index)
             v == Before(statement, 0, q)
  <2>1. Starts(U, Rendered') /\ Follows(U, Len(Rendered') + 1, q)
    BY <1>3, <1>6, <1>12 DEF Continues, Follows, Reference
  <2>2. /\ Same(U, e, index, q) /\ e \in Int /\ Starts(U, Rendered) /\ Follows(U, Len(Rendered) + 1, index)
        /\ z = ReaderAfter(U)[Len(Rendered)] /\ x = ReaderAfter(U)[Len(Rendered')]
    <3> DEFINE R == Rendered
               more == Rendered'
    <3>1. /\ statement \in Text /\ R \in Text /\ index \in Nat \ {0} /\ q \in Nat /\ index < q
          /\ q <= Len(statement) + 1 /\ more = R \o SubSeq(statement, index, q - 1)
          /\ Starts(U, more) /\ Follows(U, Len(more) + 1, q) /\ e = Len(R) - index + 1
      BY <1>1, <1>2, <1>8, <1>10, <2>1 DEF n, piece
    <3> HIDE DEF R, more, e
    <3>2. Copied(U, R, more, index, q, e)
      BY ONLY <3>1, CopyReads
    <3> QED
      BY <3>2 DEF Copied, R, more
  <2> HIDE DEF e, z, x, w, v
  <2>3. Continues(U)
    BY <1>2, <2>2 DEF Continues
  <2>4. ReadSoFar(U) /\ Together(index, q)
    BY <1>3, <1>12, <2>3 DEF ScanInv, Understood
  <2>5. Reported(z) /\ Twins(z, w, index)
    BY <1>2, <2>2, <2>4 DEF ReadSoFar, w
  <2>6. Kept(z, x) /\ (q <= n => Twins(x, v, q))
    BY <2>2, <2>4, <2>5 DEF Together, n, z, x, w, v
  <2>7. x.placeholders = [k \in DOMAIN parameterNames' |-> Numeral[k]] /\ x.references = 0
    BY <1>3, <2>5, <2>6 DEF Reported, Kept
  <2> QED
    BY <1>3, <1>6, <2>2, <2>6, <2>7 DEF ReadSoFar, Reported, Twins, Live, InWord, Before, n, v
<1> QED
  BY <1>3, <1>7, <1>11, <1>12 DEF ScanInv, Understood

(* There is a character at each place of a text and nowhere else. *)
LEMMA CharFacts ==
    ASSUME ScanTypes, NEW k \in Nat, At(statement, k) # ""
    PROVE  k \in 1 .. Len(statement) /\ k <= Len(statement) /\ (k = index => scanned = FALSE)
<1>1. statement \in Text /\ Len(statement) \in Nat /\ (index <= Len(statement) => scanned = FALSE)
  BY TypeFacts
<1>2. k \in 1 .. Len(statement)
  BY <1>1, AtFacts
<1>3. k <= Len(statement)
  BY ONLY <1>1, <1>2
<1> QED
  BY <1>1, <1>2, <1>3

(* What every fragment has to show. *)
LEMMA FragmentPreserves ==
    ASSUME ScanInv, NEW c, char = c, c # "", NEW stop \in Nat, index < stop, CopyTo(stop),
           NEW q, q = IF stop > Len(statement) THEN Len(statement) + 1 ELSE stop,
           positionalPlaceholder' = <<>> => positionalPlaceholder = <<>>,
           positionalPlaceholder' = <<>> /\ ~PostgresReads(statement).odd /\ Fragment(index, q, c) => Together(index, q)
    PROVE  ScanInv'
<1>1. /\ statement \in Text /\ Len(statement) \in Nat /\ index \in Nat \ {0} /\ ScanTypes
  BY TypeFacts DEF ScanInv
<1>2. index <= Len(statement) /\ scanned = FALSE
  BY <1>1, CharFacts DEF char
<1>3. index < q /\ q <= Len(statement) + 1 /\ q \in Nat
  <2>1. stop \in Nat /\ index < stop /\ q = IF stop > Len(statement) THEN Len(statement) + 1 ELSE stop
    OBVIOUS
  <2> QED
    BY ONLY <1>1, <1>2, <2>1
<1>4. Fragment(index, q, c)
  BY <1>1, <1>3 DEF Fragment, char
<1> QED
  BY <1>2, <1>4, CopyPreserves

(* Every action keeps the invariant: a comment up to the end of the line, *)
LEMMA LineCommentPreserves == ScanInv /\ LineComment => ScanInv'
<1> SUFFICES ASSUME ScanInv, LineComment
             PROVE  ScanInv'
  OBVIOUS
<1> DEFINE n == Len(statement)
           places == {k \in DOMAIN statement : statement[k] = "n"}
           stop == FirstFrom(statement, index, places)
<1>1. /\ statement \in Text /\ n \in Nat /\ index \in Nat \ {0} /\ ScanTypes
  BY TypeFacts DEF ScanInv
<1>2. char = "-" /\ next = "-" /\ CopyTo(stop) /\ positionalPlaceholder' = positionalPlaceholder
  BY DEF LineComment
<1>3. index \in 1 .. n /\ index <= n + 1
  <2>1. index \in 1 .. Len(statement)
    BY <1>1, <1>2, CharFacts DEF char
  <2> QED
    BY ONLY <1>1, <2>1
<1>4. places \in SUBSET (1 .. n)
  BY <1>1, AtFacts
<1>5. statement[index] = "-"
  BY <1>1, <1>2, <1>3, AtFacts DEF char
<1>6. index \notin places
  BY <1>5
<1> HIDE DEF places
<1>7. stop \in Nat /\ index <= stop /\ stop <= n + 1 /\ (stop = n + 1 \/ stop \in places)
  BY <1>1, <1>3, <1>4, FirstFromFacts
<1> HIDE DEF n, stop
<1>8. index < stop /\ stop = IF stop > n THEN n + 1 ELSE stop
  <2>1. index # stop
    <3>1. index # n + 1
      BY ONLY <1>1, <1>3
    <3> QED
      BY <1>6, <1>7, <3>1
  <2> QED
    BY ONLY <1>1, <1>7, <2>1
<1>9. Fragment(index, stop, "-") => Together(index, stop)
  BY <1>1, <1>2, LineCommentTogether DEF next, stop, places
<1> DEFINE c == "-"
<1>10. /\ char = c /\ c # "" /\ CopyTo(stop) /\ (positionalPlaceholder' = <<>> => positionalPlaceholder = <<>>)
       /\ Fragment(index, stop, c) => Together(index, stop)
       /\ stop = IF stop > Len(statement) THEN Len(statement) + 1 ELSE stop
       /\ ScanInv /\ stop \in Nat /\ index < stop
  BY <1>2, <1>7, <1>8, <1>9 DEF n
<1> HIDE DEF c
<1> QED
  BY ONLY <1>10, FragmentPreserves

(* a block comment, *)
LEMMA BlockCommentPreserves == ScanInv /\ BlockComment => ScanInv'
<1> SUFFICES ASSUME ScanInv, BlockComment
             PROVE  ScanInv'
  OBVIOUS
<1> DEFINE n == Len(statement)
           stop == BlockEnd(index)
           q == IF stop > n THEN n + 1 ELSE stop
<1>1. /\ statement \in Text /\ n \in Nat /\ index \in Nat \ {0} /\ ScanTypes
  BY TypeFacts DEF ScanInv
<1>2. char = "/" /\ next = "*" /\ CopyTo(stop) /\ positionalPlaceholder' = positionalPlaceholder
  BY DEF BlockComment
<1>3. stop \in Nat /\ index < stop
  <2> DEFINE k == index + 2
             one == 1
  <2>1. k \in Nat /\ one \in Depths
    BY ONLY <1>1 DEF Depths
  <2>2. stop = CommentEnds[k][one]
    BY <1>1, CommentEndsUnfold
  <2> HIDE DEF k, one, stop
  <2>3. stop \in Nat /\ k <= stop
    BY <1>1, <2>1, <2>2, CommentEndsFacts
  <2> QED
    BY ONLY <1>1, <2>3 DEF k
<1>4. Fragment(index, q, "/") => Together(index, q)
  BY <1>1, <1>2, BlockCommentTogether DEF next
<1> HIDE DEF stop
<1> DEFINE c == "/"
<1>10. /\ char = c /\ c # "" /\ CopyTo(stop) /\ (positionalPlaceholder' = <<>> => positionalPlaceholder = <<>>)
       /\ Fragment(index, q, c) => Together(index, q)
       /\ q = IF stop > Len(statement) THEN Len(statement) + 1 ELSE stop
       /\ ScanInv /\ stop \in Nat /\ index < stop
  BY <1>2, <1>3, <1>4
<1> HIDE DEF c, q
<1> QED
  BY ONLY <1>10, FragmentPreserves

(* a string with escapes, *)
LEMMA EscapeStringPreserves == ScanInv /\ EscapeString => ScanInv'
<1> SUFFICES ASSUME ScanInv, EscapeString
             PROVE  ScanInv'
  OBVIOUS
<1> DEFINE n == Len(statement)
           stop == QuoteEnd("'", index + 2, TRUE)
           q == IF stop > n THEN n + 1 ELSE stop
<1>1. /\ statement \in Text /\ n \in Nat /\ index \in Nat \ {0} /\ ScanTypes
  BY TypeFacts DEF ScanInv
<1>2. /\ char = "E" /\ next = "'" /\ At(statement, index - 1) \notin IDENTIFIER_PART
      /\ CopyTo(stop) /\ positionalPlaceholder' = positionalPlaceholder
  BY DEF EscapeString, StartsEscapeString
<1>3. stop \in Nat /\ index < stop
  <2> DEFINE k == index + 2
  <2>1. k \in Nat
    BY ONLY <1>1
  <2> HIDE DEF k
  <2>2. stop = QuoteEnd("'", k, TRUE)
    BY DEF k
  <2> HIDE DEF stop
  <2>3. stop \in Nat /\ k <= stop
    BY <1>1, <2>1, <2>2, QuoteEndFacts
  <2> QED
    BY ONLY <1>1, <2>3 DEF k
<1>4. Fragment(index, q, "E") => Together(index, q)
  BY <1>1, <1>2, EscapeStringTogether DEF next
<1> HIDE DEF stop
<1> DEFINE c == "E"
<1>10. /\ char = c /\ c # "" /\ CopyTo(stop) /\ (positionalPlaceholder' = <<>> => positionalPlaceholder = <<>>)
       /\ Fragment(index, q, c) => Together(index, q)
       /\ q = IF stop > Len(statement) THEN Len(statement) + 1 ELSE stop
       /\ ScanInv /\ stop \in Nat /\ index < stop
  BY <1>2, <1>3, <1>4
<1> HIDE DEF c, q
<1> QED
  BY ONLY <1>10, FragmentPreserves

(* a string and a quoted name, *)
LEMMA QuotedPreserves == ScanInv /\ Quoted => ScanInv'
<1> SUFFICES ASSUME ScanInv, Quoted
             PROVE  ScanInv'
  OBVIOUS
<1> DEFINE n == Len(statement)
           c == char
           stop == QuoteEnd(c, index + 1, FALSE)
           q == IF stop > n THEN n + 1 ELSE stop
<1>1. /\ statement \in Text /\ n \in Nat /\ index \in Nat \ {0} /\ ScanTypes
  BY TypeFacts DEF ScanInv
<1>2. c \in {"'", "q"} /\ c # "" /\ CopyTo(stop) /\ positionalPlaceholder' = positionalPlaceholder
  BY DEF Quoted
<1> HIDE DEF c
<1>3. stop \in Nat /\ index < stop
  <2> DEFINE k == index + 1
  <2>1. k \in Nat
    BY ONLY <1>1
  <2> HIDE DEF k
  <2>2. stop = QuoteEnd(c, k, FALSE)
    BY DEF k
  <2> HIDE DEF stop
  <2>3. stop \in Nat /\ k <= stop
    BY <1>1, <2>1, <2>2, QuoteEndFacts
  <2> QED
    BY ONLY <1>1, <2>3 DEF k
<1>4. Fragment(index, q, c) => Together(index, q)
  BY <1>1, <1>2, QuotedTogether
<1> HIDE DEF stop
<1> QED
  BY <1>2, <1>3, <1>4, FragmentPreserves DEF c

(* a cast, *)
LEMMA CastPreserves == ScanInv /\ Cast => ScanInv'
<1> SUFFICES ASSUME ScanInv, Cast
             PROVE  ScanInv'
  OBVIOUS
<1> DEFINE n == Len(statement)
           stop == index + 2
           k == index + 1
<1>1. /\ statement \in Text /\ n \in Nat /\ index \in Nat \ {0} /\ ScanTypes
  BY TypeFacts DEF ScanInv
<1>2. char = ":" /\ next = ":" /\ CopyTo(stop) /\ positionalPlaceholder' = positionalPlaceholder
  BY DEF Cast
<1>3. stop \in Nat /\ index < stop /\ k \in Nat /\ stop = k + 1
  BY ONLY <1>1
<1>4. k \in 1 .. n
  BY <1>1, <1>2, <1>3, CharFacts DEF next
<1>5. stop = IF stop > n THEN n + 1 ELSE stop
  BY ONLY <1>1, <1>3, <1>4
<1>6. Fragment(index, stop, ":") => Together(index, stop)
  BY <1>1, <1>2, CastTogether DEF next
<1> HIDE DEF stop
<1> DEFINE c == ":"
<1>10. /\ char = c /\ c # "" /\ CopyTo(stop) /\ (positionalPlaceholder' = <<>> => positionalPlaceholder = <<>>)
       /\ Fragment(index, stop, c) => Together(index, stop)
       /\ stop = IF stop > Len(statement) THEN Len(statement) + 1 ELSE stop
       /\ ScanInv /\ stop \in Nat /\ index < stop
  BY <1>2, <1>3, <1>5, <1>6
<1> HIDE DEF c
<1> QED
  BY ONLY <1>10, FragmentPreserves

(* dollar quotes, *)
LEMMA DollarQuotedPreserves == ScanInv /\ DollarQuoted => ScanInv'
<1> SUFFICES ASSUME ScanInv, DollarQuoted
             PROVE  ScanInv'
  OBVIOUS
<1> DEFINE n == Len(statement)
           tag == DollarTag(statement, index)
           m == Len(tag)
           places == {k \in DOMAIN statement : IsAt(statement, k, tag)}
           j == index + m
           closing == FirstFrom(statement, j, places)
           stop == IF closing > n THEN closing ELSE closing + m
           q == IF closing > n THEN n + 1 ELSE closing + m
           c == "$"
<1>1. /\ statement \in Text /\ n \in Nat /\ index \in Nat \ {0} /\ ScanTypes
  BY TypeFacts DEF ScanInv
<1>2. char = c /\ c # "" /\ tag # <<>> /\ CopyTo(stop) /\ positionalPlaceholder' = positionalPlaceholder
  BY DEF DollarQuoted
<1> HIDE DEF c
<1>3. index \in 1 .. n
  BY <1>1, <1>2, CharFacts DEF char
<1>4. /\ tag \in Text /\ m \in Nat /\ m >= 2 /\ index + m - 1 <= n
  BY <1>1, <1>2, <1>3, DollarTagFacts
<1>5. places \in SUBSET (1 .. n)
  BY <1>1, AtFacts
<1> HIDE DEF tag, places, m
<1>6. closing \in Nat /\ j <= closing /\ closing <= n + 1 /\ (closing = n + 1 \/ closing \in places)
  <2>1. j \in Nat /\ j <= n + 1
    BY ONLY <1>1, <1>4
  <2> HIDE DEF j
  <2> QED
    BY <1>1, <1>5, <2>1, FirstFromFacts
<1>7. closing \in places => closing + m - 1 <= n
  <2> SUFFICES ASSUME closing \in places
               PROVE  closing + m - 1 <= n
    OBVIOUS
  <2>1. IsAt(statement, closing, tag)
    BY DEF places
  <2> QED
    BY <2>1 DEF IsAt, m
<1> HIDE DEF closing, n
<1>8. stop \in Nat /\ index < stop /\ q = IF stop > n THEN n + 1 ELSE stop
  BY ONLY <1>1, <1>3, <1>4, <1>6, <1>7
<1>9. ~PostgresReads(statement).odd /\ Fragment(index, q, c) => Together(index, q)
  <2>1. /\ statement \in Text /\ tag = DollarTag(statement, index) /\ tag # <<>>
        /\ closing = FirstFrom(statement, index + Len(tag), {k \in DOMAIN statement : IsAt(statement, k, tag)})
        /\ q = IF closing > Len(statement) THEN Len(statement) + 1 ELSE closing + Len(tag)
    BY <1>1, <1>2 DEF tag, closing, places, m, n
  <2> HIDE DEF q
  <2> QED
    BY ONLY <2>1, DollarQuotedTogether DEF c
<1>10. /\ char = c /\ c # "" /\ CopyTo(stop) /\ (positionalPlaceholder' = <<>> => positionalPlaceholder = <<>>)
       /\ q = IF stop > Len(statement) THEN Len(statement) + 1 ELSE stop
       /\ ScanInv /\ stop \in Nat /\ index < stop
  BY <1>2, <1>8 DEF n
<1> HIDE DEF q, stop
<1>11. CASE ~PostgresReads(statement).odd
  <2>1. Fragment(index, q, c) => Together(index, q)
    BY <1>9, <1>11
  <2> QED
    BY ONLY <1>10, <2>1, FragmentPreserves
<1>12. CASE PostgresReads(statement).odd
  BY ONLY <1>10, <1>12, FragmentPreserves
<1> QED
  BY <1>11, <1>12

(* and any other character. *)
LEMMA LiteralPreserves == ScanInv /\ Literal => ScanInv'
<1> SUFFICES ASSUME ScanInv, Literal
             PROVE  ScanInv'
  OBVIOUS
<1> DEFINE n == Len(statement)
           stop == index + 1
           c == char
           number == SubSeq(statement, index, NumberEnd(statement, index + 1) - 1)
<1>1. /\ statement \in Text /\ n \in Nat /\ index \in Nat \ {0} /\ ScanTypes
  BY TypeFacts DEF ScanInv
<1>2. /\ index <= n /\ CopyTo(stop)
      /\ <<c, next>> \notin {<<"-", "-">>, <<"/", "*">>, <<":", ":">>}
      /\ ~(c = "E" /\ next = "'" /\ At(statement, index - 1) \notin IDENTIFIER_PART)
      /\ c \notin {"'", "q"} /\ DollarTag(statement, index) = <<>> /\ ~(c = ":" /\ next \in IDENTIFIER_START)
      /\ positionalPlaceholder' =
            IF positionalPlaceholder = <<>> /\ c = "$" /\ next \in DIGIT THEN number ELSE positionalPlaceholder
  BY DEF Literal, StartsEscapeString
<1>3. index \in 1 .. n /\ stop \in Nat /\ index < stop /\ stop <= n + 1 /\ stop = IF stop > n THEN n + 1 ELSE stop
  <2>1. index <= n
    BY <1>2
  <2> QED
    BY ONLY <1>1, <2>1
<1>4. c # ""
  BY <1>1, <1>3, AtFacts DEF char
<1>5. number # <<>>
  <2> DEFINE e == NumberEnd(statement, stop)
             o == e - 1
  <2>1. e \in Nat /\ stop <= e /\ e <= n + 1
    <3>1. stop \in Nat \ {0} /\ stop <= n + 1
      BY ONLY <1>1, <1>3
    <3> HIDE DEF stop
    <3> QED
      BY <1>1, <3>1, NumberEndFacts
  <2> HIDE DEF e
  <2>2. o \in Nat /\ o <= n /\ index <= o + 1 /\ o + 1 - index # 0
    BY ONLY <1>1, <1>3, <2>1
  <2>3. number = SubSeq(statement, index, o)
    BY DEF e
  <2> HIDE DEF o, number
  <2>4. Len(number) = o + 1 - index
    BY <1>1, <2>2, <2>3, SubSeqFacts
  <2>5. Len(number) # 0
    BY ONLY <2>2, <2>4
  <2>6. Len(<<>>) = 0
    OBVIOUS
  <2> QED
    BY ONLY <2>5, <2>6
<1> HIDE DEF number, c
<1>6. /\ positionalPlaceholder' = <<>> => positionalPlaceholder = <<>>
      /\ positionalPlaceholder' = <<>> => ~(c = "$" /\ next \in DIGIT)
  BY <1>2, <1>5
<1>7. positionalPlaceholder' = <<>> /\ ~PostgresReads(statement).odd /\ Fragment(index, stop, c)
      => Together(index, stop)
  BY <1>1, <1>2, <1>6, LiteralTogether DEF next
<1> HIDE DEF stop
<1>8. /\ char = c /\ c # "" /\ CopyTo(stop) /\ (positionalPlaceholder' = <<>> => positionalPlaceholder = <<>>)
      /\ stop = IF stop > Len(statement) THEN Len(statement) + 1 ELSE stop
      /\ ScanInv /\ stop \in Nat /\ index < stop
  BY <1>2, <1>3, <1>4, <1>6 DEF c, n
<1> QED
  BY ONLY <1>7, <1>8, FragmentPreserves

(* A gap more. *)
More(parts, part, before, after, last) ==
    Joined(Append(parts, part), after) = (Joined(parts, before) \o part) \o last

(* That is what one part and one gap more make. *)
LEMMA JoinedMore ==
    ASSUME NEW parts \in Seq(Text), NEW part \in Text, NEW before, NEW after, NEW n, n = Len(parts), NEW last \in Text,
           DOMAIN before = 1 .. n, \A k \in 1 .. n : before[k] \in Text, DOMAIN after = 1 .. n + 1,
           \A k \in 1 .. n : after[k] = before[k], after[n + 1] = last
    PROVE  More(parts, part, before, after, last)
<1>1. n \in Nat /\ n + 1 \in 1 .. n + 1 /\ \A k \in 1 .. n + 1 : k = n + 1 \/ k \in 1 .. n
  <2>1. n \in Nat
    BY LenProperties
  <2> QED
    BY ONLY <2>1
<1>2. \A k \in DOMAIN after : after[k] \in Text
  BY <1>1
<1>3. Longer(parts, part, before, after, n)
  <2>1. /\ parts \in Seq(Text) /\ part \in Text /\ n = Len(parts) /\ DOMAIN before = 1 .. n
        /\ DOMAIN after = 1 .. n \/ DOMAIN after = 1 .. n + 1
        /\ \A k \in 1 .. n : after[k] = before[k]
    OBVIOUS
  <2> QED
    BY ONLY <1>2, <2>1, JoinedAppend
<1>4. Gap(after, n + 1) = last
  BY <1>1 DEF Gap
<1> QED
  BY <1>3, <1>4 DEF Longer, More

(* The placeholders of one parameter more. *)
LEMMA AppendedNumeral ==
    ASSUME NEW m \in Nat, m + 1 <= Len(Numeral)
    PROVE  Append([k \in 1 .. m |-> Numeral[k]], Numeral[m + 1]) = [k \in 1 .. m + 1 |-> Numeral[k]]
<1> DEFINE f == [k \in 1 .. m |-> Numeral[k]]
           g == [k \in 1 .. m + 1 |-> Numeral[k]]
           last == Numeral[m + 1]
           S == Seq(DIGIT)
<1>1. Len(Numeral) \in Nat
  <2>1. Numeral \in Seq(Seq(DIGIT) \ {<<>>})
    BY SqlScanAssumption
  <2> QED
    BY <2>1, LenProperties
<1>2. \A k \in 1 .. m + 1 : k \in 1 .. Len(Numeral)
  BY <1>1
<1>3. \A k \in 1 .. m + 1 : Numeral[k] \in S
  BY <1>2, NumeralFacts
<1> HIDE DEF S
<1>4. f \in Seq(S) /\ Len(f) = m /\ last \in S
  <2>1. \A k \in 1 .. m : k \in 1 .. m + 1
    OBVIOUS
  <2>2. m + 1 \in 1 .. m + 1
    OBVIOUS
  <2> QED
    BY <1>3, <2>1, <2>2
<1>5. g \in Seq(S) /\ Len(g) = m + 1
  BY <1>3
<1>6. \A k \in 1 .. m : f[k] = Numeral[k]
  OBVIOUS
<1>7. \A k \in 1 .. m + 1 : g[k] = Numeral[k]
  OBVIOUS
<1> HIDE DEF f, g
<1>8. /\ Append(f, last) \in Seq(S) /\ Len(Append(f, last)) = m + 1
      /\ \A k \in 1 .. m : Append(f, last)[k] = f[k]
      /\ Append(f, last)[m + 1] = last
  BY <1>4, AppendProperties
<1>9. \A k \in 1 .. m + 1 : Append(f, last)[k] = g[k]
  <2>1. \A k \in 1 .. m + 1 : k = m + 1 \/ k \in 1 .. m
    OBVIOUS
  <2> QED
    BY <1>6, <1>7, <1>8, <2>1
<1>10. Append(f, last) = g
  BY <1>5, <1>8, <1>9, SeqEqual
<1> QED
  BY <1>10 DEF f, g

(* A reference is the part of the statement it stands for. *)
LEMMA ReferenceText ==
    ASSUME statement \in Text, NEW i \in Nat \ {0}, NEW q \in Nat, i < q, q <= Len(statement) + 1,
           At(statement, i) = ":"
    PROVE  /\ SubSeq(statement, i + 1, q - 1) \in Text
           /\ Named(SubSeq(statement, i + 1, q - 1)) = SubSeq(statement, i, q - 1)
<1> DEFINE n == Len(statement)
           o == q - 1
           j == i + 1
           l == q - i
           one == <<":">>
           a == SubSeq(statement, j, o)
           b == SubSeq(statement, i, o)
           named == Named(a)
<1>1. n \in Nat
  BY AtFacts
<1>2. o \in Nat /\ o <= n /\ j \in Nat \ {0} /\ j <= o + 1 /\ i <= o + 1 /\ o + 1 - i = l /\ o + 1 - j = l - 1
      /\ l \in Nat /\ l - 1 \in Nat /\ i \in 1 .. n
  <2>1. i \in Nat \ {0} /\ q \in Nat /\ i < q /\ q <= n + 1
    OBVIOUS
  <2> QED
    BY ONLY <1>1, <2>1
<1>3. statement[i] = ":"
  BY <1>2, AtFacts
<1> HIDE DEF o
<1>4. b \in Text /\ Len(b) = l /\ \A k \in 1 .. l : b[k] = statement[i + k - 1]
  <2>1. b \in Text /\ Len(b) = o + 1 - i /\ \A k \in 1 .. o + 1 - i : b[k] = statement[i + k - 1]
    BY <1>2, SubSeqFacts
  <2> HIDE DEF b, l
  <2> QED
    BY <1>2, <2>1
<1>5. a \in Text /\ Len(a) = l - 1 /\ \A k \in 1 .. l - 1 : a[k] = statement[j + k - 1]
  <2> HIDE DEF j
  <2>1. a \in Text /\ Len(a) = o + 1 - j /\ \A k \in 1 .. o + 1 - j : a[k] = statement[j + k - 1]
    BY <1>2, SubSeqFacts
  <2> HIDE DEF a, l
  <2> QED
    BY <1>2, <2>1
<1> HIDE DEF a, b, l
<1>6. one \in Text /\ Len(one) = 1 /\ one[1] = ":"
  <2>1. ":" \in Character
    BY SqlScanAssumption
  <2> QED
    BY <2>1 DEF Text
<1>7. named = one \o a
  BY DEF Named
<1> DEFINE colon == ":"
<1>8. one[1] = colon /\ statement[i] = colon
  BY <1>3, <1>6
<1> HIDE DEF one, named, colon
<1>9. /\ named \in Text /\ Len(named) = 1 + (l - 1)
      /\ \A k \in 1 .. 1 + (l - 1) : named[k] = IF k <= 1 THEN one[k] ELSE a[k - 1]
  <2>1. /\ one \o a \in Text /\ Len(one \o a) = Len(one) + Len(a)
        /\ \A k \in 1 .. Len(one) + Len(a) : (one \o a)[k] = IF k <= Len(one) THEN one[k] ELSE a[k - Len(one)]
    BY <1>5, <1>6, ConcatProperties DEF Text
  <2>2. Len(one) = 1
    BY <1>6
  <2> QED
    BY ONLY <1>5, <1>7, <2>1, <2>2
<1>10. ASSUME NEW k \in 1 .. l PROVE named[k] = b[k]
  <2>1. CASE k = 1
    <3>1. i + 1 - 1 = i /\ 1 \in 1 .. l /\ 1 \in 1 .. 1 + (l - 1)
      BY ONLY <1>2, <2>1
    <3>2. b[1] = statement[i]
      BY <1>4, <3>1
    <3>3. named[1] = one[1]
      BY ONLY <1>9, <3>1
    <3> QED
      BY <1>8, <2>1, <3>2, <3>3
  <2>2. CASE k # 1
    <3> DEFINE h == k - 1
    <3>1. h \in 1 .. l - 1 /\ j + h - 1 = i + k - 1 /\ k \in 1 .. 1 + (l - 1) /\ ~(k <= 1)
      BY ONLY <1>2, <2>2, k \in 1 .. l DEF h, j
    <3>2. named[k] = a[h]
      BY <1>9, <3>1
    <3> HIDE DEF h
    <3>3. a[h] = statement[j + h - 1] /\ b[k] = statement[i + k - 1]
      BY <1>4, <1>5, <3>1
    <3> QED
      BY <3>1, <3>2, <3>3
  <2> QED
    BY <2>1, <2>2
<1>11. named = b
  <2>1. Len(named) = l
    BY ONLY <1>2, <1>9
  <2> QED
    BY <1>4, <1>9, <1>10, <2>1, SeqEqual DEF Text
<1> QED
  BY <1>5, <1>11 DEF a, b, named, o

(* What a reference and its placeholder make of a reader. *)
ParameterEffect(x, numeral, q) ==
    /\ \E z : Reported(z) /\ x.placeholders = Append(z.placeholders, numeral) /\ x.references = z.references
    /\ q <= Len(statement) => Twins(x, Before(statement, 0, q), q)

(* A reference is read as a placeholder of its own in what is rendered. *)
LEMMA ParameterRead ==
    ASSUME ScanTypes, scanned = FALSE, NEW R, R = Rendered, NEW numeral \in Seq(DIGIT), numeral # <<>>,
           NEW sign, sign = <<"$">>, Here = index, Reference(index), ~PostgresReads(statement).odd,
           NEW q, q = IdentifierEnd(statement, index + 1),
           \A U \in Text : Continues(U) => ReadSoFar(U),
           NEW more, more = R \o (sign \o numeral), sign \o numeral \in Text,
           NEW U, Starts(U, more), Follows(U, Len(more) + 1, q), NEW x, x = ReaderAfter(U)[Len(more)]
    PROVE  ParameterEffect(x, numeral, q)
<1> DEFINE L == Len(R)
           m == Len(numeral)
           p == L + 1
           piece == sign \o numeral
           z == ReaderAfter(U)[L]
           w == Before(statement, 0, index)
           v == Before(statement, 0, q)
           n == Len(statement)
<1>1. statement \in Text /\ index \in Nat \ {0} /\ R \in Text /\ n \in Nat
  BY TypeFacts, GapFacts
<1>2. /\ Starts(U, R) /\ L \in Nat /\ Len(more) = L + Len(piece) /\ L + Len(piece) <= Len(U)
      /\ \A k \in 1 .. Len(piece) : U[L + k] = piece[k]
  <2>1. R \in Text /\ piece \in Text /\ Starts(U, R \o piece) /\ more = R \o piece
    BY <1>1
  <2> HIDE DEF piece, L
  <2>2. /\ Starts(U, R) /\ Len(R) \in Nat /\ Len(R \o piece) = Len(R) + Len(piece) /\ Len(R) + Len(piece) <= Len(U)
        /\ \A k \in 1 .. Len(piece) : U[Len(R) + k] = piece[k]
    BY ONLY <2>1, StartsConcat
  <2> QED
    BY <2>1, <2>2 DEF L
<1>3. m \in Nat /\ m # 0
  BY EmptySeq
<1>4. Len(piece) = 1 + m /\ \A k \in 1 .. 1 + m : piece[k] = IF k <= 1 THEN sign[1] ELSE numeral[k - 1]
  <2> DEFINE S == DIGIT \cup {"$"}
  <2>1. sign \in Seq(S) /\ Len(sign) = 1
    OBVIOUS
  <2>2. numeral \in Seq(S)
    <3>1. DIGIT \subseteq S
      OBVIOUS
    <3> HIDE DEF S
    <3> QED
      BY <3>1, SeqMonotonic
  <2> HIDE DEF S
  <2>3. /\ Len(sign \o numeral) = Len(sign) + Len(numeral)
        /\ \A k \in 1 .. Len(sign) + Len(numeral) :
             (sign \o numeral)[k] = IF k <= Len(sign) THEN sign[k] ELSE numeral[k - Len(sign)]
    BY <2>1, <2>2, ConcatProperties
  <2>4. /\ Len(piece) = 1 + m
        /\ \A k \in 1 .. 1 + m : piece[k] = IF k <= 1 THEN sign[k] ELSE numeral[k - 1]
    BY ONLY <2>1, <2>3 DEF piece, m
  <2>5. \A k \in 1 .. 1 + m : k <= 1 => k = 1
    BY ONLY <1>3
  <2> HIDE DEF piece
  <2> QED
    BY <2>4, <2>5
<1> DEFINE dollar == "$"
<1>5. sign[1] = dollar
  OBVIOUS
<1> HIDE DEF L, m, piece, n, dollar, z, w, v
<1>6. /\ p \in Nat \ {0} /\ p - 1 = L /\ p + m <= Len(U) /\ p \in 1 .. Len(U) /\ Len(more) = p + m
      /\ 1 \in 1 .. 1 + m /\ 1 <= 1 /\ L + 1 = p
  <2>1. Len(U) \in Nat
    BY <1>2, AtFacts DEF Starts
  <2> QED
    BY ONLY <1>2, <1>3, <1>4, <2>1 DEF p
<1>7. U[p] = dollar
  <2>1. U[L + 1] = piece[1] /\ piece[1] = sign[1]
    BY ONLY <1>2, <1>4, <1>6
  <2> QED
    BY <1>5, <2>1
<1>8. \A k \in 1 .. m : U[p + k] = numeral[k]
  <2> SUFFICES ASSUME NEW k \in 1 .. m
               PROVE  U[p + k] = numeral[k]
    OBVIOUS
  <2> DEFINE j == k + 1
  <2>1. j \in 1 .. 1 + m /\ ~(j <= 1) /\ j - 1 = k /\ L + j = p + k
    BY ONLY <1>2, <1>3, k \in 1 .. m
  <2> HIDE DEF j, p
  <2>2. U[L + j] = piece[j] /\ piece[j] = numeral[j - 1]
    BY ONLY <1>2, <1>4, <2>1
  <2> QED
    BY <2>1, <2>2
<1> HIDE DEF p
<1>9. At(U, p) = "$" /\ U \in Text
  BY <1>2, <1>6, <1>7, AtFacts DEF Starts, dollar
<1>10. Continues(U)
  <2>1. Follows(U, Len(R) + 1, index)
    BY <1>6, <1>9 DEF Follows, L
  <2> QED
    BY <1>2, <2>1 DEF Continues
<1>11. Reported(z) /\ (index <= n => Twins(z, w, index))
  BY <1>9, <1>10 DEF ReadSoFar, z, w, L, n
<1>12. index <= n
  <2>1. At(statement, index) # ""
    BY DEF Reference
  <2>2. index \in 1 .. n
    BY <1>1, <2>1, AtFacts DEF n
  <2> QED
    BY ONLY <1>1, <2>2
<1>13. Live(z, index) /\ Live(w, index) /\ (InWord(z) <=> InWord(w))
  BY <1>11, <1>12 DEF Twins
<1>14. /\ q \in Nat /\ At(statement, q) \notin IDENTIFIER_PART
       /\ ~InWord(w) /\ (q <= n => Live(v, q) /\ ~InWord(v))
  BY <1>1, <1>13, ReferenceRead DEF w, v, n
<1>15. z.mode = "sql" /\ z.skip = 0
  <2>1. At(statement, index) # "n"
    BY DEF Reference
  <2> QED
    BY <1>13, <2>1, LiveInSql
<1>16. At(U, p + m + 1) \notin DIGIT
  <2>1. Follows(U, p + m + 1, q)
    BY <1>6
  <2> QED
    BY <1>14, <2>1 DEF Follows, IDENTIFIER_PART, DIGIT
<1>17. PlaceholderEffect(z, x, numeral)
  <2>1. /\ U \in Text /\ p \in Nat \ {0} /\ numeral \in Seq(DIGIT) /\ m = Len(numeral) /\ m # 0
        /\ p + m <= Len(U) /\ U[p] = "$" /\ (\A k \in 1 .. m : U[p + k] = numeral[k]) /\ At(U, p + m + 1) \notin DIGIT
        /\ z = ReaderAfter(U)[p - 1] /\ z.mode = "sql" /\ z.skip = 0 /\ ~InWord(z)
        /\ x = ReaderAfter(U)[p + m]
    BY <1>3, <1>6, <1>7, <1>8, <1>9, <1>13, <1>14, <1>15, <1>16 DEF m, z, dollar
  <2> QED
    BY ONLY <2>1, PlaceholderRead
<1>18. q <= n => Twins(x, v, q)
  <2>1. x.mode = "sql" /\ x.skip = 0 /\ x.word = "number"
    BY <1>17 DEF PlaceholderEffect, Becomes
  <2> QED
    BY <1>14, <2>1 DEF Twins, Live, InWord
<1> QED
  BY <1>11, <1>17, <1>18 DEF PlaceholderEffect, ParameterEffect, v, n

(* So does a reference, *)
LEMMA ParameterPreserves == ScanInv /\ Parameter => ScanInv'
<1> SUFFICES ASSUME ScanInv, Parameter
             PROVE  ScanInv'
  OBVIOUS
<1> DEFINE n == Len(statement)
           m == Len(parameterNames)
           j == index + 1
           q == IdentifierEnd(statement, j)
           name == SubSeq(statement, j, q - 1)
           numeral == Numeral[m + 1]
           sign == <<"$">>
<1>1. /\ statement \in Text /\ n \in Nat /\ index \in Nat \ {0} /\ ScanTypes /\ Here \in Nat \ {0}
      /\ segments \in Seq(Text) /\ current \in Text /\ parameterNames \in Seq(Text) /\ m \in Nat /\ m < Here
      /\ DOMAIN parameterNames = 1 .. m /\ n <= Len(Numeral) /\ Len(Numeral) \in Nat
  BY TypeFacts DEF ScanInv
<1>2. /\ char = ":" /\ next \in IDENTIFIER_START
      /\ segments' = Append(segments, current) /\ current' = <<>> /\ parameterNames' = Append(parameterNames, name)
      /\ index' = q /\ statement' = statement /\ positionalPlaceholder' = positionalPlaceholder /\ scanned' = scanned
  BY DEF Parameter
<1>3. Reference(index) /\ At(statement, index) = ":"
  BY <1>2 DEF Reference, char, next
<1>4. index \in 1 .. n /\ scanned = FALSE
  <2>1. At(statement, index) # ""
    BY <1>3
  <2> QED
    BY <1>1, <2>1, CharFacts
<1>5. j \in Nat \ {0} /\ j \in 1 .. n /\ j <= n + 1 /\ At(statement, j) \in IDENTIFIER_PART
  <2>1. j \in Nat
    BY ONLY <1>1
  <2>2. At(statement, j) # "" /\ At(statement, j) \in IDENTIFIER_PART
    BY <1>2 DEF next, IDENTIFIER_START, IDENTIFIER_PART
  <2>3. j \in 1 .. n
    BY <1>1, <2>1, <2>2, CharFacts
  <2> HIDE DEF j, n
  <2>4. j \in Nat \ {0} /\ j <= n + 1
    BY ONLY <1>1, <2>1, <2>3
  <2> QED
    BY <2>2, <2>3, <2>4
<1>6. q \in Nat /\ j <= q /\ q <= n + 1 /\ At(statement, q) \notin IDENTIFIER_PART
  <2> HIDE DEF j
  <2> QED
    BY <1>1, <1>5, IdentifierEndFacts
<1> HIDE DEF n, q, numeral, sign
<1>7. index < q /\ q \in Nat \ {0} /\ Here = index /\ Here' = q /\ m + 1 < q
  <2>1. ~(index > n) /\ ~(q > n + 1)
    BY ONLY <1>1, <1>4, <1>6
  <2>2. Here = index
    BY <2>1 DEF Here, n
  <2>3. index < q /\ q \in Nat \ {0}
    BY ONLY <1>1, <1>6
  <2>4. Here' = q
    <3>1. Here' = IF q > n THEN n + 1 ELSE q
      BY <1>2 DEF Here, n
    <3> QED
      BY ONLY <1>1, <1>6, <3>1
  <2>5. m + 1 < q
    BY ONLY <1>1, <1>6, <2>2 DEF j
  <2> QED
    BY <2>2, <2>3, <2>4, <2>5
<1>8. name \in Text /\ Named(name) = SubSeq(statement, index, q - 1)
  BY <1>1, <1>3, <1>6, <1>7, ReferenceText DEF n
<1>9. m + 1 <= Len(Numeral) /\ m + 1 \in 1 .. Len(Numeral)
  BY ONLY <1>1, <1>4, <1>7
<1>10. numeral \in Seq(DIGIT) /\ numeral # <<>> /\ Written(m + 1) \in Text /\ Written(m + 1) = sign \o numeral
  BY <1>9, NumeralFacts DEF numeral, sign, Written
<1> HIDE DEF name, j
<1>11. /\ parameterNames' \in Seq(Text) /\ Len(parameterNames') = m + 1 /\ DOMAIN parameterNames' = 1 .. m + 1
       /\ parameterNames'[m + 1] = name /\ \A k \in 1 .. m : parameterNames'[k] = parameterNames[k]
  BY <1>1, <1>2, <1>8, AppendProperties, LenProperties
<1>12. segments' \in Seq(Text) /\ Len(segments) = m /\ Len(segments') = m + 1
  <2>1. Len(segments) = m
    BY <1>1, <1>4 DEF ScanTypes
  <2> QED
    BY <1>1, <1>2, <2>1, AppendProperties
<1>13. ScanTypes'
  <2>1. current' \in Text /\ scanned' = FALSE /\ index' \in Nat \ {0} /\ Len(parameterNames') < Here'
    BY <1>2, <1>4, <1>7, <1>11, TextConcat
  <2> QED
    BY <1>1, <1>2, <1>11, <1>12, <2>1 DEF ScanTypes
<1>14. /\ DOMAIN Placeholders = 1 .. m /\ DOMAIN References = 1 .. m
       /\ \A k \in 1 .. m : /\ Placeholders[k] = Written(k) /\ Placeholders[k] \in Text
                            /\ References[k] = Named(parameterNames[k]) /\ References[k] \in Text
       /\ Joined(segments, Placeholders) \in Text /\ Joined(segments, References) \in Text /\ Rendered \in Text
  BY <1>1, GapFacts
<1>15. /\ DOMAIN Placeholders' = 1 .. m + 1 /\ DOMAIN References' = 1 .. m + 1
       /\ \A k \in 1 .. m + 1 : Placeholders'[k] = Written(k) /\ References'[k] = Named(parameterNames'[k])
  BY <1>11 DEF Placeholders, References, Written, Named
<1>16. m + 1 \in 1 .. m + 1 /\ \A k \in 1 .. m : k \in 1 .. m + 1
  BY ONLY <1>1
<1>17. Named(name) \in Text
  BY <1>8, NamedFacts
<1>18. Joined(segments', Placeholders') = (Joined(segments, Placeholders) \o current) \o (sign \o numeral)
  <2>1. \A k \in 1 .. m : Placeholders'[k] = Placeholders[k]
    BY <1>14, <1>15, <1>16
  <2>2. Placeholders'[m + 1] = Written(m + 1)
    BY <1>15, <1>16
  <2> DEFINE before == Placeholders
             after == Placeholders'
             last == Written(m + 1)
  <2>3. /\ segments \in Seq(Text) /\ current \in Text /\ m = Len(segments) /\ last \in Text
        /\ DOMAIN before = 1 .. m /\ \A k \in 1 .. m : before[k] \in Text
        /\ DOMAIN after = 1 .. m + 1 /\ \A k \in 1 .. m : after[k] = before[k]
        /\ after[m + 1] = last
    BY <1>1, <1>10, <1>12, <1>14, <1>15, <1>17, <2>1, <2>2
  <2> HIDE DEF before, after, last
  <2>4. More(segments, current, before, after, last)
    BY ONLY <2>3, JoinedMore
  <2> QED
    BY <1>2, <1>10, <2>4 DEF More, before, after, last
<1>19. Joined(segments', References') = (Joined(segments, References) \o current) \o Named(name)
  <2>1. \A k \in 1 .. m : References'[k] = References[k]
    BY <1>11, <1>14, <1>15, <1>16
  <2>2. References'[m + 1] = Named(name)
    BY <1>11, <1>15, <1>16
  <2> DEFINE before == References
             after == References'
             last == Named(name)
  <2>3. /\ segments \in Seq(Text) /\ current \in Text /\ m = Len(segments) /\ last \in Text
        /\ DOMAIN before = 1 .. m /\ \A k \in 1 .. m : before[k] \in Text
        /\ DOMAIN after = 1 .. m + 1 /\ \A k \in 1 .. m : after[k] = before[k]
        /\ after[m + 1] = last
    BY <1>1, <1>10, <1>12, <1>14, <1>15, <1>17, <2>1, <2>2
  <2> HIDE DEF before, after, last
  <2>4. More(segments, current, before, after, last)
    BY ONLY <2>3, JoinedMore
  <2> QED
    BY <1>2, <2>4 DEF More, before, after, last
<1>20. Reconstructs'
  <2>1. Joined(segments, References) \o current = SubSeq(statement, 1, index - 1)
    BY <1>1, <1>4, <1>7, ReconstructsFacts DEF ScanInv
  <2>2. SubSeq(statement, 1, index - 1) \o Named(name) = SubSeq(statement, 1, q - 1)
    <3>1. index <= q
      BY ONLY <1>1, <1>7
    <3> QED
      BY <1>1, <1>6, <1>7, <1>8, <3>1, SubSeqConcat DEF n
  <2> DEFINE a == Joined(segments, References)
             b == Named(name)
             c == Joined(segments', References')
             d == SubSeq(statement, 1, q - 1)
  <2>3. a \in Text /\ b \in Text /\ current \in Text /\ c = (a \o current) \o b
    BY <1>1, <1>14, <1>17, <1>19
  <2>4. (a \o current) \o b = d
    BY <2>1, <2>2
  <2> HIDE DEF a, b, c, d
  <2>5. c \in Text /\ c \o <<>> = c
    <3>1. a \o current \in Text
      BY ONLY <2>3, TextConcat
    <3>2. c \in Text
      BY ONLY <2>3, <3>1, TextConcat
    <3> QED
      BY ONLY <3>2, TextConcat
  <2>6. c \o <<>> = d
    BY ONLY <2>3, <2>4, <2>5
  <2>7. Joined(segments', References') \o (IF scanned' THEN <<>> ELSE current') = SubSeq(statement', 1, Here' - 1)
    BY <1>2, <1>4, <1>7, <2>6 DEF c, d
  <2>8. (Reconstructs <=>
              Joined(segments, References) \o (IF scanned THEN <<>> ELSE current) = SubSeq(statement, 1, Here - 1))'
    BY <1>13, ReconstructsFacts, PTL
  <2> QED
    BY <2>7, <2>8
<1>21. Rendered' = Rendered \o (sign \o numeral)
  <2>1. (Joined(segments, Placeholders) \o current) \o (sign \o numeral) \in Text
    BY <1>1, <1>10, <1>14, TextConcat
  <2>2. Rendered = Joined(segments, Placeholders) \o current
    BY DEF Rendered
  <2>3. Rendered' = Joined(segments', Placeholders') \o <<>>
    BY <1>2 DEF Rendered
  <2> QED
    BY <1>18, <2>1, <2>2, <2>3, TextConcat
<1>22. ASSUME positionalPlaceholder' = <<>>, ~PostgresReads(statement').odd, NEW U \in Text, Continues(U)'
       PROVE  ReadSoFar(U)'
  <2> DEFINE R == Rendered
             more == Rendered'
             x == ReaderAfter(U)[Len(more)]
             v == Before(statement, 0, q)
  <2>1. Starts(U, more) /\ Follows(U, Len(more) + 1, q)
    BY <1>2, <1>7, <1>22 DEF Continues, Follows, Reference
  <2>2. ~PostgresReads(statement).odd /\ \A T \in Text : Continues(T) => ReadSoFar(T)
    BY <1>2, <1>4, <1>22 DEF ScanInv, Understood
  <2>3. /\ ScanTypes /\ scanned = FALSE /\ R = Rendered /\ numeral \in Seq(DIGIT) /\ numeral # <<>> /\ sign = <<"$">>
        /\ Here = index /\ Reference(index) /\ q = IdentifierEnd(statement, index + 1)
        /\ more = R \o (sign \o numeral) /\ sign \o numeral \in Text
    BY <1>1, <1>3, <1>4, <1>7, <1>10, <1>21 DEF sign, q, j
  <2> HIDE DEF R, more
  <2>4. U \in Text
    OBVIOUS
  <2> HIDE DEF x
  <2>5. x = ReaderAfter(U)[Len(more)]
    BY DEF x
  <2>6. ParameterEffect(x, numeral, q)
    BY ONLY <2>4, <2>5, <2>1, <2>2, <2>3, ParameterRead
  <2>7. /\ \E z : Reported(z) /\ x.placeholders = Append(z.placeholders, numeral) /\ x.references = z.references
        /\ q <= Len(statement) => Twins(x, Before(statement, 0, q), q)
    BY <2>6 DEF ParameterEffect
  <2>8. PICK z : Reported(z) /\ x.placeholders = Append(z.placeholders, numeral) /\ x.references = z.references
    BY <2>7
  <2>9. x.placeholders = [k \in DOMAIN parameterNames' |-> Numeral[k]] /\ x.references = 0
    <3>1. z.placeholders = [k \in 1 .. m |-> Numeral[k]] /\ z.references = 0
      BY <1>1, <2>8 DEF Reported
    <3>2. Append([k \in 1 .. m |-> Numeral[k]], numeral) = [k \in 1 .. m + 1 |-> Numeral[k]]
      BY <1>1, <1>9, AppendedNumeral DEF numeral
    <3> QED
      BY <1>11, <2>8, <3>1, <3>2
  <2>10. q <= n => Twins(x, v, q)
    BY <2>7 DEF n
  <2>11. x = ReaderAfter(U)[Len(Rendered')]
    BY DEF x, more
  <2> QED
    BY <1>2, <1>7, <2>9, <2>10, <2>11 DEF ReadSoFar, Reported, Twins, Live, InWord, Before, n, v
<1> QED
  BY <1>2, <1>4, <1>13, <1>20, <1>22 DEF ScanInv, Understood


(* and so does the end, when what was rendered is all there is to read. *)
LEMMA FinishPreserves == ScanInv /\ Finish => ScanInv'
<1> SUFFICES ASSUME ScanInv, Finish
             PROVE  ScanInv'
  OBVIOUS
<1> DEFINE n == Len(statement)
           m == Len(parameterNames)
           before == Placeholders
           names == References
           a == Joined(segments, before)
           b == Joined(segments, names)
<1>1. /\ ScanTypes /\ statement \in Text /\ n \in Nat /\ index \in Nat \ {0} /\ segments \in Seq(Text)
      /\ current \in Text /\ m \in Nat
  BY TypeFacts DEF ScanInv
<1>2. /\ index > n /\ scanned = FALSE /\ segments' = Append(segments, current) /\ scanned' = TRUE
      /\ statement' = statement /\ index' = index /\ current' = current /\ parameterNames' = parameterNames
      /\ positionalPlaceholder' = positionalPlaceholder
  BY <1>1 DEF Finish, ScanTypes
<1>3. Here = n + 1 /\ Here' = n + 1 /\ Placeholders' = Placeholders /\ References' = References
  BY <1>2 DEF Here, Placeholders, References
<1>4. Len(segments) = m /\ segments' \in Seq(Text) /\ Len(segments') = m + 1
  <2>1. Len(segments) = m
    BY <1>1, <1>2 DEF ScanTypes
  <2> QED
    BY <1>1, <1>2, <2>1, AppendProperties
<1>5. ScanTypes'
  BY <1>1, <1>2, <1>3, <1>4 DEF ScanTypes
<1>6. /\ DOMAIN before = 1 .. m /\ DOMAIN names = 1 .. m
      /\ \A k \in 1 .. m : before[k] \in Text /\ names[k] \in Text
      /\ a \in Text /\ b \in Text
  BY <1>1, GapFacts
<1> HIDE DEF before, names, a, b
<1>7. ASSUME NEW gaps, DOMAIN gaps = 1 .. m, \A k \in 1 .. m : gaps[k] \in Text, Joined(segments, gaps) \in Text
      PROVE  Joined(segments', gaps) = Joined(segments, gaps) \o current
  <2>1. /\ segments \in Seq(Text) /\ current \in Text /\ m = Len(segments)
        /\ DOMAIN gaps = 1 .. m
        /\ \A k \in DOMAIN gaps : gaps[k] \in Text
        /\ \A k \in 1 .. m : gaps[k] = gaps[k]
    BY <1>1, <1>4, <1>7
  <2> HIDE DEF m
  <2>2. Longer(segments, current, gaps, gaps, m)
    BY ONLY <2>1, JoinedAppend
  <2>3. m + 1 \notin DOMAIN gaps
    BY <1>1, <2>1
  <2>4. Gap(gaps, m + 1) = <<>>
    BY <2>3 DEF Gap
  <2> DEFINE old == Joined(segments, gaps)
  <2>5. Joined(segments', gaps) = (old \o current) \o <<>>
    BY <1>2, <2>2, <2>4 DEF Longer
  <2>6. old \in Text
    BY <1>7
  <2> HIDE DEF old
  <2>7. old \o current \in Text
    BY <1>1, <2>6, TextConcat
  <2>8. (old \o current) \o <<>> = old \o current
    BY ONLY <2>7, TextConcat
  <2> QED
    BY <2>5, <2>8 DEF old
<1>8. Joined(segments', before) = a \o current
  <2>1. Joined(segments, before) \in Text
    BY <1>6 DEF a
  <2> QED
    BY <1>6, <1>7, <2>1 DEF a
<1>9. Joined(segments', names) = b \o current
  <2>1. Joined(segments, names) \in Text
    BY <1>6 DEF b
  <2> QED
    BY <1>6, <1>7, <2>1 DEF b
<1>10. RenderPostgres' = Rendered
  BY <1>3, <1>8 DEF RenderPostgres, Rendered, before, a
<1>11. Reconstructs'
  <2>1. b \o current = SubSeq(statement, 1, Here - 1)
    BY <1>1, <1>2, ReconstructsFacts DEF ScanInv, b, names
  <2>2. b \o current \in Text
    BY <1>1, <1>6, TextConcat
  <2>3. (b \o current) \o <<>> = b \o current
    BY ONLY <2>2, TextConcat
  <2>4. Joined(segments', References') = b \o current
    BY <1>3, <1>9 DEF names
  <2>5. Joined(segments', References') \o (IF scanned' THEN <<>> ELSE current') = SubSeq(statement', 1, Here' - 1)
    BY <1>2, <1>3, <2>1, <2>3, <2>4
  <2>6. (Reconstructs <=>
              Joined(segments, References) \o (IF scanned THEN <<>> ELSE current) = SubSeq(statement, 1, Here - 1))'
    BY <1>5, ReconstructsFacts, PTL
  <2> QED
    BY <2>5, <2>6
<1>12. ASSUME positionalPlaceholder' = <<>>, ~PostgresReads(statement').odd
       PROVE  Reported(PostgresReads(RenderPostgres))'
  <2> DEFINE R == Rendered
             l == Len(R)
             x == ReaderAfter(R)[l]
  <2>1. R \in Text /\ l \in Nat
    <3>1. R \in Text
      BY <1>1, GapFacts
    <3> HIDE DEF R
    <3> QED
      BY <3>1, AtFacts
  <2>2. At(R, l + 1) = ""
    <3> HIDE DEF R
    <3>1. l + 1 \notin DOMAIN R
      BY <2>1, LenProperties DEF Text
    <3> QED
      BY <3>1 DEF At
  <2>3. At(statement, Here) = ""
    <3>1. n + 1 \notin DOMAIN statement
      BY <1>1, LenProperties DEF Text
    <3> QED
      BY <1>3, <3>1 DEF At
  <2>4. Starts(R, R)
    <3> HIDE DEF R
    <3> QED
      BY <2>1 DEF Starts
  <2>5. Continues(R)
    BY <2>2, <2>3, <2>4 DEF Continues, Follows
  <2>6. \A U \in Text : Continues(U) => ReadSoFar(U)
    BY <1>2, <1>12 DEF ScanInv, Understood
  <2>7. Reported(x)
    BY <2>1, <2>5, <2>6 DEF ReadSoFar
  <2>8. PostgresReads(RenderPostgres)' = x
    BY <1>10 DEF PostgresReads
  <2> HIDE DEF x
  <2> QED
    BY <1>2, <2>7, <2>8 DEF Reported
<1> QED
  BY <1>2, <1>5, <1>11, <1>12 DEF ScanInv, Understood

(* Together: the invariant is inductive. *)
LEMMA ScanSteps == ScanInv /\ [ScanNext]_scanVars => ScanInv'
<1> SUFFICES ASSUME ScanInv, [ScanNext]_scanVars
             PROVE  ScanInv'
  OBVIOUS
<1>1. CASE LineComment
  BY <1>1, LineCommentPreserves
<1>2. CASE BlockComment
  BY <1>2, BlockCommentPreserves
<1>3. CASE EscapeString
  BY <1>3, EscapeStringPreserves
<1>4. CASE Quoted
  BY <1>4, QuotedPreserves
<1>5. CASE DollarQuoted
  BY <1>5, DollarQuotedPreserves
<1>6. CASE Cast
  BY <1>6, CastPreserves
<1>7. CASE Parameter
  BY <1>7, ParameterPreserves
<1>8. CASE Literal
  BY <1>8, LiteralPreserves
<1>9. CASE Finish
  BY <1>9, FinishPreserves
<1>10. CASE UNCHANGED scanVars
  <2>1. /\ statement' = statement /\ index' = index /\ current' = current /\ segments' = segments
        /\ parameterNames' = parameterNames /\ positionalPlaceholder' = positionalPlaceholder /\ scanned' = scanned
    BY <1>10 DEF scanVars
  <2>2. Here' = Here /\ Placeholders' = Placeholders /\ Rendered' = Rendered
    BY <2>1 DEF Here, Placeholders, Rendered
  <2>3. \A U : Continues(U)' <=> Continues(U)
    BY <2>1, <2>2 DEF Continues, Starts, Follows, Reference
  <2>4. \A z : Reported(z)' <=> Reported(z)
    BY <2>1 DEF Reported
  <2>5. \A U : ReadSoFar(U)' <=> ReadSoFar(U)
    BY <2>1, <2>2 DEF ReadSoFar, Reported, Twins, Live, InWord, Before
  <2>6. Understood' <=> Understood
    BY <2>1, <2>2, <2>3, <2>5 DEF Understood, Reported, RenderPostgres
  <2>7. ScanTypes' <=> ScanTypes
    BY <2>1, <2>2 DEF ScanTypes
  <2>8. Reconstructs' <=> Reconstructs
    BY <2>1 DEF Reconstructs
  <2> QED
    BY <2>1, <2>6, <2>7, <2>8 DEF ScanInv
<1> QED
  BY <1>1, <1>2, <1>3, <1>4, <1>5, <1>6, <1>7, <1>8, <1>9, <1>10 DEF ScanNext

(* Whatever the statement, the parts the scanner finds make up what it has  *)
(* read, and the text renderPostgres makes of them has, as PostgreSQL reads *)
(* it, one placeholder for every parameter, in order, and no :name left     *)
(* (scan.ts:42-60, render.ts:12-22).                                        *)
THEOREM ScannedFaithfully == Scan => []ScanIsFaithful
<1>1. ScanInit => ScanInv
  BY ScanStarts
<1>2. ScanInv /\ [ScanNext]_scanVars => ScanInv'
  BY ScanSteps
<1>3. ScanInv => ScanIsFaithful
  <2> SUFFICES ASSUME ScanInv
               PROVE  ScanIsFaithful
    OBVIOUS
  <2>1. scanned /\ positionalPlaceholder = <<>> /\ ~PostgresReads(statement).odd
        => Reported(PostgresReads(RenderPostgres))
    BY DEF ScanInv, Understood
  <2> QED
    BY <2>1 DEF ScanInv, ScanIsFaithful, ServerReadsTheGaps, Reported
<1> QED
  BY <1>1, <1>2, <1>3, PTL DEF Scan
=============================================================================
