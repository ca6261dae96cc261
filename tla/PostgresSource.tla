--------------------------- MODULE PostgresSource ---------------------------
(***************************************************************************)
(* One PostgreSQL data source (packages/postgres/src/internal/source.ts):  *)
(* concurrent executions share a lazily created pool of clients, each      *)
(* aborts its statement from a connection of its own, and dispose() closes *)
(* the pool.  The pool and the server are external: a client is granted to *)
(* one execution at a time and is served by the backend whose PID the      *)
(* cancel request names; that request stops whatever the backend runs when *)
(* the server reads it.                                                    *)
(***************************************************************************)
EXTENDS Naturals, FiniteSets

CONSTANTS
    Executions,       \* calls of execute()
    Backends,         \* PIDs of the server processes behind the pool's clients
    Nothing           \* no backend, no execution

ASSUME PostgresSourceAssumption ==
    /\ Nothing \notin Executions \cup Backends
    /\ IsFiniteSet(Backends)     \* the pool has a maximum

VARIABLES
    disposed,   \* `disposed`
    pool,       \* `pool`: "none" while undefined, "open"
    ending,     \* the pool that was open when dispose() ran: "no", "ending", "ended"
    holder,     \* per backend: the execution its client is reserved for or granted to
    running,    \* per backend: the execution whose statement it runs
    pc,         \* per execution: where execute() is
    client,     \* per execution: the backend of the client reserved for it or granted to it
    pidKnown,   \* per execution: client.processID is not null
    reply,      \* per execution: what client.query settled with
    aborted,    \* per execution: its signal is aborted
    listening,  \* per execution: onAbort is on its signal
    cancel,     \* per execution: how far cancelBackend is
    stray,      \* executions whose failed request the server may still read
    outcome     \* per execution: "pending", "rows", or the kind of error thrown

poolVars == <<disposed, pool, ending>>
serverVars == <<holder, running, stray>>
executionVars == <<pc, client, pidKnown, reply, aborted, listening, cancel, outcome>>
vars == <<poolVars, serverVars, executionVars>>

TypeOK ==
    /\ disposed \in BOOLEAN
    /\ pool \in {"none", "open"}
    /\ ending \in {"no", "ending", "ended"}
    /\ holder \in [Backends -> Executions \cup {Nothing}]
    /\ running \in [Backends -> Executions \cup {Nothing}]
    /\ pc \in [Executions -> {"idle", "acquiring", "running", "cancelling", "done"}]
    /\ client \in [Executions -> Backends \cup {Nothing}]
    /\ pidKnown \in [Executions -> BOOLEAN]
    /\ reply \in [Executions -> {"none", "rows", "error"}]
    /\ aborted \in [Executions -> BOOLEAN]
    /\ listening \in [Executions -> BOOLEAN]
    /\ cancel \in [Executions -> {"none", "connecting", "sent", "closing", "settled",
                              "failing", "failed"}]
    /\ stray \in SUBSET Executions
    /\ outcome \in [Executions -> {"pending", "rows", "aborted", "failed", "disposed"}]

Init ==
    /\ disposed = FALSE /\ pool = "none" /\ ending = "no" /\ stray = {}
    /\ holder = [b \in Backends |-> Nothing]
    /\ running = [b \in Backends |-> Nothing]
    /\ pc = [e \in Executions |-> "idle"]
    /\ client = [e \in Executions |-> Nothing]
    /\ pidKnown = [e \in Executions |-> FALSE]
    /\ reply = [e \in Executions |-> "none"]
    /\ aborted = [e \in Executions |-> FALSE]
    /\ listening = [e \in Executions |-> FALSE]
    /\ cancel = [e \in Executions |-> "none"]
    /\ outcome = [e \in Executions |-> "pending"]

-----------------------------------------------------------------------------
(* execute().                                                              *)

Settle(e, result) ==
    /\ pc' = [pc EXCEPT ![e] = "done"]
    /\ outcome' = [outcome EXCEPT ![e] = result]

(* Mutant: no check for a disposed source.                                 *)
Execute_Disposed(e) ==
    /\ pc[e] = "idle" /\ ~aborted[e]
    /\ pool' = "open"
    /\ pc' = [pc EXCEPT ![e] = "acquiring"]
    /\ UNCHANGED <<disposed, ending, serverVars, client, pidKnown, reply, aborted, listening,
                   cancel, outcome>>

(* The checks, then acquire() up to `await pool.connect()`. *)
Execute(e) ==
    /\ pc[e] = "idle"
    /\ \/ disposed /\ Settle(e, "disposed") /\ UNCHANGED pool
       \/ ~disposed /\ aborted[e] /\ Settle(e, "aborted") /\ UNCHANGED pool
       \/ /\ ~disposed /\ ~aborted[e]
          /\ pool' = "open"
          /\ pc' = [pc EXCEPT ![e] = "acquiring"]
          /\ UNCHANGED outcome
    /\ UNCHANGED <<disposed, ending, serverVars, client, pidKnown, reply, aborted, listening, cancel>>

(* Mutant: release() is not reached.                                       *)
Release_Leaks(e, result) == Settle(e, result) /\ UNCHANGED holder

(* release(), and what execute() settles with. *)
Release(e, result) ==
    /\ Settle(e, result)
    /\ holder' = [holder EXCEPT ![client[e]] = Nothing]

(* The pool reserves a client for a caller of connect(): an idle one, or one *)
(* it begins to connect.  After end() it reserves none, but goes on with    *)
(* those it has reserved.                                                   *)
Reserve(e, b) ==
    /\ pc[e] = "acquiring" /\ client[e] = Nothing
    /\ holder[b] = Nothing /\ ending = "no"
    /\ holder' = [holder EXCEPT ![b] = e]
    /\ client' = [client EXCEPT ![e] = b]
    /\ UNCHANGED <<poolVars, running, stray, pc, pidKnown, reply, aborted, listening, cancel, outcome>>

(* The pool gives no client: it is closed, or connecting failed. *)
AcquireFails(e) ==
    /\ pc[e] = "acquiring"
    /\ Settle(e, "failed")
    /\ holder' = [b \in Backends |-> IF holder[b] = e THEN Nothing ELSE holder[b]]
    /\ UNCHANGED <<poolVars, running, stray, client, pidKnown, reply, aborted, listening, cancel>>

(* Mutant: the signal is not read again after the wait.                    *)
Acquired_Unchecked(e, known) ==
    /\ pc[e] = "acquiring" /\ client[e] # Nothing
    /\ pc' = [pc EXCEPT ![e] = "running"]
    /\ running' = [running EXCEPT ![client[e]] = e]
    /\ pidKnown' = [pidKnown EXCEPT ![e] = known]
    /\ listening' = [listening EXCEPT ![e] = ~aborted[e]]
    /\ UNCHANGED <<poolVars, holder, stray, client, reply, aborted, cancel, outcome>>

(* acquire() resolves with the client.  If the signal was aborted in the    *)
(* meantime it is released at once, otherwise the statement is sent on it.  *)
(* Whether the source was disposed of in the meantime is not asked.         *)
Acquired(e, known) ==
    /\ pc[e] = "acquiring" /\ client[e] # Nothing
    /\ \/ /\ aborted[e]
          /\ Release(e, "aborted")
          /\ UNCHANGED <<running, pidKnown, listening>>
       \/ /\ ~aborted[e]
          /\ pc' = [pc EXCEPT ![e] = "running"]
          /\ running' = [running EXCEPT ![client[e]] = e]
          /\ pidKnown' = [pidKnown EXCEPT ![e] = known]
          /\ listening' = [listening EXCEPT ![e] = TRUE]
          /\ UNCHANGED <<holder, outcome>>
    /\ UNCHANGED <<poolVars, stray, client, reply, aborted, cancel>>

(* Mutant: onAbort sends no cancel request.                                *)
Abort_NoCancel(e) ==
    /\ ~aborted[e]
    /\ aborted' = [aborted EXCEPT ![e] = TRUE]
    /\ listening' = [listening EXCEPT ![e] = FALSE]
    /\ UNCHANGED <<poolVars, serverVars, pc, client, pidKnown, reply, cancel, outcome>>

(* onAbort, when it is listening: cancelBackend up to its first await. *)
Abort(e) ==
    /\ ~aborted[e]
    /\ aborted' = [aborted EXCEPT ![e] = TRUE]
    /\ cancel' = [cancel EXCEPT ![e] = IF listening[e] /\ pidKnown[e] THEN "connecting" ELSE @]
    /\ listening' = [listening EXCEPT ![e] = FALSE]
    /\ UNCHANGED <<poolVars, serverVars, pc, client, pidKnown, reply, outcome>>

(* Mutant: rows although it was aborted.                                   *)
Result_IgnoresAbort(e) == IF reply[e] = "rows" THEN "rows" ELSE "failed"

Result(e) ==
    IF aborted[e] THEN "aborted" ELSE IF reply[e] = "rows" THEN "rows" ELSE "failed"

(* `cancel` is undefined, or its promise has settled; it never rejects. *)
CancelOver(e) == cancel[e] \in {"none", "settled", "failed"}

(* Mutant: the cancel is not awaited.                                      *)
QuerySettles_NoAwait(e) ==
    /\ pc[e] = "running" /\ reply[e] # "none"
    /\ listening' = [listening EXCEPT ![e] = FALSE]
    /\ Release(e, Result(e))
    /\ UNCHANGED <<poolVars, running, stray, client, pidKnown, reply, aborted, cancel>>

(* client.query settles: the listener goes, and a cancel that was started   *)
(* is awaited before the client is released.                                *)
QuerySettles(e) ==
    /\ pc[e] = "running" /\ reply[e] # "none"
    /\ listening' = [listening EXCEPT ![e] = FALSE]
    /\ \/ /\ CancelOver(e)
          /\ Release(e, Result(e))
       \/ /\ ~CancelOver(e)
          /\ pc' = [pc EXCEPT ![e] = "cancelling"]
          /\ UNCHANGED <<outcome, holder>>
    /\ UNCHANGED <<poolVars, running, stray, client, pidKnown, reply, aborted, cancel>>

CancelAwaited(e) ==
    /\ pc[e] = "cancelling" /\ CancelOver(e)
    /\ Release(e, Result(e))
    /\ UNCHANGED <<poolVars, running, stray, client, pidKnown, reply, aborted, listening, cancel>>

-----------------------------------------------------------------------------
(* cancelBackend().                                                        *)

CancelStep(e, from, to) ==
    /\ cancel[e] = from
    /\ cancel' = [cancel EXCEPT ![e] = to]
    /\ UNCHANGED <<poolVars, holder, pc, client, pidKnown, aborted, listening, outcome>>

CancelConnects(e) ==
    CancelStep(e, "connecting", "sent") /\ UNCHANGED <<running, reply, stray>>

(* Backend b stops what it is running, if anything. *)
Interrupt(b) ==
    LET e == running[b] IN
    /\ running' = [running EXCEPT ![b] = Nothing]
    /\ reply' = IF e = Nothing THEN reply ELSE [reply EXCEPT ![e] = "error"]

(* The server reads the request and its answer settles client.query. *)
CancelServed(e) ==
    /\ CancelStep(e, "sent", "closing")
    /\ Interrupt(client[e])
    /\ UNCHANGED stray

(* Connecting or the request fails; the failure is logged.  A request whose *)
(* connection dropped may have reached the server all the same.             *)
CancelFails(e) ==
    /\ \/ CancelStep(e, "connecting", "failing") /\ UNCHANGED stray
       \/ CancelStep(e, "sent", "failing") /\ stray' \in {stray, stray \cup {e}}
    /\ UNCHANGED <<running, reply>>

(* client.end() settles, well or badly. *)
CancelCloses(e) ==
    /\ CancelStep(e, "closing", "settled") \/ CancelStep(e, "failing", "failed")
    /\ UNCHANGED <<running, reply, stray>>

-----------------------------------------------------------------------------
(* The server and dispose().                                               *)

StatementEnds(b, result) ==
    /\ running[b] # Nothing
    /\ running' = [running EXCEPT ![b] = Nothing]
    /\ reply' = [reply EXCEPT ![running[b]] = result]
    /\ UNCHANGED <<poolVars, holder, stray, pc, client, pidKnown, aborted, listening, cancel, outcome>>

(* A request whose connection dropped is read after all. *)
StrayCancel(e) ==
    /\ e \in stray
    /\ stray' = stray \ {e}
    /\ Interrupt(client[e])
    /\ UNCHANGED <<poolVars, holder, pc, client, pidKnown, aborted, listening, cancel, outcome>>

Dispose ==
    /\ disposed' = TRUE
    /\ pool' = "none"
    /\ ending' = IF pool = "open" THEN "ending" ELSE ending
    /\ UNCHANGED <<serverVars, executionVars>>

(* pool.end() settles when every client, reserved ones too, is released. *)
PoolEnds ==
    /\ ending = "ending" /\ \A b \in Backends : holder[b] = Nothing
    /\ ending' = "ended"
    /\ UNCHANGED <<disposed, pool, serverVars, executionVars>>

-----------------------------------------------------------------------------
Acquiring(e) ==
    \/ \E b \in Backends : Reserve(e, b)
    \/ \E known \in BOOLEAN : Acquired(e, known)
    \/ AcquireFails(e)
Cancelling(e) == CancelConnects(e) \/ CancelServed(e) \/ CancelFails(e) \/ CancelCloses(e)

Next ==
    \/ \E e \in Executions :
        \/ Execute(e) \/ Acquiring(e) \/ Abort(e)
        \/ QuerySettles(e) \/ CancelAwaited(e) \/ Cancelling(e) \/ StrayCancel(e)
    \/ \E b \in Backends : \E result \in {"rows", "error"} : StatementEnds(b, result)
    \/ Dispose
    \/ PoolEnds

(* Jobs and cancel connections make progress; a statement may run for ever. *)
Fairness ==
    /\ \A e \in Executions : WF_vars(QuerySettles(e) \/ CancelAwaited(e))
    /\ \A e \in Executions : WF_vars(Cancelling(e))
    /\ WF_vars(PoolEnds)

Spec == Init /\ [][Next]_vars /\ Fairness

-----------------------------------------------------------------------------
(* Properties.                                                             *)

(* While a cancel request is on its way, the client of the execution it is  *)
(* for has not been released, so the request can only stop that execution's *)
(* own statement (source.ts:189-192, source.ts:229).                        *)
CancelTargetsOwnBackend ==
    \A e \in Executions : cancel[e] \in {"connecting", "sent"} =>
        /\ holder[client[e]] = e
        /\ running[client[e]] \in {e, Nothing}

(* Once execute() settles, however it does, cancelBackend is over, no abort *)
(* listener is left on the signal, the client is back in the pool, and the  *)
(* server does not still run the statement on it (source.ts:136-139,        *)
(* source.ts:189-192, source.ts:221-224, source.ts:271).                    *)
SettledLeavesNothing ==
    \A e \in Executions : outcome[e] # "pending" =>
        /\ cancel[e] \in {"none", "settled", "failed"}
        /\ ~listening[e]
        /\ \A b \in Backends : holder[b] # e /\ running[b] # e

(* What a source promises, with its details left out: the clients are its    *)
(* capacity, and each execution is where its statement is.                  *)
StageOf(location, result) ==
    CASE location = "idle" -> "idle"
      [] location = "acquiring" -> "waiting"
      [] location \in {"running", "cancelling"} -> "working"
      [] location = "done" -> IF result = "disposed" THEN "failed" ELSE result

Promise == INSTANCE StatementExecutor WITH
    Capacity <- Cardinality(Backends),
    stage <- [e \in Executions |-> StageOf(pc[e], outcome[e])],
    cancelled <- {e \in Executions : aborted[e]},
    source <- IF ~disposed THEN "open" ELSE IF ending = "ended" THEN "drained" ELSE "closed"

(* Every step of the source is a step of it.  However aborts, cancel requests*)
(* and dispose() cross its awaits: no statement starts for an execution      *)
(* aborted by then, while all clients are taken, or after pool.end() has     *)
(* settled, and none is left by then; no rows come out of an aborted         *)
(* execution; and execute() takes up none after dispose(), although one that *)
(* awaited its client at the time may still start (source.ts:239-287).       *)
ImplementsStatementExecutor == Promise!Spec

(* Aborting an execution whose statement never ends by itself still ends it *)
(* when its backend is known and its cancel request does not fail           *)
(* (source.ts:129-139).                                                     *)
AbortEndsStatement ==
    \A e \in Executions :
        pc[e] = "running" /\ aborted[e] /\ pidKnown[e]
            ~> pc[e] = "done" \/ cancel[e] \in {"failing", "failed"}
=============================================================================
