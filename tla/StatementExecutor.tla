-------------------------- MODULE StatementExecutor --------------------------
(***************************************************************************)
(* What a data source promises its callers, whatever it does to keep it:   *)
(* a limited number of statements are worked on at a time; each execution  *)
(* settles once; one that was cancelled yields no rows and is not started; *)
(* a closed source takes up no further execution, and once it says that it *)
(* is drained, it works on none.  One that was waiting when the source was *)
(* closed may still be started before that (core/src/types/plugin.ts,      *)
(* postgres/src/internal/source.ts).                                       *)
(***************************************************************************)
EXTENDS Naturals, FiniteSets

CONSTANTS
    Executions,
    Capacity        \* how many statements can be worked on at a time

VARIABLES
    stage,          \* per execution: "idle", "waiting", "working", "rows", "aborted" or "failed"
    cancelled,      \* the executions whose caller has cancelled
    source          \* "open", "closed" or "drained"

vars == <<stage, cancelled, source>>

Working == {e \in Executions : stage[e] = "working"}

Init ==
    /\ stage = [e \in Executions |-> "idle"]
    /\ cancelled = {}
    /\ source = "open"

Goes(e, to) == stage' = [stage EXCEPT ![e] = to] /\ UNCHANGED <<cancelled, source>>

Submit(e) ==
    /\ stage[e] = "idle" /\ source = "open" /\ e \notin cancelled
    /\ Goes(e, "waiting")

Start(e) ==
    /\ stage[e] = "waiting" /\ source # "drained" /\ e \notin cancelled
    /\ Cardinality(Working) < Capacity
    /\ Goes(e, "working")

Deliver(e) ==
    /\ stage[e] = "working" /\ e \notin cancelled
    /\ Goes(e, "rows")

StopCancelled(e) ==
    /\ stage[e] \in {"idle", "waiting", "working"} /\ e \in cancelled
    /\ Goes(e, "aborted")

Fail(e) ==
    /\ \/ stage[e] = "idle" /\ source # "open"
       \/ stage[e] = "waiting"
       \/ stage[e] = "working" /\ e \notin cancelled
    /\ Goes(e, "failed")

Cancel(e) ==
    /\ cancelled' = cancelled \cup {e}
    /\ UNCHANGED <<stage, source>>

Close ==
    /\ source = "open" /\ source' = "closed"
    /\ UNCHANGED <<stage, cancelled>>

Drain ==
    /\ source = "closed" /\ Working = {}
    /\ source' = "drained"
    /\ UNCHANGED <<stage, cancelled>>

Next ==
    \/ \E e \in Executions :
        Submit(e) \/ Start(e) \/ Deliver(e) \/ StopCancelled(e) \/ Fail(e) \/ Cancel(e)
    \/ Close \/ Drain

Spec == Init /\ [][Next]_vars
=============================================================================
