-------------------------- MODULE GuardedExecution --------------------------
(***************************************************************************)
(* What an execution promises to whoever configured the policies and to    *)
(* the caller (packages/core/src/internal/execute.ts and policy.ts): it    *)
(* fixes the grants it needs, asks the source and opens the resource only  *)
(* with all of them, ends once, and once it was cancelled neither asks the  *)
(* source, nor takes what it answers, nor succeeds.                        *)
(***************************************************************************)
CONSTANT Policies

VARIABLES
    stage,       \* "new", "guarding", "asking", "open", "resolved" or "rejected"
    required,    \* the policies whose grant is needed
    granted,     \* those that have granted
    cancelled    \* the caller aborted or the time ran out

vars == <<stage, required, granted, cancelled>>

Stages == {"new", "guarding", "asking", "open", "resolved", "rejected"}

Init == stage = "new" /\ required = {} /\ granted = {} /\ cancelled = FALSE

Begin ==
    /\ stage = "new"
    /\ stage' = "guarding"
    /\ required' \in SUBSET Policies
    /\ UNCHANGED <<granted, cancelled>>

Grant(p) ==
    /\ stage = "guarding"
    /\ p \in required
    /\ granted' = granted \cup {p}
    /\ UNCHANGED <<stage, required, cancelled>>

(* The source is asked. *)
Ask ==
    /\ stage = "guarding" /\ granted = required /\ ~cancelled
    /\ stage' = "asking"
    /\ UNCHANGED <<required, granted, cancelled>>

(* There is a dataset for the transforms: the source's, or the empty one of  *)
(* a resource without a query, for which nobody has been asked.             *)
Open ==
    /\ \/ stage = "guarding" /\ granted = required
       \/ stage = "asking" /\ ~cancelled
    /\ stage' = "open"
    /\ UNCHANGED <<required, granted, cancelled>>

Resolve ==
    /\ stage = "open" /\ ~cancelled
    /\ stage' = "resolved"
    /\ UNCHANGED <<required, granted, cancelled>>

Reject ==
    /\ stage \in {"new", "guarding", "asking", "open"}
    /\ stage' = "rejected"
    /\ required' \in SUBSET Policies
    /\ stage # "new" => required' = required
    /\ UNCHANGED <<granted, cancelled>>

Cancel ==
    /\ cancelled' = TRUE
    /\ UNCHANGED <<stage, required, granted>>

Next ==
    \/ Begin
    \/ \E p \in Policies : Grant(p)
    \/ Ask
    \/ Open
    \/ Resolve
    \/ Reject
    \/ Cancel

Spec == Init /\ [][Next]_vars /\ WF_vars(cancelled /\ Reject)
=============================================================================
