--------------------------- MODULE MCPostgresSource ---------------------------
(* A small instance of PostgresSource: three executions and one client, so   *)
(* that an execution waits for it, is overtaken by aborts and dispose()      *)
(* while it waits, and is granted what another has just released.           *)
EXTENDS PostgresSource

CONSTANTS e1, e2, e3, b1

MCExecutions == {e1, e2, e3}
MCBackends == {b1}
=============================================================================
