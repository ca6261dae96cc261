---------------------------- MODULE MCReactQuery ----------------------------
(* Two readers, two resources, and bags that differ in a value, or in       *)
(* nothing but a pair whose value is undefined.                             *)
EXTENDS ReactQuery

CONSTANTS r1, r2, orders, users

MCReaders == {r1, r2}
MCResources == {orders, users}
MCBags == {{}, {<<"id", Undefined>>}, {<<"id", "1">>}}
=============================================================================
