-------------------------- MODULE MCPluginRuntime --------------------------
(* A small instance of PluginRuntime.  With two callers, one can look while *)
(* the other is between two jobs; with three uses of up to three plugins, a *)
(* drain can be joined, outlived and followed by another.  The third caller *)
(* is for the cases that take one whose drain fails, one that starts another*)
(* in the gap, and one that joins that other drain.                         *)
EXTENDS PluginRuntime, FiniteSets

(* The names of plugins and of callers are interchangeable.  So they are    *)
(* numbers, and each is first used when all below it have been: of the      *)
(* behaviours that differ in names alone, one is left.                      *)
InTurn ==
    /\ \A i \in DOMAIN used : used[i] <= Cardinality({used[j] : j \in 1 .. i - 1}) + 1
    /\ \A c \in Callers : pc[c] # "idle" => c = 1 \/ pc[c - 1] # "idle"
=============================================================================
