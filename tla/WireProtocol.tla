---------------------------- MODULE WireProtocol ----------------------------
(***************************************************************************)
(* What a body has to be to become a request: parseExecuteRequest() and    *)
(* its walk over the parameters, checkParameterValue() (packages/http/src/ *)
(* internal/protocol.ts).  The handler passes it what JSON.parse returned, *)
(* a tree; an in-process caller passes any graph of objects.               *)
(*                                                                         *)
(* A graph maps the identity of each object or array to the sequence of    *)
(* its members.  A member is another object, or what ends the walk:        *)
(* "scalar", "not JSON" (undefined, a function, a Date), or "unsafe key",  *)
(* a member named __proto__, constructor or prototype.                     *)
(***************************************************************************)
EXTENDS Naturals, Sequences, FiniteSets, SequencesExt

CONSTANTS
    UnusableNames,      \* "", a name that is too long or unsafe, or no string at all
    MaxParameterDepth,  \* MAX_PARAMETER_DEPTH
    Graphs              \* graphs of objects, see WireProtocolAssumption

Root == "parameters"    \* the object under that key
Ends == {"scalar", "not JSON", "unsafe key"}

(* A graph has finitely many objects, and their members are its own.        *)
Values(graph) == DOMAIN graph \cup Ends

IsGraph(graph) ==
    /\ IsFiniteSet(DOMAIN graph) /\ Root \in DOMAIN graph /\ DOMAIN graph \cap Ends = {}
    /\ graph \in [DOMAIN graph -> Seq(Values(graph))]

ASSUME WireProtocolAssumption ==
    /\ MaxParameterDepth \in Nat
    /\ \A g \in Graphs : IsGraph(g)

(* The walk: the ancestors of the value, the objects whose subtree passed,  *)
(* whether it has thrown, and, as a history, the objects entered.           *)
Fresh == [onPath |-> {}, validated |-> {}, thrown |-> FALSE, entered |-> <<>>]

Throw(walk) == [walk EXCEPT !.thrown = TRUE]
Enter(walk, n) == [walk EXCEPT !.onPath = @ \cup {n}, !.entered = Append(@, n)]

(* Mutant: the object stays on the path of its siblings.                   *)
Leave_KeepsPath(walk, n) == [walk EXCEPT !.validated = @ \cup {n}]

Leave(walk, n) == [walk EXCEPT !.onPath = @ \ {n}, !.validated = @ \cup {n}]

Walks(graph) ==
    [onPath : SUBSET DOMAIN graph, validated : SUBSET DOMAIN graph, thrown : BOOLEAN,
     entered : Seq(DOMAIN graph)]

(* The calls for the members of an object, each with what the last has left.*)
(* `deeper` is the function they call, one level down.                      *)
CheckMembers(deeper, members, walk) ==
    LET after[i \in 0 .. Len(members)] ==
            IF i = 0 THEN walk ELSE deeper[members[i]][after[i - 1]]
    IN after[Len(members)]

CheckValue(deeper, graph, value, walk) ==
    CASE walk.thrown \/ value = "scalar" \/ value \in walk.validated \ walk.onPath -> walk
      [] ~walk.thrown /\ value \in {"not JSON", "unsafe key"} \cup walk.onPath -> Throw(walk)
      [] OTHER -> LET walked == CheckMembers(deeper, graph[value], Enter(walk, value))
                  IN IF walked.thrown THEN walked ELSE Leave(walked, value)

(* The walk from a value on, `left` levels above the first that is too deep.*)
CheckParameterValue(graph) ==
    LET check[left \in 0 .. MaxParameterDepth + 1] ==
            [value \in Values(graph) |-> [walk \in Walks(graph) |->
                IF left = 0 THEN Throw(walk) ELSE CheckValue(check[left - 1], graph, value, walk)]]
    IN check[MaxParameterDepth + 1][Root][Fresh]

(* A body has a name under `resource`, and `parameters` that are absent, no *)
(* plain object, or the root of a graph.                                   *)
ParseExecuteRequest(body) ==
    /\ body.resource \notin UnusableNames
    /\ \/ body.parameters = "absent"
       \/ /\ body.parameters = "object"
          /\ ~CheckParameterValue(body.graph).thrown

-----------------------------------------------------------------------------
(* The reference: every path from the parameters on, to one object more     *)
(* than there are, or to a member that ends it.                             *)
Paths(graph) ==
    LET Longer(paths) == UNION {{Append(p, m) : m \in ToSet(graph[Last(p)])} :
                                p \in {q \in paths : Last(q) \notin Ends}}
        upTo[k \in 0 .. Cardinality(DOMAIN graph)] ==
            IF k = 0 THEN {<<Root>>} ELSE upTo[k - 1] \cup Longer(upTo[k - 1])
    IN upTo[Cardinality(DOMAIN graph)]

Repeats(p) == \E i, j \in DOMAIN p : i # j /\ p[i] = p[j]

(* A path that comes back to an object on it, ends in something that is not *)
(* JSON or goes through an unsafe key; and one that is too deep.            *)
IsBad(p) == Repeats(p) \/ Last(p) \in {"not JSON", "unsafe key"}
IsDeep(p) == Len(p) - 1 > MaxParameterDepth

(* A tree is all that JSON.parse can make.                                  *)
IsTree(graph) ==
    \A p, q \in Paths(graph) : Last(p) = Last(q) /\ Last(p) \notin Ends => p = q

(* What may go on to an execution: JSON, and not too deep if it is a tree.  *)
Passable(graph) ==
    \A p \in Paths(graph) : ~IsBad(p) /\ (IsTree(graph) => ~IsDeep(p))

(* The graphs the walk is wrong about: it rejects one that has no such path,*)
(* lets one through that may not pass, or enters an object twice.           *)
Misjudged ==
    {g \in Graphs :
        LET walk == CheckParameterValue(g)
        IN \/ walk.thrown /\ \A p \in Paths(g) : ~IsBad(p) /\ ~IsDeep(p)
           \/ ~walk.thrown /\ ~Passable(g)
           \/ ~IsInjective(walk.entered)}
=============================================================================
