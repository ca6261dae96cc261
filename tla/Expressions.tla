----------------------------- MODULE Expressions -----------------------------
(***************************************************************************)
(* Expressions of packages/core: what normalizeExpression accepts and what *)
(* evaluateExpression makes of a row.                                      *)
(*                                                                         *)
(* An expression is its operator and, for a leaf, a name or a value.  A    *)
(* parameter is a literal: its value does not change during an execution.  *)
(* The comparison shorthand is written out.                                *)
(*                                                                         *)
(* A cell is Null, a scalar [type, value], or an array [type, elements].   *)
(* Scalars of one type are ordered by value; 0 stands for the scalar that  *)
(* counts as false: 0, FALSE or the empty string.                          *)
(***************************************************************************)
EXTENDS Integers, Sequences, FiniteSetsExt

CONSTANTS
    Null,
    Expressions,        \* all that occur, with their arguments
    MaxExpressionDepth  \* the runtime's limit

Leaves == {"field", "literal"}
Unary == {"not", "isNull"}
Binary == {"eq", "ne", "gt", "gte", "lt", "lte", "in", "add", "subtract", "multiply", "divide"}
Variadic == {"and", "or", "coalesce"}

ASSUME ExpressionsAssumption ==
    /\ MaxExpressionDepth \in Nat
    /\ \A e \in Expressions :
        /\ e.operator \in STRING
        /\ e.operator \notin Leaves => \A i \in DOMAIN e.arguments : e.arguments[i] \in Expressions

(* Known operators with as many arguments as they take, and no deeper than  *)
(* the limit.                                                               *)
Normalizes(expression) ==
    LET accepted[e \in Expressions, depth \in Nat] ==
            /\ depth <= MaxExpressionDepth
            /\ \/ e.operator \in Leaves
               \/ /\ \/ e.operator \in Unary /\ Len(e.arguments) = 1
                     \/ e.operator \in Binary /\ Len(e.arguments) = 2
                     \/ e.operator \in Variadic /\ Len(e.arguments) >= 1
                  /\ \A i \in DOMAIN e.arguments : accepted[e.arguments[i], depth + 1]
    IN accepted[expression, 1]

ReferencedFields(expression) ==
    LET names[e \in Expressions] ==
            IF e.operator = "field" THEN {e.name}
            ELSE IF e.operator = "literal" THEN {}
            ELSE UNION {names[e.arguments[i]] : i \in DOMAIN e.arguments}
    IN names[expression]

Number(n) == [type |-> "number", value |-> n]
Boolean(b) == [type |-> "boolean", value |-> IF b THEN 1 ELSE 0]
IsArray(cell) == cell # Null /\ cell.type = "array"
Truthy(cell) == cell # Null /\ (IsArray(cell) \/ cell.value # 0)

(* compare: how two cells are ordered, where they are comparable.           *)
Comparable(a, b) == a # Null /\ b # Null /\ ~IsArray(a) /\ a.type = b.type
Difference(a, b) == a.value - b.value

Compare(operator, a, b) ==
    /\ Comparable(a, b)
    /\ CASE operator = "gt" -> Difference(a, b) > 0
         [] operator = "gte" -> Difference(a, b) >= 0
         [] operator = "lt" -> Difference(a, b) < 0
         [] operator = "lte" -> Difference(a, b) <= 0

(* Null for what is not a number and for a division by zero.  Quotients     *)
(* that are not whole are outside the model.                                *)
Arithmetic(operator, a, b) ==
    IF ~(Comparable(a, b) /\ a.type = "number") \/ (operator = "divide" /\ b.value = 0) THEN Null
    ELSE Number(CASE operator = "add" -> a.value + b.value
                  [] operator = "subtract" -> a.value - b.value
                  [] operator = "multiply" -> a.value * b.value
                  [] operator = "divide" -> a.value \div b.value)

(* Two nulls are equal; no array is equal to another one.                   *)
Equal(a, b) == a = b /\ ~IsArray(a)

(* The first argument that is not null. *)
Coalesce(cells) ==
    LET given == {i \in DOMAIN cells : cells[i] # Null}
    IN IF given = {} THEN Null ELSE cells[Min(given)]

(* An absent field reads as null.                                           *)
EvaluateExpression(expression, row) ==
    LET value[e \in Expressions] ==
            LET cells == [i \in DOMAIN e.arguments |-> value[e.arguments[i]]]
            IN CASE e.operator = "literal" -> e.value
                 [] e.operator = "field" -> IF e.name \in DOMAIN row THEN row[e.name] ELSE Null
                 [] e.operator = "and" -> Boolean(\A i \in DOMAIN cells : Truthy(cells[i]))
                 [] e.operator = "or" -> Boolean(\E i \in DOMAIN cells : Truthy(cells[i]))
                 [] e.operator = "not" -> Boolean(~Truthy(cells[1]))
                 [] e.operator = "isNull" -> Boolean(cells[1] = Null)
                 [] e.operator = "coalesce" -> Coalesce(cells)
                 [] e.operator = "eq" -> Boolean(Equal(cells[1], cells[2]))
                 [] e.operator = "ne" -> Boolean(~Equal(cells[1], cells[2]))
                 [] e.operator = "in" -> Boolean(IsArray(cells[2]) /\ cells[1] \in cells[2].elements)
                 [] e.operator \in {"gt", "gte", "lt", "lte"} -> Boolean(Compare(e.operator, cells[1], cells[2]))
                 [] e.operator \in {"add", "subtract", "multiply", "divide"} ->
                      Arithmetic(e.operator, cells[1], cells[2])
    IN value[expression]
=============================================================================
