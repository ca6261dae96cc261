----------------------------- MODULE MCCommandLine -----------------------------
(* One manifest with everything a manifest can have, and what becomes of it  *)
(* when a node is replaced or removed; and files of which several are given  *)
(* together.                                                                *)
EXTENDS CommandLine

(* The two functions that call themselves.                                 *)
RECURSIVE MCHasUnsafeKey(_), MCAccepts(_, _)
MCHasUnsafeKey(n) == UnsafeKeyIn(MCHasUnsafeKey, n)
MCAccepts(schema, n) == Keywords(MCAccepts, schema, n)

MCReferences == [s \in {"$parameters.p", "$parameters.q"} |-> IF s = "$parameters.p" THEN "p" ELSE "q"]

Null == [null |-> TRUE]
Integer(i) == [integer |-> i]
Fraction == [fraction |-> 0]
True == [boolean |-> TRUE]
NoMembers == Object([key \in {} |-> Null])
S(text) == String(text)

P(type) == Object([type |-> S(type)])
Bound == Object([min |-> Fraction, max |-> Integer(1), minLength |-> Integer(0), maxLength |-> Integer(1)])
Hints == Object([control |-> S("x"), label |-> S(""), placeholder |-> S(""), help |-> S("")])
Full ==
    Object([type |-> S("string"), required |-> True, description |-> S(""), validation |-> Bound,
            presentation |-> Hints])
Listed == Object([type |-> S("enum"), values |-> Array(<<Null>>)])
Several == Object([type |-> S("array"), items |-> P("date")])

Query(source, language, statement) ==
    Object([source |-> S(source), language |-> S(language), statement |-> S(statement),
            bindings |-> Object([a |-> S("$parameters.p"), b |-> Object([parameter |-> S("p")]),
                                 c |-> Object([literal |-> Null])])])
Fields == Object([f |-> Object([type |-> S("number"), nullable |-> True, label |-> S(""),
                                semanticType |-> S(""), format |-> NoMembers])])

Manifest(kind, spec) ==
    Object([apiVersion |-> S("qspec.dev/v1"), kind |-> S(kind), spec |-> spec,
            metadata |-> Object([name |-> S("x"), title |-> S(""), description |-> S(""),
                                 tags |-> Array(<<S("")>>)])])
Spec1 ==
    Object([parameters |-> Object([p |-> Full, e |-> Listed, l |-> Several]),
            query |-> Query("db", "sql", "good"), dataset |-> Object([fields |-> Fields]),
            transforms |-> Array(<<P("sort")>>), presentation |-> P("line")])
Base == Manifest("Chart", Spec1)

(* The base with the node at a path replaced, or removed.                  *)
RECURSIVE Put(_, _, _)
Put(n, path, node) ==
    IF path = <<>> THEN node
    ELSE IF Is("array", n) THEN Array(<<Put(n.array[1], Tail(path), node)>>)
    ELSE LET rest == Put(Member(n, path[1]), Tail(path), node)
         IN Object([key \in (Keys(n) \cup {path[1]}) \ (IF rest = Absent THEN {path[1]} ELSE {}) |->
                        IF key = path[1] THEN rest ELSE n.object[key]])

At(base, keys) == {Append(base, key) : key \in keys}
Paths ==
    LET p == <<"spec", "parameters", "p">>
    IN {<<>>} \cup At(<<>>, {"apiVersion", "kind", "metadata", "spec", "$schema"})
       \cup At(<<"metadata">>, {"name", "title", "description", "tags", "unsafe"})
       \cup {<<"metadata", "tags", "0">>}
       \cup At(<<"spec">>, {"parameters", "query", "dataset", "transforms", "presentation"})
       \cup At(<<"spec", "parameters">>, {"p", "e"})
       \cup At(p, {"type", "required", "description", "validation", "presentation", "values", "items"})
       \cup At(Append(p, "validation"), {"min", "max", "minLength", "maxLength"})
       \cup At(Append(p, "presentation"), {"control", "help"})
       \cup At(<<"spec", "parameters", "e">>, {"type", "values"})
       \cup At(<<"spec", "parameters", "l">>, {"type", "items"})
       \cup {<<"spec", "parameters", "l", "items", "type">>}
       \cup At(<<"spec", "query">>, {"source", "language", "statement", "bindings"})
       \cup At(<<"spec", "query", "bindings">>, {"a", "b", "c"})
       \cup At(<<"spec", "query", "bindings", "b">>, {"parameter", "literal"})
       \cup {<<"spec", "dataset", "fields">>, <<"spec", "dataset", "fields", "f">>}
       \cup At(<<"spec", "dataset", "fields", "f">>, {"type", "nullable", "label", "semanticType", "format"})
       \cup {<<"spec", "transforms", "0">>, <<"spec", "transforms", "0", "type">>,
             <<"spec", "presentation", "type">>}

Nodes ==
    {Absent, Null, True, Fraction, Integer(1), Integer(-1), NoMembers, Array(<<>>), Array(<<Null>>),
     Array(<<S("")>>), P("date"), P("enum"), Object([literal |-> Null])}
    \cup {S(text) : text \in {"", "x", "X", "date", "enum", "array", "object", "$parameters.p", "$parameters.q",
                              "qspec.dev/v1"}}

Document(n) == [readable |-> TRUE, document |-> n]
Unreadable == [readable |-> FALSE]

Mutated == {Put(Base, path, node) : path \in Paths, node \in Nodes}
TwiceMutated ==
    {Put(Put(Base, <<"spec", "parameters", "p", "type">>, type), <<"spec", "parameters", "p", key>>, node) :
        type \in {S("enum"), S("array"), Absent, Integer(1)}, key \in {"values", "items"}, node \in Nodes}
    \cup {Put(Put(Base, <<"spec", "query", "bindings", "b", "literal">>, Null),
              <<"spec", "query", "bindings", "b", "parameter">>, node) : node \in Nodes}

(* Parameters of every type with a default, under the bounds of Full.      *)
Defaults ==
    (Nodes \ {Absent})
    \cup {Integer(2), S("2026-01-31"), S("2026-01-31T00:00"), Array(<<S("2026-01-31")>>),
          Array(<<S("2026-01-31"), S("2026-01-31")>>), Array(<<S("2026-01-31"), Null>>)}
Defaulted ==
    {Put(Put(Base, <<"spec", "parameters", "p", "type">>, S(type)), <<"spec", "parameters", "p", "default">>, node) :
        type \in ItemTypes, node \in Defaults}
    \cup {Put(Base, <<"spec", "parameters", key, "default">>, node) : key \in {"e", "l"}, node \in Defaults}
    \cup {Put(Put(Base, <<"spec", "parameters", "l", "validation">>, Bound),
              <<"spec", "parameters", "l", "default">>, node) : node \in Defaults}
    \cup {Put(Put(Base, <<"spec", "parameters", "d">>, P(type)), <<"spec", "parameters", "d", "default">>, node) :
            type \in {"date", "datetime"}, node \in Defaults}

Invocation(flag, command, config, paths) ==
    [flag |-> flag, command |-> command, config |-> config, json |-> command = "inspect", paths |-> paths]

(* Configs: plugins that lack something, fail, or bring their own source.   *)
Plugin(name, registers, throws) ==
    [plugin |-> [name |-> name, stub |-> FALSE, registers |-> registers, throws |-> throws]]
Charts ==
    Plugin("charts", <<Registration("resources", "Chart", Kind(TRUE, TRUE)),
                       Registration("presentations", "line", TRUE)>>, FALSE)
Sql == Plugin("sql", <<Registration("queryLanguages", "sql", TRUE),
                       Registration("transforms", "sort", TRUE)>>, FALSE)
Own == Plugin("own", <<Registration("sources", "db", {"graphql"})>>, FALSE)
Broken == Plugin("broken", <<Registration("sources", "other", AnyLanguage)>>, TRUE)
Config(plugins, default) == [loads |-> TRUE, plugins |-> plugins, default |-> default]
MCConfigs ==
    {Config(Array(plugins), Null) :
        plugins \in {<<>>, <<Sql, Charts>>, <<Sql, Own, Charts>>, <<Own, Sql, Charts, Broken>>, <<Broken, Sql>>}}
    \cup {Config(Absent, Object([plugins |-> Array(<<Charts, Sql>>)]))}
UnsoundConfigs ==
    {Config(Absent, Absent), Config(Absent, Null), Config(Absent, NoMembers), Config(Null, NoMembers),
     Config(Array(<<Null>>), Null), Config(Array(<<Sql, Sql>>), Null),
     [loads |-> FALSE, plugins |-> Absent, default |-> Absent]}

Without(key) == Document(Put(Base, <<"spec", key>>, Absent))
Set(path, text) == Document(Put(Base, path, S(text)))
Files ==
    {Unreadable, Document(Null), Document(Base), Document(Manifest("Dataset", NoMembers)), Without("presentation"),
     Without("query"), Set(<<"kind">>, "Tabel"), Set(<<"spec", "query", "source">>, "other"),
     Set(<<"spec", "query", "language">>, "graphql"), Set(<<"spec", "query", "statement">>, "bad"),
     Set(<<"spec", "presentation", "type">>, "map"), Set(<<"spec", "transforms", "0", "type">>, "pivot"),
     Document(Put(Base, <<"spec", "transforms">>, Array(<<P("sort"), P("sort")>>))),
     Document(Put(Base, <<"spec", "parameters", "p", "values">>, Null)),
     Document(Put(Base, <<"spec", "presentation", "x">>, Null)), Document(Put(Base, <<"spec", "odd">>, Null))}

MCRejected ==
    {Query("db", "sql", "bad"), Put(P("line"), <<"x">>, Null), Put(Spec1, <<"odd">>, Null)}

MCInvocations ==
    {Invocation("none", command, Absent, <<Document(n)>>) :
        command \in {"validate", "inspect"}, n \in Mutated \cup TwiceMutated \cup Defaulted}
    \cup {Invocation("none", "validate", config, paths) :
            config \in MCConfigs, paths \in {<<f, g>> : f, g \in Files} \cup
                {<<f, g, f>> : f \in {Document(Base)}, g \in Files}}
    \cup {Invocation("none", command, Absent, <<f, g>>) : command \in {"validate", "inspect"}, f, g \in Files}
    \cup {Invocation("none", "validate", config, <<Document(Base)>>) : config \in UnsoundConfigs}
    \cup {Invocation(flag, command, config, paths) :
            flag \in {"none", "help", "version", "unknown"}, command \in {"none", "validate", "inspect", "other"},
            config \in {Absent, Config(Array(<<>>), Null)}, paths \in {<<>>, <<Document(Base)>>}}
=============================================================================
