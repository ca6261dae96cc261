--------------------------- MODULE MCHttpExchange ---------------------------
(* Two requests: for a registered resource whose manifest needs a plugin,   *)
(* for a name that is not registered, or with a body that is no request. A  *)
(* QSpecError of a class without a code of its own has one that is its own  *)
(* or one that the client takes for a ManifestValidationError's.            *)
(* The walk over the parameters is checked on every graph of three objects  *)
(* with up to two members each; a chain of them is deeper than the limit.   *)
EXTENDS HttpExchange, TLC

CONSTANTS warehouse, r1, r2

MCRequests == {r1, r2}
MCRegistered == {"orders"}
MCPlugins == {warehouse}
MCNeeds == "orders" :> {warehouse}
MCCodes == {"QSPEC_QUERY_FAILED", "QSPEC_MANIFEST_INVALID"}

MCBody(resource, parameters, members) ==
    [resource |-> resource, parameters |-> parameters,
     graph |-> Root :> members @@ "range" :> <<"scalar", "scalar">>]
MCBodies ==
    <<MCBody("orders", "object", <<"range", "scalar">>), MCBody("toString", "absent", <<>>),
     MCBody("orders", "object", <<"scalar", "unsafe key">>), MCBody("", "object", <<>>)>>

MCObjects == {Root, "b", "c"}
MCMembers == MCObjects \cup Ends
MCGraphs == [MCObjects -> {<<>>} \cup {<<m>> : m \in MCMembers} \cup (MCMembers \X MCMembers)]
=============================================================================
