---------------------------- MODULE HttpExchange ----------------------------
(***************************************************************************)
(* The HTTP boundary: createHttpExecutor (packages/http/src/internal/      *)
(* executor.ts) on the client, createQSpecHandler (handler.ts) on the      *)
(* server, and the network between them.  An execution is one step here:   *)
(* Execution models what happens inside it.  So is a plugin's setup:       *)
(* PluginRuntime models the drain.                                         *)
(***************************************************************************)
EXTENDS WireProtocol

CONSTANTS
    Requests,       \* calls of the client executor
    Bodies,         \* what the JSON of a request may hold: a sequence, see ParseExecuteRequest
    Registered,     \* the keys of the handler's `manifests`
    Plugins,        \* plugins the host passes to use(), before or after a request
    Needs,          \* per manifest: the plugins whose capabilities it names
    Codes           \* what `code` may be in a QSpecError that a plugin or a source creates

ASSUME HttpExchangeAssumption ==
    /\ Registered \cap UnusableNames = {}
    /\ Needs \in [Registered -> SUBSET Plugins]
    /\ \A b \in DOMAIN Bodies : Bodies[b].parameters = "object" => IsGraph(Bodies[b].graph)

VARIABLES
    installed,  \* plugins whose setup has registered its capabilities
    broken,     \* a setup has thrown: ready() rejects from then on
    prepared,   \* the handler's Map: per resource, how its prepare() stands
    prepares,   \* history: per resource, how often prepare() was called
    asked,      \* per request: its body, and the form in which it arrives
    client,     \* per request: "idle", "waiting", "reading" or "settled"
    aborted,    \* per request: the caller's signal
    signalled,  \* per request: the server's request.signal
    server,     \* per request: where handleQSpecRequest stands
    thrown,     \* per request: what the server's side ended with
    outcome,    \* per request: the class of what execute() resolved to or threw
    delivery    \* history: per request, how its response reached the client

vars == <<installed, broken, prepared, prepares, asked, client, aborted, signalled,
          server, thrown, outcome, delivery>>
serverVars == <<prepared, prepares, server, thrown>>
hostVars == <<installed, broken>>
answerVars == <<outcome, delivery>>

(* A request is a POST with a JSON body, or an injected fetch has altered   *)
(* it into another method or into text that is not JSON.                    *)
Asks == [form : {"post"}, body : DOMAIN Bodies]
        \cup [form : {"wrong method", "not JSON"}, body : {1}]

(* What a promise has come to: its class and, if that is an error's, the    *)
(* error's code.  Four error classes have a code of their own; an error of  *)
(* any other class is a "QSpecError" here, of whatever code, or an "Error". *)
State(class) == [class |-> class, code |-> "none"]

OwnCode ==
    [ManifestValidationError  |-> "QSPEC_MANIFEST_INVALID",
     ParameterValidationError |-> "QSPEC_PARAMETER_INVALID",
     ExecutionDeniedError     |-> "QSPEC_EXECUTION_DENIED",
     QSpecAbortError          |-> "QSPEC_EXECUTION_ABORTED"]

QSpecErrors ==
    {[class |-> class, code |-> OwnCode[class]] : class \in DOMAIN OwnCode}
    \cup [class : {"QSpecError"}, code : Codes]
Errors == QSpecErrors \cup {State("Error")}
Endings == {State("QSpecResult")} \cup Errors

(* What the handler answers before it asks for the resource. *)
Refusal(code) == [class |-> "refusal", code |-> code]
Refusals == {Refusal("QSPEC_BAD_REQUEST"), Refusal("QSPEC_METHOD_NOT_ALLOWED"),
             Refusal("QSPEC_RESOURCE_NOT_FOUND")}

Classes == {"QSpecResult", "ManifestValidationError", "ParameterValidationError",
            "ExecutionDeniedError", "QSpecAbortError", "QueryExecutionError", "QSpecError"}

TypeOK ==
    /\ installed \subseteq Plugins /\ broken \in BOOLEAN
    /\ prepared \in [Registered -> {State("none"), State("pending"), State("ready")} \cup Errors]
    /\ prepares \in [Registered -> Nat]
    /\ asked \in [Requests -> Asks]
    /\ client \in [Requests -> {"idle", "waiting", "reading", "settled"}]
    /\ aborted \in [Requests -> BOOLEAN] /\ signalled \in [Requests -> BOOLEAN]
    /\ server \in [Requests -> {"none", "parsing", "preparing", "executing", "responded"}]
    /\ thrown \in [Requests -> {State("nothing")} \cup Endings \cup Refusals]
    /\ outcome \in [Requests -> {"nothing"} \cup Classes]
    /\ delivery \in [Requests -> {"none", "whole", "foreign", "lost"}]

Init ==
    /\ installed \in SUBSET Plugins /\ broken = FALSE
    /\ prepared = [m \in Registered |-> State("none")]
    /\ prepares = [m \in Registered |-> 0]
    /\ asked \in [Requests -> Asks]
    /\ client = [r \in Requests |-> "idle"]
    /\ aborted = [r \in Requests |-> FALSE] /\ signalled = [r \in Requests |-> FALSE]
    /\ server = [r \in Requests |-> "none"]
    /\ thrown = [r \in Requests |-> State("nothing")]
    /\ outcome = [r \in Requests |-> "nothing"]
    /\ delivery = [r \in Requests |-> "none"]

-----------------------------------------------------------------------------
(* The wire protocol.                                                      *)

(* mapError and the handler's own refusals.  A 500 has the code of whatever *)
(* QSpecError it stands for, and QSPEC_INTERNAL_ERROR for any other error.  *)
Status(ending) ==
    CASE ending.class = "QSpecResult"              -> 200
      [] ending.class = "ManifestValidationError"  -> 400
      [] ending.class = "ParameterValidationError" -> 400
      [] ending.class = "ExecutionDeniedError"     -> 403
      [] ending.class = "QSpecAbortError"          -> 499
      [] ending = Refusal("QSPEC_BAD_REQUEST")        -> 400
      [] ending = Refusal("QSPEC_METHOD_NOT_ALLOWED") -> 405
      [] ending = Refusal("QSPEC_RESOURCE_NOT_FOUND") -> 404
      [] OTHER                                     -> 500

Response(ending) ==
    [ok     |-> ending.class = "QSpecResult",
     status |-> Status(ending),
     code   |-> IF ending.class = "Error" THEN "QSPEC_INTERNAL_ERROR" ELSE ending.code]

(* Mutant: the status alone decides.                                       *)
Reconstructed_ByStatus(response) ==
    IF response.ok THEN "QSpecResult"
    ELSE IF response.status >= 500 THEN "QueryExecutionError" ELSE "QSpecError"

(* Mutant: every error that comes back is generalised.                     *)
Reconstructed_Generalised(response) ==
    IF response.ok THEN "QSpecResult" ELSE "QueryExecutionError"

(* `ok: true`, or reconstructError: the code decides before the status does.*)
Reconstructed(response) ==
    CASE response.ok                               -> "QSpecResult"
      [] response.code = "QSPEC_MANIFEST_INVALID"  -> "ManifestValidationError"
      [] response.code = "QSPEC_PARAMETER_INVALID" -> "ParameterValidationError"
      [] response.code = "QSPEC_EXECUTION_ABORTED" -> "QSpecAbortError"
      [] OTHER -> IF response.status >= 500 THEN "QueryExecutionError" ELSE "QSpecError"

-----------------------------------------------------------------------------
(* The host.                                                               *)

(* runtime.use() and the drain that follows it; or a setup that throws.     *)
Install(plugin) ==
    /\ ~broken /\ plugin \notin installed
    /\ installed' = installed \cup {plugin}
    /\ UNCHANGED <<broken, serverVars, asked, client, aborted, signalled, answerVars>>

SetupThrows ==
    /\ ~broken /\ installed # Plugins
    /\ broken' = TRUE
    /\ UNCHANGED <<installed, serverVars, asked, client, aborted, signalled, answerVars>>

-----------------------------------------------------------------------------
(* The client executor.                                                    *)

Send(r) ==
    /\ client[r] = "idle"
    /\ client' = [client EXCEPT ![r] = "waiting"]
    /\ UNCHANGED <<hostVars, serverVars, asked, aborted, signalled, answerVars>>

Abort(r) ==
    /\ ~aborted[r]
    /\ aborted' = [aborted EXCEPT ![r] = TRUE]
    /\ UNCHANGED <<hostVars, serverVars, asked, client, signalled, answerVars>>

Settle(r, class, how) ==
    /\ client' = [client EXCEPT ![r] = "settled"]
    /\ outcome' = [outcome EXCEPT ![r] = class]
    /\ delivery' = [delivery EXCEPT ![r] = how]
    /\ UNCHANGED <<hostVars, serverVars, asked, aborted, signalled>>

HeadersArrive(r) ==
    /\ client[r] = "waiting" /\ server[r] = "responded"
    /\ client' = [client EXCEPT ![r] = "reading"]
    /\ UNCHANGED <<hostVars, serverVars, asked, aborted, signalled, answerVars>>

BodyArrives(r) ==
    /\ client[r] = "reading"
    /\ Settle(r, Reconstructed(Response(thrown[r])), "whole")

(* Something between the two sent text that is not JSON, or another shape.  *)
BodyIsForeign(r) ==
    /\ client[r] = "reading"
    /\ Settle(r, "QueryExecutionError", "foreign")

(* Mutant: every failure of fetch() is taken for an abort.                 *)
CatchClass_AnyAbort(r) == "QSpecAbortError"

(* fetch() or response.text() rejects: the catch asks why only afterwards.  *)
CatchClass(r) == IF aborted[r] THEN "QSpecAbortError" ELSE "QueryExecutionError"

(* Mutant: fetch() is not given the signal, only the reading of the body.  *)
FetchRejects_BodyOnly(r) ==
    /\ client[r] = "reading"
    /\ Settle(r, CatchClass(r), "lost")

FetchRejects(r) ==
    /\ client[r] \in {"waiting", "reading"}
    /\ Settle(r, CatchClass(r), "lost")

-----------------------------------------------------------------------------
(* The handler.                                                            *)

(* Mutant: only an abort is passed on, not a connection that is lost.      *)
Disconnect_AbortOnly(r) ==
    /\ ~signalled[r] /\ server[r] # "none" /\ aborted[r]
    /\ signalled' = [signalled EXCEPT ![r] = TRUE]
    /\ UNCHANGED <<hostVars, serverVars, asked, client, aborted, answerVars>>

(* The server notices that the connection is gone, or, when the handler is  *)
(* called in process, shares the caller's signal.                           *)
Disconnect(r) ==
    /\ ~signalled[r] /\ server[r] # "none"
    /\ aborted[r] \/ client[r] = "settled"
    /\ signalled' = [signalled EXCEPT ![r] = TRUE]
    /\ UNCHANGED <<hostVars, serverVars, asked, client, aborted, answerVars>>

Respond(r, ending) ==
    /\ server' = [server EXCEPT ![r] = "responded"]
    /\ thrown' = [thrown EXCEPT ![r] = ending]

GoOn(r, step) ==
    /\ server' = [server EXCEPT ![r] = step]
    /\ UNCHANGED thrown

HandlerUnchanged == UNCHANGED <<hostVars, asked, client, aborted, signalled, answerVars>>

Arrive(r) ==
    /\ client[r] = "waiting" /\ server[r] = "none"
    /\ IF asked[r].form = "wrong method" THEN Respond(r, Refusal("QSPEC_METHOD_NOT_ALLOWED"))
                                         ELSE GoOn(r, "parsing")
    /\ UNCHANGED <<prepared, prepares>> /\ HandlerUnchanged

ParsedRequests == {b \in DOMAIN Bodies : ParseExecuteRequest(Bodies[b])}
IsRequest(r) == asked[r].form = "post" /\ asked[r].body \in ParsedRequests
Resource(r) == Bodies[asked[r].body].resource

(* request.json() settles; it also rejects when the connection is gone.     *)
BodyIsBad(r) ==
    /\ server[r] = "parsing"
    /\ ~IsRequest(r) \/ signalled[r]
    /\ Respond(r, Refusal("QSPEC_BAD_REQUEST"))
    /\ UNCHANGED <<prepared, prepares>> /\ HandlerUnchanged

ResourceIsUnknown(r) ==
    /\ server[r] = "parsing" /\ IsRequest(r)
    /\ Resource(r) \notin Registered
    /\ Respond(r, Refusal("QSPEC_RESOURCE_NOT_FOUND"))
    /\ UNCHANGED <<prepared, prepares>> /\ HandlerUnchanged

(* Mutant: the promise is stored only when it has settled.                 *)
PrepareOnce_StoredLate(m) ==
    IF prepared[m] \notin {State("none"), State("pending")} THEN UNCHANGED <<prepared, prepares>>
    ELSE /\ prepared' = [prepared EXCEPT ![m] = State("pending")]
         /\ prepares' = [prepares EXCEPT ![m] = @ + 1]

(* The Map holds the promise from the moment prepare() is called.           *)
PrepareOnce(m) ==
    IF prepared[m] # State("none") THEN UNCHANGED <<prepared, prepares>>
    ELSE /\ prepared' = [prepared EXCEPT ![m] = State("pending")]
         /\ prepares' = [prepares EXCEPT ![m] = @ + 1]

AskForResource(r) ==
    /\ server[r] = "parsing" /\ IsRequest(r)
    /\ Resource(r) \in Registered
    /\ PrepareOnce(Resource(r))
    /\ GoOn(r, "preparing")
    /\ HandlerUnchanged

(* ready() throws the QSpecError a setup has failed with; what is missing   *)
(* makes prepareResource throw an Unknown*Error or a ManifestValidationError*)
(* and a plugin's validate() what it likes.                                 *)
Preparable(m) == ~broken /\ Needs[m] \subseteq installed

PrepareSettles(m) ==
    /\ prepared[m] = State("pending")
    /\ \E state \in IF Preparable(m) THEN {State("ready")}
                    ELSE IF broken THEN QSpecErrors ELSE Errors :
        prepared' = [prepared EXCEPT ![m] = state]
    /\ UNCHANGED <<prepares, server, thrown>> /\ HandlerUnchanged

AfterPrepare(r) ==
    /\ server[r] = "preparing"
    /\ LET state == prepared[Resource(r)]
       IN /\ state # State("pending")
          /\ IF state = State("ready") THEN GoOn(r, "executing") ELSE Respond(r, state)
    /\ UNCHANGED <<prepared, prepares>> /\ HandlerUnchanged

(* execute() ends with a result or with any QSpecError: what a plugin or a  *)
(* source throws as one passes through it.  A QSpecAbortError may also mean *)
(* a timeout or a plugin's AbortError.  A result may have no JSON.          *)
ExecuteEnds(r) ==
    /\ server[r] = "executing"
    /\ \E ending \in Endings : Respond(r, ending)
    /\ UNCHANGED <<prepared, prepares>> /\ HandlerUnchanged

-----------------------------------------------------------------------------
Host == SetupThrows \/ \E plugin \in Plugins : Install(plugin)

Client(r) ==
    Send(r) \/ Abort(r) \/ HeadersArrive(r) \/ BodyArrives(r) \/ BodyIsForeign(r) \/ FetchRejects(r)

Handler(r) ==
    \/ Disconnect(r) \/ Arrive(r) \/ BodyIsBad(r) \/ ResourceIsUnknown(r)
    \/ AskForResource(r) \/ AfterPrepare(r) \/ ExecuteEnds(r)

Next ==
    \/ Host
    \/ \E r \in Requests : Client(r) \/ Handler(r)
    \/ \E m \in Registered : PrepareSettles(m)

(* A lost connection is noticed, the event loop runs every continuation,    *)
(* setups settle, fetch honours its signal, and so does execute(): a query  *)
(* nobody cancels may run for ever.                                         *)
Fairness ==
    /\ \A m \in Registered : WF_vars(PrepareSettles(m))
    /\ \A r \in Requests :
        /\ WF_vars(Disconnect(r)) /\ WF_vars(AfterPrepare(r))
        /\ WF_vars(BodyIsBad(r) \/ ResourceIsUnknown(r) \/ AskForResource(r))
        /\ WF_vars(aborted[r] /\ FetchRejects(r))
        /\ WF_vars(signalled[r] /\ ExecuteEnds(r))

Spec == Init /\ [][Next]_vars /\ Fairness

-----------------------------------------------------------------------------
(* Properties.                                                             *)

(* However many first requests race for a resource, its manifest is         *)
(* prepared once (handler.ts:137-139).                                      *)
PreparedOnce == \A m \in Registered : prepares[m] <= 1

(* Nothing is prepared or executed for parameters that are not JSON, and    *)
(* the parser rejects only what is not JSON or too deep: an object that is  *)
(* reached twice is no cycle, and is walked only once.  A request's body is *)
(* a tree; an in-process caller of the parser may pass any graph            *)
(* (handler.ts:206-217, protocol.ts:132-173, 200-207).                      *)
ParametersAreChecked ==
    /\ \A r \in Requests : server[r] \in {"preparing", "executing"} =>
        LET body == Bodies[asked[r].body]
        IN body.parameters = "object" => Passable(body.graph)
    /\ Misjudged = {}

(* A QSpecAbortError means that this caller aborted or that its own         *)
(* execution ended with one, as when the query timed out: not that the      *)
(* network failed, and not that another caller, whose request shares the    *)
(* prepared resource, went away (executor.ts:208-222, execute.ts:79-83).    *)
AbortHasACause ==
    \A r \in Requests :
        outcome[r] = "QSpecAbortError" => aborted[r] \/ thrown[r].code = "QSPEC_EXECUTION_ABORTED"

(* The class in which an ending arrives: that of a result and of the errors *)
(* a caller can act on is what a local execution has; what the wire cannot  *)
(* carry is generalised.                                                    *)
Expected(ending) ==
    CASE ending.class \in {"QSpecResult", "ManifestValidationError", "ParameterValidationError",
                           "QSpecAbortError"} -> ending.class
      [] ending.class \in {"ExecutionDeniedError", "refusal"} -> "QSpecError"
      [] OTHER -> "QueryExecutionError"

(* An error of another class with a code that reconstructError takes for    *)
(* one of these.                                                            *)
CodeMisleads(ending) ==
    /\ ending.class = "QSpecError"
    /\ ending.code \in {"QSPEC_MANIFEST_INVALID", "QSPEC_PARAMETER_INVALID", "QSPEC_EXECUTION_ABORTED"}

(* A response that arrives whole gives the caller the class that the same   *)
(* ending has in process, or the one it is generalised to, but for an error *)
(* whose code misleads, which is an error even so; a response that does not *)
(* arrive whole gives no result, and a QSpecAbortError only when the caller *)
(* has aborted (executor.ts:153-200, 251-264, handler.ts:105-123).          *)
SameAsLocal ==
    \A r \in Requests : client[r] = "settled" =>
        CASE delivery[r] = "whole" ->
                \/ outcome[r] = Expected(thrown[r])
                \/ CodeMisleads(thrown[r]) /\ outcome[r] # "QSpecResult"
          [] delivery[r] = "foreign" -> outcome[r] = "QueryExecutionError"
          [] delivery[r] = "lost" ->
                \/ outcome[r] = "QueryExecutionError"
                \/ outcome[r] = "QSpecAbortError" /\ aborted[r]

(* When a caller has left, both sides end: the caller of an abort gets an    *)
(* answer, and the execution does not outlive its caller for ever, however  *)
(* it left (executor.ts:208-210, handler.ts:140-142).                       *)
BothSidesEnd ==
    \A r \in Requests :
        /\ aborted[r] /\ client[r] \in {"waiting", "reading"} ~> client[r] = "settled"
        /\ client[r] = "settled" /\ server[r] # "none" ~> server[r] = "responded"
=============================================================================
