------------------------- MODULE HttpExchangeProofs -------------------------
(***************************************************************************)
(* Theorems about HttpExchange, for any requests, bodies, manifests and    *)
(* plugins, with their proofs.                                             *)
(***************************************************************************)
EXTENDS HttpExchange, FiniteSetTheorems, SequenceTheorems, WellFoundedInduction, TLAPS

(* prepare() has been called for the resources the Map holds, once each.    *)
Prepared == \A m \in Registered : prepares[m] = IF prepared[m] = State("none") THEN 0 ELSE 1

(* Only what the parser accepts gets to a resource, and whoever waits for   *)
(* one waits for a promise the Map holds.                                   *)
Handled ==
    \A r \in Requests :
        /\ server[r] \in {"preparing", "executing"} => IsRequest(r) /\ Resource(r) \in Registered
        /\ server[r] = "preparing" => prepared[Resource(r)] # State("none")

(* A response has a cause, and is read only when it has been sent.          *)
Responses ==
    \A r \in Requests :
        /\ server[r] = "responded" <=> thrown[r] # State("nothing")
        /\ client[r] = "reading" => server[r] = "responded"

(* What may be told to the caller of r of a response that arrived in a way. *)
Told(r, class, how) ==
    \/ how = "foreign" /\ class = "QueryExecutionError"
    \/ how = "lost" /\ class = "QueryExecutionError"
    \/ how = "lost" /\ class = "QSpecAbortError" /\ aborted[r]
    \/ how = "whole" /\ server[r] = "responded" /\ class = Reconstructed(Response(thrown[r]))

(* What a caller is told is one of three, by how the response arrived: that *)
(* the exchange failed, that it has aborted, or what the response says.     *)
Answered ==
    \A r \in Requests :
        \/ client[r] # "settled" /\ outcome[r] = "nothing" /\ delivery[r] = "none"
        \/ client[r] = "settled" /\ Told(r, outcome[r], delivery[r])

IInv == TypeOK /\ Prepared /\ Handled /\ Responses /\ Answered

-----------------------------------------------------------------------------
(* The error codes.                                                        *)

(* What an ending can be. *)
Own(class) == [class |-> class, code |-> OwnCode[class]]

LEMMA OwnCodes ==
    /\ OwnCode["ManifestValidationError"] = "QSPEC_MANIFEST_INVALID"
    /\ OwnCode["ParameterValidationError"] = "QSPEC_PARAMETER_INVALID"
    /\ OwnCode["ExecutionDeniedError"] = "QSPEC_EXECUTION_DENIED"
    /\ OwnCode["QSpecAbortError"] = "QSPEC_EXECUTION_ABORTED"
    /\ DOMAIN OwnCode = {"ManifestValidationError", "ParameterValidationError",
                         "ExecutionDeniedError", "QSpecAbortError"}
  BY DEF OwnCode

LEMMA Kinds ==
    ASSUME NEW ending \in Endings \cup Refusals
    PROVE  \/ ending = State("QSpecResult") \/ ending = State("Error")
           \/ ending = Own("ManifestValidationError") \/ ending = Own("ParameterValidationError")
           \/ ending = Own("ExecutionDeniedError") \/ ending = Own("QSpecAbortError")
           \/ \E code \in Codes : ending = [class |-> "QSpecError", code |-> code]
           \/ ending \in Refusals
  <1>1. CASE ending \in QSpecErrors
    <2>1. CASE ending \in {[class |-> class, code |-> OwnCode[class]] : class \in DOMAIN OwnCode}
      <3>1. PICK class \in DOMAIN OwnCode : ending = Own(class)
        BY <2>1 DEF Own
      <3> QED
        BY <3>1, OwnCodes
    <2>2. CASE ending \in [class : {"QSpecError"}, code : Codes]
      <3>1. ending = [class |-> "QSpecError", code |-> ending.code] /\ ending.code \in Codes
        BY <2>2
      <3> QED
        BY <3>1
    <2> QED
      BY <1>1, <2>1, <2>2 DEF QSpecErrors
  <1>2. CASE ending \notin QSpecErrors
    BY <1>2 DEF Endings, Errors
  <1> QED
    BY <1>1, <1>2

(* Each ending arrives as what it is expected to, unless its code misleads. *)
WireFact(ending, class) ==
    /\ class \in Classes
    /\ class = "QSpecAbortError" => ending.code = "QSPEC_EXECUTION_ABORTED"
    /\ class = Expected(ending) \/ (CodeMisleads(ending) /\ class # "QSpecResult")

LEMMA WireFacts ==
    ASSUME NEW ending \in Endings \cup Refusals
    PROVE  WireFact(ending, Reconstructed(Response(ending)))
  <1> USE DEF State, Own, Refusal
  <1>1. CASE ending = State("QSpecResult")
    <2>1. /\ ending.class = "QSpecResult"
          /\ Response(ending).ok /\ Response(ending).code = "none" /\ Response(ending).status = 200
      BY <1>1 DEF Response, Status
    <2>2. Reconstructed(Response(ending)) = "QSpecResult" /\ Expected(ending) = "QSpecResult"
      BY <2>1 DEF Reconstructed, Expected
    <2> QED
      BY <2>2 DEF WireFact, Classes
  <1>2. CASE ending = State("Error")
    <2>1. ending.class = "Error"
      BY <1>2
    <2>2. ~Response(ending).ok /\ Response(ending).status = 500 /\ Response(ending).code = "QSPEC_INTERNAL_ERROR"
      BY <1>2 DEF Response, Status
    <2>3. Reconstructed(Response(ending)) = "QueryExecutionError"
      BY <2>2 DEF Reconstructed
    <2>4. Expected(ending) = "QueryExecutionError"
      BY <2>1 DEF Expected
    <2> QED
      BY <2>3, <2>4 DEF WireFact, Classes
  <1>3. CASE ending = Own("ManifestValidationError")
    <2>1. ending.class = "ManifestValidationError" /\ ending.code = "QSPEC_MANIFEST_INVALID"
      BY <1>3, OwnCodes
    <2>2. ~Response(ending).ok /\ Response(ending).status = 400 /\ Response(ending).code = "QSPEC_MANIFEST_INVALID"
      BY <1>3, <2>1 DEF Response, Status
    <2>3. Reconstructed(Response(ending)) = "ManifestValidationError"
      BY <2>2 DEF Reconstructed
    <2>4. Expected(ending) = "ManifestValidationError"
      BY <2>1 DEF Expected
    <2> QED
      BY <2>1, <2>3, <2>4 DEF WireFact, Classes
  <1>4. CASE ending = Own("ParameterValidationError")
    <2>1. ending.class = "ParameterValidationError" /\ ending.code = "QSPEC_PARAMETER_INVALID"
      BY <1>4, OwnCodes
    <2>2. ~Response(ending).ok /\ Response(ending).status = 400 /\ Response(ending).code = "QSPEC_PARAMETER_INVALID"
      BY <1>4, <2>1 DEF Response, Status
    <2>3. Reconstructed(Response(ending)) = "ParameterValidationError"
      BY <2>2 DEF Reconstructed
    <2>4. Expected(ending) = "ParameterValidationError"
      BY <2>1 DEF Expected
    <2> QED
      BY <2>1, <2>3, <2>4 DEF WireFact, Classes
  <1>5. CASE ending = Own("ExecutionDeniedError")
    <2>1. ending.class = "ExecutionDeniedError" /\ ending.code = "QSPEC_EXECUTION_DENIED"
      BY <1>5, OwnCodes
    <2>2. ~Response(ending).ok /\ Response(ending).status = 403 /\ Response(ending).code = "QSPEC_EXECUTION_DENIED"
      BY <1>5, <2>1 DEF Response, Status
    <2>3. Reconstructed(Response(ending)) = "QSpecError"
      BY <2>2 DEF Reconstructed
    <2>4. Expected(ending) = "QSpecError"
      BY <2>1 DEF Expected
    <2> QED
      BY <2>1, <2>3, <2>4 DEF WireFact, Classes
  <1>6. CASE ending = Own("QSpecAbortError")
    <2>1. ending.class = "QSpecAbortError" /\ ending.code = "QSPEC_EXECUTION_ABORTED"
      BY <1>6, OwnCodes
    <2>2. ~Response(ending).ok /\ Response(ending).status = 499 /\ Response(ending).code = "QSPEC_EXECUTION_ABORTED"
      BY <1>6, <2>1 DEF Response, Status
    <2>3. Reconstructed(Response(ending)) = "QSpecAbortError"
      BY <2>2 DEF Reconstructed
    <2>4. Expected(ending) = "QSpecAbortError"
      BY <2>1 DEF Expected
    <2> QED
      BY <2>1, <2>3, <2>4 DEF WireFact, Classes
  <1>7. ASSUME NEW code \in Codes, ending = [class |-> "QSpecError", code |-> code]
       PROVE  WireFact(ending, Reconstructed(Response(ending)))
    <2>1. ending.class = "QSpecError" /\ ending.code = code
      BY <1>7
    <2>2. ~Response(ending).ok /\ Response(ending).status = 500 /\ Response(ending).code = code
      BY <1>7, <2>1 DEF Response, Status
    <2>3. Expected(ending) = "QueryExecutionError"
      BY <2>1 DEF Expected
    <2>4. CASE code \in {"QSPEC_MANIFEST_INVALID", "QSPEC_PARAMETER_INVALID", "QSPEC_EXECUTION_ABORTED"}
      <3>1. CodeMisleads(ending)
        BY <2>1, <2>4 DEF CodeMisleads
      <3>2. Reconstructed(Response(ending))
              = CASE code = "QSPEC_MANIFEST_INVALID"  -> "ManifestValidationError"
                  [] code = "QSPEC_PARAMETER_INVALID" -> "ParameterValidationError"
                  [] code = "QSPEC_EXECUTION_ABORTED" -> "QSpecAbortError"
        BY <2>2, <2>4 DEF Reconstructed
      <3> QED
        BY <2>1, <2>4, <3>1, <3>2 DEF WireFact, Classes
    <2>5. CASE code \notin {"QSPEC_MANIFEST_INVALID", "QSPEC_PARAMETER_INVALID", "QSPEC_EXECUTION_ABORTED"}
      <3>1. Reconstructed(Response(ending)) = "QueryExecutionError"
        BY <2>2, <2>5 DEF Reconstructed
      <3> QED
        BY <2>3, <3>1 DEF WireFact, Classes
    <2> QED
      BY <2>4, <2>5
  <1>8. CASE ending = Refusal("QSPEC_BAD_REQUEST")
    <2>1. ending.class = "refusal" /\ ending.code = "QSPEC_BAD_REQUEST"
      BY <1>8
    <2>2. ~Response(ending).ok /\ Response(ending).status = 400 /\ Response(ending).code = "QSPEC_BAD_REQUEST"
      BY <1>8, <2>1 DEF Response, Status
    <2>3. Reconstructed(Response(ending)) = "QSpecError"
      BY <2>2 DEF Reconstructed
    <2>4. Expected(ending) = "QSpecError"
      BY <2>1 DEF Expected
    <2> QED
      BY <2>3, <2>4 DEF WireFact, Classes
  <1>9. CASE ending = Refusal("QSPEC_METHOD_NOT_ALLOWED")
    <2>1. ending.class = "refusal" /\ ending.code = "QSPEC_METHOD_NOT_ALLOWED"
      BY <1>9
    <2>2. ~Response(ending).ok /\ Response(ending).status = 405 /\ Response(ending).code = "QSPEC_METHOD_NOT_ALLOWED"
      BY <1>9, <2>1 DEF Response, Status
    <2>3. Reconstructed(Response(ending)) = "QSpecError"
      BY <2>2 DEF Reconstructed
    <2>4. Expected(ending) = "QSpecError"
      BY <2>1 DEF Expected
    <2> QED
      BY <2>3, <2>4 DEF WireFact, Classes
  <1>10. CASE ending = Refusal("QSPEC_RESOURCE_NOT_FOUND")
    <2>1. ending.class = "refusal" /\ ending.code = "QSPEC_RESOURCE_NOT_FOUND"
      BY <1>10
    <2>2. ~Response(ending).ok /\ Response(ending).status = 404 /\ Response(ending).code = "QSPEC_RESOURCE_NOT_FOUND"
      BY <1>10, <2>1 DEF Response, Status
    <2>3. Reconstructed(Response(ending)) = "QSpecError"
      BY <2>2 DEF Reconstructed
    <2>4. Expected(ending) = "QSpecError"
      BY <2>1 DEF Expected
    <2> QED
      BY <2>3, <2>4 DEF WireFact, Classes
  <1> QED
    BY Kinds, <1>1, <1>2, <1>3, <1>4, <1>5, <1>6, <1>7, <1>8, <1>9, <1>10 DEF Refusals

-----------------------------------------------------------------------------
(* The inductive invariant.                                                *)

LEMMA InitIInv == Init => IInv
  <1> SUFFICES ASSUME Init PROVE IInv
    OBVIOUS
  <1> USE DEF Init
  <1>1. TypeOK
    BY DEF TypeOK
  <1>2. Prepared /\ Handled /\ Responses /\ Answered
    BY DEF Prepared, Handled, Responses, Answered, State
  <1> QED
    BY <1>1, <1>2 DEF IInv

LEMMA HostStep == ASSUME IInv, Host PROVE IInv'
  <1> USE DEF Host, Install, SetupThrows, serverVars, answerVars
  <1>1. TypeOK'
    BY DEF IInv, TypeOK
  <1>2. Prepared' /\ Handled' /\ Responses' /\ Answered'
    BY DEF IInv, Prepared, Handled, Responses, Answered, Told, IsRequest, Resource
  <1> QED
    BY <1>1, <1>2 DEF IInv

(* The handler's part of the invariant does not depend on the client's.     *)
LEMMA HandlerKept ==
    ASSUME IInv, UNCHANGED <<serverVars, asked>>
    PROVE  Prepared' /\ Handled'
  BY DEF IInv, Prepared, Handled, IsRequest, Resource, serverVars

(* A client may be told a class that the exchange has given cause for.      *)
LEMMA SettleKeeps ==
    ASSUME IInv, NEW r \in Requests, NEW class \in Classes,
           NEW how \in {"whole", "foreign", "lost"}, Settle(r, class, how), Told(r, class, how)
    PROVE  IInv'
  <1> USE DEF Settle, hostVars
  <1>1. TypeOK'
    BY DEF IInv, TypeOK, serverVars
  <1>2. Prepared' /\ Handled'
    BY HandlerKept
  <1>3. Responses'
    BY DEF IInv, TypeOK, Responses, serverVars
  <1>4. Answered'
    BY DEF IInv, TypeOK, Answered, Told, serverVars
  <1> QED
    BY <1>1, <1>2, <1>3, <1>4 DEF IInv

LEMMA ClientStep == ASSUME IInv, NEW r \in Requests, Client(r) PROVE IInv'
  <1>1. CASE Send(r) \/ HeadersArrive(r)
    <2> USE <1>1 DEF Send, HeadersArrive, hostVars, answerVars
    <2>1. TypeOK'
      BY DEF IInv, TypeOK, serverVars
    <2>2. Prepared' /\ Handled'
      BY HandlerKept
    <2>3. Responses' /\ Answered'
      BY DEF IInv, TypeOK, Responses, Answered, Told, serverVars
    <2> QED
      BY <2>1, <2>2, <2>3 DEF IInv
  <1>2. CASE Abort(r)
    <2> USE <1>2 DEF Abort, hostVars, answerVars
    <2>1. TypeOK'
      BY DEF IInv, TypeOK, serverVars
    <2>2. Prepared' /\ Handled'
      BY HandlerKept
    <2>3. \A s \in Requests : aborted[s] => aborted'[s]
      BY DEF IInv, TypeOK
    <2>4. Responses' /\ Answered'
      BY <2>3 DEF IInv, Responses, Answered, Told, serverVars
    <2> QED
      BY <2>1, <2>2, <2>4 DEF IInv
  <1>3. CASE BodyArrives(r)
    <2>1. server[r] = "responded" /\ thrown[r] \in Endings \cup Refusals
      BY <1>3 DEF BodyArrives, IInv, TypeOK, Responses
    <2>2. Reconstructed(Response(thrown[r])) \in Classes
      BY <2>1, WireFacts DEF WireFact
    <2>3. Told(r, Reconstructed(Response(thrown[r])), "whole")
      BY <2>1 DEF Told
    <2>4. Settle(r, Reconstructed(Response(thrown[r])), "whole")
      BY <1>3 DEF BodyArrives
    <2> QED
      BY <2>2, <2>3, <2>4, SettleKeeps
  <1>4. CASE BodyIsForeign(r)
    <2>1. Told(r, "QueryExecutionError", "foreign")
      BY DEF Told
    <2> QED
      BY <1>4, <2>1, SettleKeeps DEF BodyIsForeign, Classes
  <1>5. CASE FetchRejects(r)
    <2>1. CatchClass(r) \in Classes
      BY DEF CatchClass, Classes
    <2>2. Told(r, CatchClass(r), "lost")
      BY DEF CatchClass, Told
    <2> QED
      BY <1>5, <2>1, <2>2, SettleKeeps DEF FetchRejects
  <1> QED
    BY <1>1, <1>2, <1>3, <1>4, <1>5 DEF Client

(* How a prepare() may stand. *)
Standing == {State("none"), State("pending"), State("ready")} \cup Errors

(* The client's part of the invariant, for a step of the handler that sends *)
(* its response at most once.                                               *)
LEMMA AnsweredKept ==
    ASSUME IInv, NEW r \in Requests, NEW step, NEW ending, UNCHANGED <<client, aborted, answerVars>>,
           server[r] # "responded",
           server' = [server EXCEPT ![r] = step], thrown' = [thrown EXCEPT ![r] = ending],
           step = "responded" <=> ending # State("nothing")
    PROVE  Responses' /\ Answered'
  BY DEF IInv, TypeOK, Responses, Answered, Told, answerVars

LEMMA RespondStep ==
    ASSUME IInv, NEW r \in Requests, NEW ending \in Endings \cup Refusals,
           server[r] # "responded", Respond(r, ending), HandlerUnchanged,
           UNCHANGED <<prepared, prepares>>
    PROVE  IInv'
  <1> USE DEF Respond, HandlerUnchanged, hostVars
  <1>1. ending # State("nothing")
    BY Kinds, OwnCodes DEF State, Own, Refusals, Refusal
  <1>2. TypeOK'
    BY DEF IInv, TypeOK, answerVars
  <1>3. Prepared' /\ Handled'
    BY DEF IInv, TypeOK, Prepared, Handled, IsRequest, Resource
  <1>4. Responses' /\ Answered'
    BY <1>1, AnsweredKept
  <1> QED
    BY <1>2, <1>3, <1>4 DEF IInv

LEMMA GoOnStep ==
    ASSUME IInv, NEW r \in Requests, NEW step \in {"parsing", "preparing", "executing"},
           server[r] # "responded", GoOn(r, step), HandlerUnchanged,
           prepared' \in [Registered -> Standing],
           prepares' \in [Registered -> Nat], Prepared',
           \A m \in Registered : prepared[m] # State("none") => prepared'[m] # State("none"),
           step # "parsing" => IsRequest(r) /\ Resource(r) \in Registered,
           step = "preparing" => prepared'[Resource(r)] # State("none")
    PROVE  IInv'
  <1> USE DEF GoOn, HandlerUnchanged, hostVars
  <1>1. TypeOK'
    BY DEF IInv, TypeOK, Standing, answerVars
  <1>2. \A s \in Requests : /\ s # r => server'[s] = server[s]
                            /\ server'[r] = step
                            /\ Resource(s)' = Resource(s) /\ IsRequest(s)' = IsRequest(s)
    BY DEF IInv, TypeOK, Resource, IsRequest
  <1>3. Handled'
    BY <1>2 DEF IInv, Handled
  <1>4. thrown[r] = State("nothing") /\ thrown' = [thrown EXCEPT ![r] = State("nothing")]
    BY DEF IInv, TypeOK, Responses
  <1>5. Responses' /\ Answered'
    BY <1>4, AnsweredKept
  <1> QED
    BY <1>1, <1>3, <1>5 DEF IInv

LEMMA HandlerStep == ASSUME IInv, NEW r \in Requests, Handler(r) PROVE IInv'
  <1>1. TypeOK /\ Prepared /\ Handled /\ Responses /\ Answered
    BY DEF IInv
  <1>2. CASE Disconnect(r)
    <2> USE <1>2 DEF Disconnect, hostVars, answerVars
    <2>1. TypeOK'
      BY <1>1 DEF TypeOK, serverVars
    <2>2. Prepared' /\ Handled'
      BY HandlerKept
    <2>3. Responses' /\ Answered'
      BY <1>1 DEF Responses, Answered, Told, serverVars
    <2> QED
      BY <2>1, <2>2, <2>3 DEF IInv
  <1>3. CASE Arrive(r)
    <2>1. prepared' = prepared /\ prepares' = prepares /\ Prepared'
      BY <1>1, <1>3 DEF Arrive, Prepared
    <2>2. CASE asked[r].form = "wrong method"
      BY <1>3, <2>1, <2>2, RespondStep DEF Arrive, Refusals
    <2>3. CASE asked[r].form # "wrong method"
      BY <1>1, <1>3, <2>1, <2>3, GoOnStep DEF Arrive, TypeOK, Standing
    <2> QED
      BY <2>2, <2>3
  <1>4. CASE BodyIsBad(r) \/ ResourceIsUnknown(r) \/ ExecuteEnds(r)
    BY <1>4, RespondStep DEF BodyIsBad, ResourceIsUnknown, ExecuteEnds, Refusals
  <1>5. CASE AskForResource(r)
    <2> DEFINE m == Resource(r)
    <2>1. m \in Registered /\ IsRequest(r) /\ PrepareOnce(m) /\ server[r] # "responded"
      BY <1>5 DEF AskForResource
    <2> HIDE DEF m
    <2>2. /\ prepared' \in [Registered -> Standing]
          /\ prepares' \in [Registered -> Nat]
          /\ prepared'[m] # State("none")
          /\ \A n \in Registered : prepared[n] # State("none") => prepared'[n] # State("none")
      BY <1>1, <2>1 DEF PrepareOnce, TypeOK, Standing, State
    <2>3. Prepared'
      BY <1>1, <2>1 DEF PrepareOnce, TypeOK, Prepared, State
    <2> QED
      BY <1>5, <2>1, <2>2, <2>3, GoOnStep DEF AskForResource, m
  <1>6. CASE AfterPrepare(r)
    <2> DEFINE state == prepared[Resource(r)]
    <2>1. /\ server[r] = "preparing" /\ state # State("pending") /\ HandlerUnchanged
          /\ IF state = State("ready") THEN GoOn(r, "executing") ELSE Respond(r, state)
          /\ prepared' = prepared /\ prepares' = prepares
      BY <1>6 DEF AfterPrepare
    <2>2. IsRequest(r) /\ Resource(r) \in Registered /\ state # State("none")
      BY <1>1, <2>1 DEF Handled
    <2>3. Prepared' /\ state \in {State("ready")} \cup Errors
      BY <1>1, <2>1, <2>2 DEF TypeOK, Prepared
    <2> HIDE DEF state
    <2>4. CASE state = State("ready")
      BY <1>1, <2>1, <2>2, <2>3, <2>4, GoOnStep DEF TypeOK, Standing
    <2>5. CASE state # State("ready")
      BY <2>1, <2>3, <2>5, RespondStep DEF Endings
    <2> QED
      BY <2>4, <2>5
  <1> QED
    BY <1>2, <1>3, <1>4, <1>5, <1>6 DEF Handler

LEMMA PrepareStep == ASSUME IInv, NEW m \in Registered, PrepareSettles(m) PROVE IInv'
  <1> USE DEF PrepareSettles, HandlerUnchanged, hostVars, answerVars
  <1>1. PICK state \in {State("ready")} \cup Errors :
           prepared[m] = State("pending") /\ prepared' = [prepared EXCEPT ![m] = state]
    BY DEF Errors
  <1>2. state # State("none")
    BY <1>1, Kinds, OwnCodes DEF Endings, State, Own, Refusals, Refusal
  <1>3. TypeOK'
    BY <1>1 DEF IInv, TypeOK
  <1>4. \A n \in Registered : prepared'[n] = State("none") <=> prepared[n] = State("none")
    BY <1>1, <1>2 DEF IInv, TypeOK, State
  <1>5. Prepared'
    BY <1>4 DEF IInv, Prepared
  <1>6. \A r \in Requests : Resource(r)' = Resource(r) /\ IsRequest(r)' = IsRequest(r)
    BY DEF Resource, IsRequest
  <1>7. Handled'
    BY <1>4, <1>6 DEF IInv, Handled
  <1>8. Responses' /\ Answered'
    BY DEF IInv, Responses, Answered, Told
  <1> QED
    BY <1>3, <1>5, <1>7, <1>8 DEF IInv

LEMMA StepIInv == IInv /\ [Next]_vars => IInv'
  <1> SUFFICES ASSUME IInv, [Next]_vars PROVE IInv'
    OBVIOUS
  <1>1. CASE UNCHANGED vars
    BY <1>1 DEF vars, IInv, TypeOK, Prepared, Handled, Responses, Answered, Told, IsRequest, Resource
  <1> QED
    BY <1>1, HostStep, ClientStep, HandlerStep, PrepareStep DEF Next

LEMMA Invariance == Spec => []IInv
  BY InitIInv, StepIInv, PTL DEF Spec

-----------------------------------------------------------------------------
(* The theorems.                                                           *)

(* The state has its type: the handler never answers with a prepare() that  *)
(* was not called or has not settled (handler.ts:137-142).                  *)
THEOREM ExchangeTypeCorrect == Spec => []TypeOK
  <1>1. IInv => TypeOK
    BY DEF IInv
  <1> QED
    BY <1>1, Invariance, PTL

(* However many first requests race for a resource, its manifest is         *)
(* prepared once (handler.ts:137-139).                                      *)
THEOREM ResourcesArePreparedOnce == Spec => []PreparedOnce
  <1>1. IInv => PreparedOnce
    BY DEF IInv, Prepared, PreparedOnce
  <1> QED
    BY <1>1, Invariance, PTL

(* A caller gets a QSpecAbortError only for its own abort, or for its own   *)
(* execution's: neither a network failure nor another request of the same   *)
(* resource makes one (executor.ts:208-222, execute.ts:79-83).              *)
THEOREM AbortsAreOnesOwn == Spec => []AbortHasACause
  <1>1. ASSUME IInv PROVE AbortHasACause
    <2> SUFFICES ASSUME NEW r \in Requests, outcome[r] = "QSpecAbortError", ~aborted[r]
                 PROVE  thrown[r].code = "QSPEC_EXECUTION_ABORTED"
      BY DEF AbortHasACause
    <2>1. server[r] = "responded" /\ outcome[r] = Reconstructed(Response(thrown[r]))
      BY <1>1 DEF IInv, Answered, Told
    <2>2. thrown[r] \in Endings \cup Refusals
      BY <1>1, <2>1 DEF IInv, TypeOK, Responses
    <2> QED
      BY <2>1, <2>2, WireFacts DEF WireFact
  <1> QED
    BY <1>1, Invariance, PTL

(* A response that arrives whole gives the caller the class the same ending *)
(* has in process, or the one it is generalised to, unless it is an error   *)
(* whose code misleads; one that does not gives no result, and an abort only*)
(* to a caller who has aborted (executor.ts:153-187, 237-254).              *)
THEOREM RemoteIsLocal == Spec => []SameAsLocal
  <1>1. ASSUME IInv PROVE SameAsLocal
    <2> DEFINE Right(r) ==
                 CASE delivery[r] = "whole" ->
                        \/ outcome[r] = Expected(thrown[r])
                        \/ CodeMisleads(thrown[r]) /\ outcome[r] # "QSpecResult"
                   [] delivery[r] = "foreign" -> outcome[r] = "QueryExecutionError"
                   [] delivery[r] = "lost" ->
                        \/ outcome[r] = "QueryExecutionError"
                        \/ outcome[r] = "QSpecAbortError" /\ aborted[r]
    <2>1. SUFFICES ASSUME NEW r \in Requests, client[r] = "settled" PROVE Right(r)
      BY DEF SameAsLocal
    <2>2. Told(r, outcome[r], delivery[r])
      BY <1>1, <2>1 DEF IInv, Answered
    <2>3. CASE delivery[r] = "foreign" \/ delivery[r] = "lost"
      BY <2>2, <2>3 DEF Told
    <2>4. CASE delivery[r] = "whole"
      <3>1. server[r] = "responded" /\ outcome[r] = Reconstructed(Response(thrown[r]))
        BY <2>2, <2>4 DEF Told
      <3>2. thrown[r] \in Endings \cup Refusals
        BY <1>1, <3>1 DEF IInv, TypeOK, Responses
      <3>3. WireFact(thrown[r], outcome[r])
        BY <3>1, <3>2, WireFacts
      <3> QED
        BY <2>4, <3>3 DEF WireFact
    <2> QED
      BY <2>2, <2>3, <2>4 DEF Told
  <1> QED
    BY <1>1, Invariance, PTL

-----------------------------------------------------------------------------
(* Induction, and functions that are defined by it.                        *)

LEMMA Least ==
    ASSUME NEW S \in SUBSET Nat, S # {}
    PROVE  \E m \in S : \A k \in S : m <= k
<1> DEFINE R == OpToRel(<, Nat)
<1>1. IsWellFoundedOn(R, Nat)
  BY NatLessThanWellFounded
<1>2. \A x, y \in Nat : <<x, y>> \in R <=> x < y
  BY DEF OpToRel
<1> HIDE DEF R
<1>3. PICK m \in S : \A y \in S : ~ (<<y, m>> \in R)
  BY <1>1, WFMin
<1>4. \A k \in S : m \in Nat /\ k \in Nat /\ ~(k < m)
  BY <1>2, <1>3
<1> QED
  BY <1>4

LEMMA Induction ==
    ASSUME NEW n \in Nat, NEW S, 0 \in S, \A k \in 0 .. n - 1 : k \in S => k + 1 \in S
    PROVE  \A k \in 0 .. n : k \in S
<1> SUFFICES ASSUME NEW j \in 0 .. n, j \notin S
             PROVE  FALSE
  OBVIOUS
<1> DEFINE T == {k \in 0 .. n : k \notin S}
<1>1. T \in SUBSET Nat /\ T # {}
  OBVIOUS
<1> HIDE DEF T
<1>2. PICK m \in T : \A k \in T : m <= k
  BY <1>1, Least
<1>3. m \in 0 .. n /\ m \notin S /\ m # 0
  BY <1>2 DEF T
<1>4. m - 1 \in 0 .. n - 1 /\ m - 1 \notin T /\ (m - 1) + 1 = m
  BY <1>2, <1>3
<1> QED
  BY <1>3, <1>4 DEF T

(* The functions whose value at i is made of their value at i - 1. *)
Iterations(n, S, base, F) ==
    {h \in [0 .. n -> S] : h[0] = base /\ \A i \in 1 .. n : h[i] = F[i][h[i - 1]]}

LEMMA IterationExists ==
    ASSUME NEW n \in Nat, NEW S, NEW base \in S, NEW F, \A i \in 1 .. n : \A s \in S : F[i][s] \in S
    PROVE  Iterations(n, S, base, F) # {}
<1> DEFINE Is(h, k) == h \in [0 .. k -> S] /\ h[0] = base /\ \A i \in 1 .. k : h[i] = F[i][h[i - 1]]
           D == {k \in 0 .. n : \E h : Is(h, k)}
<1>1. 0 \in D
  <2> DEFINE h == [i \in 0 .. 0 |-> base]
  <2>1. Is(h, 0)
    OBVIOUS
  <2> HIDE DEF h, Is
  <2> QED
    BY <2>1
<1>2. ASSUME NEW k \in 0 .. n - 1, k \in D PROVE k + 1 \in D
  <2>1. PICK h : Is(h, k)
    BY <1>2
  <2>2. k \in Nat /\ k + 1 \in 1 .. n /\ k + 1 \in 0 .. n
    OBVIOUS
  <2> DEFINE g == [i \in 0 .. k + 1 |-> IF i = k + 1 THEN F[k + 1][h[k]] ELSE h[i]]
  <2>3. \A i \in 0 .. k : g[i] = h[i]
    BY <2>2
  <2>4. g[k + 1] = F[k + 1][h[k]] /\ g[k + 1] \in S
    <3>1. h[k] \in S
      BY <2>1, <2>2
    <3> QED
      BY <2>2, <3>1
  <2>5. g \in [0 .. k + 1 -> S]
    BY <2>1, <2>2, <2>4
  <2> HIDE DEF g
  <2>6. ASSUME NEW i \in 1 .. k + 1 PROVE g[i] = F[i][g[i - 1]]
    <3>1. CASE i = k + 1
      <4>1. g[k] = h[k] /\ (k + 1) - 1 = k
        BY <2>2, <2>3
      <4> QED
        BY <2>4, <3>1, <4>1
    <3>2. CASE i # k + 1
      <4>1. i \in 1 .. k /\ i \in 0 .. k /\ i - 1 \in 0 .. k
        BY <2>2, <3>2
      <4> QED
        BY <2>1, <2>3, <4>1
    <3> QED
      BY <3>1, <3>2
  <2>7. g[0] = base
    BY <2>1, <2>2, <2>3
  <2>8. Is(g, k + 1)
    BY <2>5, <2>6, <2>7
  <2> HIDE DEF Is
  <2> QED
    BY <2>2, <2>8
<1>3. \A k \in 0 .. n : k \in D
  <2> HIDE DEF D
  <2> QED
    BY <1>1, <1>2, Induction
<1>4. PICK h : Is(h, n)
  BY <1>3
<1> QED
  BY <1>4 DEF Iterations

-----------------------------------------------------------------------------
(* The paths of a graph.                                                   *)

IsPath(g, p) ==
    /\ p \in Seq(Values(g)) /\ p # <<>> /\ p[1] = Root
    /\ \A i \in 1 .. Len(p) - 1 : p[i] \notin Ends /\ p[i + 1] \in ToSet(g[p[i]])

LEMMA GraphFacts ==
    ASSUME NEW g, IsGraph(g)
    PROVE  /\ Cardinality(DOMAIN g) \in Nat \ {0}
           /\ \A n \in DOMAIN g : n \notin Ends /\ g[n] \in Seq(Values(g)) /\ ToSet(g[n]) \subseteq Values(g)
           /\ \A v \in Values(g) : v \notin Ends => v \in DOMAIN g
           /\ Root \in Values(g) /\ Root \notin Ends
<1>1. Cardinality(DOMAIN g) \in Nat
  BY FS_CardinalityType DEF IsGraph
<1>2. Cardinality(DOMAIN g) # 0
  BY FS_EmptySet DEF IsGraph
<1>3. \A n \in DOMAIN g : n \notin Ends /\ g[n] \in Seq(Values(g))
  BY DEF IsGraph
<1>4. \A n \in DOMAIN g : ToSet(g[n]) \subseteq Values(g)
  BY <1>3 DEF ToSet
<1> QED
  BY <1>1, <1>2, <1>3, <1>4 DEF IsGraph, Values

LEMMA PathFacts ==
    ASSUME NEW g, NEW p, IsPath(g, p)
    PROVE  /\ p \in Seq(Values(g)) /\ Len(p) \in Nat \ {0} /\ DOMAIN p = 1 .. Len(p)
           /\ Last(p) = p[Len(p)] /\ Last(p) \in Values(g)
BY DEF IsPath, Last

LEMMA PathAppend ==
    ASSUME NEW g, IsGraph(g), NEW q, IsPath(g, q), Last(q) \notin Ends, NEW m \in ToSet(g[Last(q)])
    PROVE  IsPath(g, Append(q, m)) /\ Len(Append(q, m)) = Len(q) + 1 /\ Last(Append(q, m)) = m
<1> DEFINE V == Values(g)
           n == Len(q)
           p == Append(q, m)
<1>1. q \in Seq(V) /\ n \in Nat \ {0} /\ Last(q) = q[n] /\ Last(q) \in V
  BY PathFacts
<1>2. m \in V
  BY <1>1, GraphFacts
<1>3. p \in Seq(V) /\ Len(p) = n + 1 /\ p[n + 1] = m /\ p # <<>>
  BY <1>1, <1>2
<1>4. \A i \in 1 .. n : p[i] = q[i]
  BY <1>1
<1> HIDE DEF p, V, n
<1>5. \A i \in 1 .. n - 1 : q[i] \notin Ends /\ q[i + 1] \in ToSet(g[q[i]])
  BY DEF IsPath, n
<1>6. ASSUME NEW i \in 1 .. n PROVE p[i] \notin Ends /\ p[i + 1] \in ToSet(g[p[i]])
  <2>1. CASE i = n
    BY <1>1, <1>3, <1>4, <2>1
  <2>2. CASE i # n
    <3>1. i \in 1 .. n - 1 /\ i + 1 \in 1 .. n
      BY <1>1, <2>2
    <3> QED
      BY <1>4, <1>5, <3>1
  <2> QED
    BY <2>1, <2>2
<1>7. p[1] = Root
  BY <1>1, <1>4 DEF IsPath
<1>8. Len(p) - 1 = n
  BY <1>1, <1>3
<1>9. IsPath(g, p)
  BY <1>3, <1>6, <1>7, <1>8 DEF IsPath, V
<1> QED
  BY <1>3, <1>9 DEF p, n, Last

LEMMA PathFront ==
    ASSUME NEW g, NEW p, IsPath(g, p), Len(p) > 1
    PROVE  \E q : /\ IsPath(g, q) /\ Len(q) = Len(p) - 1 /\ p = Append(q, Last(p))
                  /\ Last(q) \notin Ends /\ Last(p) \in ToSet(g[Last(q)]) /\ Last(q) = p[Len(p) - 1]
<1> DEFINE V == Values(g)
           n == Len(p)
           q == SubSeq(p, 1, n - 1)
<1>1. p \in Seq(V) /\ n \in Nat /\ n > 1 /\ Last(p) = p[n] /\ p[n] \in V
  BY PathFacts
<1>2. q \in Seq(V) /\ Len(q) = n - 1 /\ \A i \in 1 .. n - 1 : q[i] = p[i]
  BY <1>1
<1> HIDE DEF q
<1>3. p = Append(q, p[n])
  <2>1. Append(q, p[n]) \in Seq(V) /\ Len(Append(q, p[n])) = n
    BY <1>1, <1>2
  <2>2. \A i \in 1 .. n : p[i] = Append(q, p[n])[i]
    BY <1>1, <1>2
  <2> QED
    BY <1>1, <2>1, <2>2, SeqEqual
<1> HIDE DEF V, n
<1>4. \A i \in 1 .. n - 1 : p[i] \notin Ends /\ p[i + 1] \in ToSet(g[p[i]])
  BY DEF IsPath, n
<1>5. n - 1 \in 1 .. n - 1 /\ (n - 1) + 1 = n
  BY <1>1
<1>6. Last(q) = p[n - 1] /\ Last(q) \notin Ends /\ Last(p) \in ToSet(g[Last(q)])
  BY <1>1, <1>2, <1>4, <1>5 DEF Last
<1>7. \A i \in 1 .. (n - 1) - 1 : i \in 1 .. n - 1 /\ i + 1 \in 1 .. n - 1
  BY <1>1
<1>8. q[1] = Root /\ q # <<>>
  BY <1>1, <1>2, <1>5 DEF IsPath
<1>9. IsPath(g, q)
  BY <1>2, <1>4, <1>7, <1>8 DEF IsPath, V
<1> QED
  BY <1>1, <1>2, <1>3, <1>6, <1>9 DEF n

LEMMA ShortPath ==
    ASSUME NEW g, NEW p, IsPath(g, p), Len(p) <= 1
    PROVE  p = <<Root>>
<1> DEFINE n == Len(p)
<1>1. p \in Seq(Values(g)) /\ p # <<>> /\ p[1] = Root
  BY DEF IsPath
<1>2. n \in Nat /\ n # 0
  BY <1>1
<1>3. n = 1
  <2>1. n <= 1
    OBVIOUS
  <2> HIDE DEF n
  <2> QED
    BY <1>2, <2>1
<1> QED
  BY <1>1, <1>3

(* Paths has the paths with at most one object more than there are. *)
LEMMA PathsAre ==
    ASSUME NEW g, IsGraph(g)
    PROVE  \A p : p \in Paths(g) <=> IsPath(g, p) /\ Len(p) <= Cardinality(DOMAIN g) + 1
<1> DEFINE n == Cardinality(DOMAIN g)
           V == Values(g)
           S == SUBSET (Seq(V) \ {<<>>})
           Longer(paths) == UNION {{Append(p, m) : m \in ToSet(g[Last(p)])} :
                                   p \in {q \in paths : Last(q) \notin Ends}}
           base == {<<Root>>}
           F == [k \in 1 .. n |-> [s \in S |-> s \cup Longer(s)]]
           Body(f, k) == IF k = 0 THEN base ELSE f[k - 1] \cup Longer(f[k - 1])
           solution == CHOOSE f : f = [k \in 0 .. n |-> Body(f, k)]
<1>1. Paths(g) = solution[n]
  BY DEF Paths
<1>2. n \in Nat \ {0} /\ Root \in V
  BY GraphFacts
<1>3. base \in S
  BY <1>2
<1>4. \A s, p : p \in Longer(s) <=>
                \E q \in s : \E m \in ToSet(g[Last(q)]) : Last(q) \notin Ends /\ p = Append(q, m)
  OBVIOUS
<1>5. ASSUME NEW s \in S PROVE s \cup Longer(s) \in S
  <2> SUFFICES ASSUME NEW p \in Longer(s) PROVE p \in Seq(V) /\ p # <<>>
    OBVIOUS
  <2>1. PICK q \in s : \E m \in ToSet(g[Last(q)]) : Last(q) \notin Ends /\ p = Append(q, m)
    BY <1>4
  <2>2. PICK m \in ToSet(g[Last(q)]) : Last(q) \notin Ends /\ p = Append(q, m)
    BY <2>1
  <2>3. q \in Seq(V) /\ q # <<>>
    BY <1>5
  <2>4. Last(q) \in V
    BY <2>3 DEF Last
  <2>5. m \in V
    BY <2>2, <2>4, GraphFacts
  <2> QED
    BY <2>2, <2>3, <2>5
<1> HIDE DEF n, Longer, S, base
<1>6. \A k \in 1 .. n : \A s \in S : F[k][s] = s \cup Longer(s)
  OBVIOUS
<1> HIDE DEF F
<1>7. PICK h \in [0 .. n -> S] : h[0] = base /\ \A k \in 1 .. n : h[k] = F[k][h[k - 1]]
  <2>1. \A k \in 1 .. n : \A s \in S : F[k][s] \in S
    BY <1>5, <1>6
  <2>2. n \in Nat
    BY <1>2
  <2>3. Iterations(n, S, base, F) # {}
    BY <1>3, <2>1, <2>2, IterationExists
  <2> QED
    BY <2>3 DEF Iterations
<1>8. h = [k \in 0 .. n |-> Body(h, k)]
  <2>1. ASSUME NEW k \in 0 .. n PROVE h[k] = Body(h, k)
    <3>1. CASE k = 0
      BY <1>7, <3>1
    <3>2. CASE k # 0
      <4>1. k \in 1 .. n /\ k - 1 \in 0 .. n
        BY <1>2, <3>2
      <4>2. h[k - 1] \in S
        BY <4>1
      <4> QED
        BY <1>6, <1>7, <3>2, <4>1, <4>2
    <3> QED
      BY <3>1, <3>2
  <2> HIDE DEF Body
  <2> QED
    BY <2>1
<1>9. solution = [k \in 0 .. n |-> Body(solution, k)]
  <2> HIDE DEF Body
  <2> QED
    BY <1>8
<1> HIDE DEF solution
<1>10. \A k \in 0 .. n : solution[k] = Body(solution, k)
  <2> HIDE DEF Body
  <2> QED
    BY <1>9
<1>11. solution[0] = base /\ \A k \in 1 .. n : solution[k] = solution[k - 1] \cup Longer(solution[k - 1])
  <2>1. 0 \in 0 .. n /\ \A k \in 1 .. n : k \in 0 .. n /\ k # 0
    BY <1>2
  <2> QED
    BY <1>10, <2>1
<1> DEFINE D == {k \in 0 .. n : \A p : p \in solution[k] <=> IsPath(g, p) /\ Len(p) <= k + 1}
<1>12. 0 \in D
  <2> SUFFICES ASSUME NEW p PROVE p \in solution[0] <=> IsPath(g, p) /\ Len(p) <= 1
    BY <1>2
  <2>1. IsPath(g, <<Root>>) /\ Len(<<Root>>) = 1
    BY <1>2 DEF IsPath, V
  <2>2. ASSUME IsPath(g, p), Len(p) <= 1 PROVE p = <<Root>>
    BY <2>2, ShortPath
  <2>3. solution[0] = {<<Root>>}
    BY <1>11 DEF base
  <2> QED
    BY <2>1, <2>2, <2>3
<1>13. ASSUME NEW k \in 0 .. n - 1, k \in D PROVE k + 1 \in D
  <2>1. k + 1 \in 1 .. n /\ k + 1 \in 0 .. n /\ (k + 1) - 1 = k /\ k \in Nat
    BY <1>2
  <2>2. \A p : p \in solution[k] <=> IsPath(g, p) /\ Len(p) <= k + 1
    BY <1>13
  <2>3. solution[k + 1] = solution[k] \cup Longer(solution[k])
    BY <1>11, <2>1
  <2> SUFFICES ASSUME NEW p PROVE p \in solution[k + 1] <=> IsPath(g, p) /\ Len(p) <= (k + 1) + 1
    BY <2>1
  <2>4. ASSUME p \in Longer(solution[k]) PROVE IsPath(g, p) /\ Len(p) <= (k + 1) + 1
    <3>0. PICK q \in solution[k] : \E m \in ToSet(g[Last(q)]) : Last(q) \notin Ends /\ p = Append(q, m)
      BY <1>4, <2>4
    <3>1. PICK m \in ToSet(g[Last(q)]) : Last(q) \notin Ends /\ p = Append(q, m)
      BY <3>0
    <3>2. IsPath(g, q) /\ Len(q) <= k + 1 /\ Len(q) \in Nat
      BY <2>2, <3>1, PathFacts
    <3> QED
      BY <2>1, <3>1, <3>2, PathAppend
  <2>5. ASSUME IsPath(g, p), Len(p) <= (k + 1) + 1, ~(Len(p) <= k + 1) PROVE p \in Longer(solution[k])
    <3>1. Len(p) \in Nat /\ Len(p) > 1 /\ Len(p) - 1 <= k + 1
      BY <2>1, <2>5, PathFacts
    <3>2. PICK q : /\ IsPath(g, q) /\ Len(q) = Len(p) - 1 /\ p = Append(q, Last(p))
                   /\ Last(q) \notin Ends /\ Last(p) \in ToSet(g[Last(q)])
      BY <2>5, <3>1, PathFront
    <3>3. q \in solution[k]
      BY <2>2, <3>1, <3>2
    <3> QED
      BY <1>4, <3>2, <3>3
  <2>6. ASSUME IsPath(g, p), Len(p) <= k + 1 PROVE Len(p) <= (k + 1) + 1
    BY <2>1, <2>6, PathFacts
  <2> QED
    BY <2>2, <2>3, <2>4, <2>5, <2>6
<1>14. n \in D
  <2> HIDE DEF D
  <2>1. n \in Nat /\ n \in 0 .. n
    BY <1>2
  <2>2. \A k \in 0 .. n : k \in D
    BY <1>12, <1>13, <2>1, Induction
  <2> QED
    BY <2>1, <2>2
<1> QED
  BY <1>1, <1>14 DEF n

(* A path through different objects can have one value more. *)
LEMMA SimplePaths ==
    ASSUME NEW g, IsGraph(g), NEW q \in Seq(DOMAIN g), IsInjective(q)
    PROVE  Len(q) \in Nat /\ Len(q) <= Cardinality(DOMAIN g)
<1> DEFINE I == 1 .. Len(q)
           T == DOMAIN g
<1>1. Len(q) \in Nat /\ q \in [I -> T]
  OBVIOUS
<1>2. q \in Injection(I, T)
  BY <1>1 DEF Injection
<1>3. IsFiniteSet(T)
  BY DEF IsGraph
<1>4. Cardinality(I) = Len(q)
  <2> DEFINE b == Len(q)
             a == 1
  <2>1. a \in Int /\ b \in Int /\ I = a .. b
    BY <1>1
  <2>2. Cardinality(a .. b) = IF a > b THEN 0 ELSE b - a + 1
    <3> HIDE DEF a, b
    <3> QED
      BY <2>1, FS_Interval
  <2> QED
    BY <1>1, <2>2
<1> HIDE DEF I, T
<1>5. Cardinality(I) <= Cardinality(T)
  BY <1>2, <1>3, FS_Injection
<1> QED
  BY <1>1, <1>4, <1>5 DEF T

-----------------------------------------------------------------------------
(* The recursion of the walk.                                              *)

LEMMA WalkFacts ==
    ASSUME NEW g, NEW w \in Walks(g)
    PROVE  /\ w.onPath \subseteq DOMAIN g /\ w.validated \subseteq DOMAIN g /\ w.thrown \in BOOLEAN
           /\ w.entered \in Seq(DOMAIN g)
           /\ w = [onPath |-> w.onPath, validated |-> w.validated, thrown |-> w.thrown, entered |-> w.entered]
BY DEF Walks

LEMMA ThrowFacts ==
    ASSUME NEW g, NEW w \in Walks(g)
    PROVE  /\ Throw(w) \in Walks(g) /\ Throw(w).thrown /\ Throw(w).onPath = w.onPath
           /\ Throw(w).validated = w.validated /\ Throw(w).entered = w.entered
           /\ w.thrown => Throw(w) = w
BY DEF Walks, Throw

LEMMA EnterFacts ==
    ASSUME NEW g, NEW w \in Walks(g), NEW n \in DOMAIN g
    PROVE  /\ Enter(w, n) \in Walks(g) /\ Enter(w, n).thrown = w.thrown
           /\ Enter(w, n).onPath = w.onPath \cup {n} /\ Enter(w, n).validated = w.validated
           /\ Enter(w, n).entered = Append(w.entered, n)
<1>1. Append(w.entered, n) \in Seq(DOMAIN g) /\ w.onPath \cup {n} \subseteq DOMAIN g
  BY WalkFacts
<1>2. Enter(w, n) = [w EXCEPT !.onPath = w.onPath \cup {n}, !.entered = Append(w.entered, n)]
  BY DEF Enter
<1>3. Enter(w, n) = [onPath |-> w.onPath \cup {n}, validated |-> w.validated, thrown |-> w.thrown,
                     entered |-> Append(w.entered, n)]
  BY <1>2, WalkFacts
<1> QED
  BY <1>1, <1>3, WalkFacts DEF Walks

LEMMA LeaveFacts ==
    ASSUME NEW g, NEW w \in Walks(g), NEW n \in DOMAIN g
    PROVE  /\ Leave(w, n) \in Walks(g) /\ Leave(w, n).thrown = w.thrown
           /\ Leave(w, n).onPath = w.onPath \ {n} /\ Leave(w, n).validated = w.validated \cup {n}
           /\ Leave(w, n).entered = w.entered
BY WalkFacts DEF Walks, Leave

(* What the members leave, one after the other. *)
Descents(deeper, members, W, walk) ==
    {h \in [0 .. Len(members) -> W] :
        /\ h[0] = walk /\ \A i \in 1 .. Len(members) : h[i] = deeper[members[i]][h[i - 1]]
        /\ CheckMembers(deeper, members, walk) = h[Len(members)]}

LEMMA CheckMembersUnfolds ==
    ASSUME NEW W, NEW members, Len(members) \in Nat, NEW deeper, NEW walk \in W,
           \A i \in 1 .. Len(members) : \A w \in W : deeper[members[i]][w] \in W
    PROVE  Descents(deeper, members, W, walk) # {}
<1> DEFINE n == Len(members)
           F == [i \in 1 .. n |-> deeper[members[i]]]
           Body(f, i) == IF i = 0 THEN walk ELSE deeper[members[i]][f[i - 1]]
           solution == CHOOSE f : f = [i \in 0 .. n |-> Body(f, i)]
<1>1. CheckMembers(deeper, members, walk) = solution[n]
  BY DEF CheckMembers
<1>2. n \in Nat
  OBVIOUS
<1>3. \A i \in 1 .. n : F[i] = deeper[members[i]]
  OBVIOUS
<1> HIDE DEF F, n
<1>4. Iterations(n, W, walk, F) # {}
  <2>1. \A i \in 1 .. n : \A w \in W : F[i][w] \in W
    BY <1>3 DEF n
  <2> QED
    BY <1>2, <2>1, IterationExists
<1>5. PICK h \in [0 .. n -> W] : h[0] = walk /\ \A i \in 1 .. n : h[i] = F[i][h[i - 1]]
  BY <1>4 DEF Iterations
<1>6. h = [i \in 0 .. n |-> Body(h, i)]
  <2>1. ASSUME NEW i \in 0 .. n PROVE h[i] = Body(h, i)
    <3>1. i # 0 => i \in 1 .. n
      BY <1>2
    <3> QED
      BY <1>3, <1>5, <3>1
  <2> HIDE DEF Body
  <2> QED
    BY <2>1
<1>7. solution = [i \in 0 .. n |-> Body(solution, i)]
  <2> HIDE DEF Body
  <2> QED
    BY <1>6
<1> HIDE DEF solution
<1>8. \A i \in 0 .. n : solution[i] = Body(solution, i)
  <2> HIDE DEF Body
  <2> QED
    BY <1>7
<1>9. solution[0] = walk /\ \A i \in 1 .. n : solution[i] = deeper[members[i]][solution[i - 1]]
  <2>1. 0 \in 0 .. n /\ \A i \in 1 .. n : i \in 0 .. n /\ i # 0
    BY <1>2
  <2> QED
    BY <1>8, <2>1
<1>10. solution \in [0 .. n -> W]
  <2> DEFINE D == {i \in 0 .. n : solution[i] \in W}
  <2>1. 0 \in D
    BY <1>2, <1>9
  <2>2. ASSUME NEW i \in 0 .. n - 1, i \in D PROVE i + 1 \in D
    <3>1. i + 1 \in 1 .. n /\ i + 1 \in 0 .. n /\ (i + 1) - 1 = i
      BY <1>2
    <3>2. solution[i + 1] = deeper[members[i + 1]][solution[i]]
      BY <1>9, <3>1
    <3> QED
      BY <2>2, <3>1, <3>2 DEF n
  <2> HIDE DEF D
  <2>3. \A i \in 0 .. n : i \in D
    BY <1>2, <2>1, <2>2, Induction
  <2>4. \A i \in 0 .. n : solution[i] \in W
    BY <2>3 DEF D
  <2> HIDE DEF Body
  <2> QED
    BY <1>7, <2>4
<1> QED
  BY <1>1, <1>9, <1>10 DEF n, Descents

LEMMA CheckValueType ==
    ASSUME NEW g, IsGraph(g), NEW f \in [Values(g) -> [Walks(g) -> Walks(g)]],
           NEW v \in Values(g), NEW w \in Walks(g)
    PROVE  CheckValue(f, g, v, w) \in Walks(g)
<1> DEFINE W == Walks(g)
           members == g[v]
           walked == CheckMembers(f, members, Enter(w, v))
<1>1. CASE w.thrown \/ v = "scalar" \/ v \in w.validated \ w.onPath
  <2>1. ~(~w.thrown /\ v \in {"not JSON", "unsafe key"} \cup w.onPath)
    BY <1>1, WalkFacts, GraphFacts DEF Ends
  <2> QED
    BY <1>1, <2>1 DEF CheckValue
<1>2. CASE ~w.thrown /\ v \in {"not JSON", "unsafe key"} \cup w.onPath
  <2>1. CheckValue(f, g, v, w) \in {w, Throw(w)}
    BY <1>2 DEF CheckValue
  <2> QED
    BY <2>1, ThrowFacts
<1>3. CASE /\ ~(w.thrown \/ v = "scalar" \/ v \in w.validated \ w.onPath)
           /\ ~(~w.thrown /\ v \in {"not JSON", "unsafe key"} \cup w.onPath)
  <2>1. v \in DOMAIN g /\ members \in Seq(Values(g))
    BY <1>3, GraphFacts DEF Ends
  <2>2. CheckValue(f, g, v, w) \in {walked, Leave(walked, v)}
    BY <1>3 DEF CheckValue
  <2>3. Enter(w, v) \in W
    BY <2>1, EnterFacts
  <2>4. Len(members) \in Nat /\ \A i \in 1 .. Len(members) : members[i] \in Values(g)
    BY <2>1
  <2>5. \A i \in 1 .. Len(members) : \A x \in W : f[members[i]][x] \in W
    BY <2>4
  <2> HIDE DEF W, members
  <2>6. walked \in W
    <3> DEFINE n == Len(members)
           x == Enter(w, v)
    <3>1. x \in W /\ n \in Nat
      BY <2>3, <2>4
    <3> HIDE DEF x
    <3>2. Descents(f, members, W, x) # {}
      BY <2>4, <2>5, <3>1, CheckMembersUnfolds
    <3>3. n \in 0 .. n
      BY <3>1
    <3> QED
      BY <3>2, <3>3 DEF x, Descents
  <2> HIDE DEF walked
  <2>7. Leave(walked, v) \in W
    BY <2>1, <2>6, LeaveFacts DEF W
  <2> QED
    BY <2>2, <2>6, <2>7 DEF W
<1> QED
  BY <1>1, <1>2, <1>3

LEMMA CheckUnfolds ==
    ASSUME NEW g, IsGraph(g)
    PROVE  \E h : /\ h \in [0 .. MaxParameterDepth + 1 -> [Values(g) -> [Walks(g) -> Walks(g)]]]
                  /\ \A v \in Values(g) : \A w \in Walks(g) : h[0][v][w] = Throw(w)
                  /\ \A k \in 1 .. MaxParameterDepth + 1 : \A v \in Values(g) : \A w \in Walks(g) :
                        h[k][v][w] = CheckValue(h[k - 1], g, v, w)
                  /\ CheckParameterValue(g) = h[MaxParameterDepth + 1][Root][Fresh]
<1> DEFINE n == MaxParameterDepth + 1
           V == Values(g)
           W == Walks(g)
           S == [V -> [W -> W]]
           base == [v \in V |-> [w \in W |-> Throw(w)]]
           Do(f) == [v \in V |-> [w \in W |-> CheckValue(f, g, v, w)]]
           F == [k \in 1 .. n |-> [f \in S |-> Do(f)]]
           Body(f, k) ==
              [v \in V |-> [w \in W |-> IF k = 0 THEN Throw(w) ELSE CheckValue(f[k - 1], g, v, w)]]
           solution == CHOOSE f : f = [k \in 0 .. n |-> Body(f, k)]
<1>1. CheckParameterValue(g) = solution[n][Root][Fresh]
  BY DEF CheckParameterValue
<1>2. n \in Nat
  BY WireProtocolAssumption
<1>3. base \in S
  BY ThrowFacts
<1>4. \A f \in S : Do(f) \in S
  <2> SUFFICES ASSUME NEW f \in S PROVE Do(f) \in S
    OBVIOUS
  <2>1. \A v \in V : \A w \in W : CheckValue(f, g, v, w) \in W
    BY CheckValueType
  <2> HIDE DEF W, V
  <2> QED
    BY <2>1
<1>5. \A f : Body(f, 0) = base /\ \A k \in 1 .. n : Body(f, k) = Do(f[k - 1])
  OBVIOUS
<1> HIDE DEF n, S, base, Do, Body
<1>6. \A k \in 1 .. n : \A f \in S : F[k][f] = Do(f)
  OBVIOUS
<1> HIDE DEF F
<1>7. Iterations(n, S, base, F) # {}
  <2>1. \A k \in 1 .. n : \A f \in S : F[k][f] \in S
    BY <1>4, <1>6
  <2> QED
    BY <1>2, <1>3, <2>1, IterationExists
<1>8. PICK h \in [0 .. n -> S] : h[0] = base /\ \A k \in 1 .. n : h[k] = F[k][h[k - 1]]
  BY <1>7 DEF Iterations
<1>9. h = [k \in 0 .. n |-> Body(h, k)]
  <2>1. ASSUME NEW k \in 0 .. n PROVE h[k] = Body(h, k)
    <3>1. CASE k = 0
      BY <1>5, <1>8, <3>1
    <3>2. CASE k # 0
      <4>1. k \in 1 .. n /\ k - 1 \in 0 .. n
        BY <1>2, <3>2
      <4>2. h[k - 1] \in S
        BY <4>1
      <4> QED
        BY <1>5, <1>6, <1>8, <4>1, <4>2
    <3> QED
      BY <3>1, <3>2
  <2> QED
    BY <2>1
<1>10. solution = [k \in 0 .. n |-> Body(solution, k)]
  BY <1>9
<1> HIDE DEF solution
<1>11. \A k \in 0 .. n : solution[k] = Body(solution, k)
  BY <1>10
<1>12. solution[0] = base /\ \A k \in 1 .. n : solution[k] = Do(solution[k - 1])
  <2>1. 0 \in 0 .. n /\ \A k \in 1 .. n : k \in 0 .. n
    BY <1>2
  <2> QED
    BY <1>5, <1>11, <2>1
<1>13. \A k \in 0 .. n : solution[k] \in S
  <2> DEFINE D == {k \in 0 .. n : solution[k] \in S}
  <2>1. 0 \in D
    BY <1>2, <1>3, <1>12
  <2>2. ASSUME NEW k \in 0 .. n - 1, k \in D PROVE k + 1 \in D
    <3>1. k + 1 \in 1 .. n /\ k + 1 \in 0 .. n /\ (k + 1) - 1 = k
      BY <1>2
    <3>2. solution[k + 1] = Do(solution[k])
      BY <1>12, <3>1
    <3> QED
      BY <1>4, <2>2, <3>1, <3>2
  <2> HIDE DEF D
  <2>3. \A k \in 0 .. n : k \in D
    BY <1>2, <2>1, <2>2, Induction
  <2> QED
    BY <2>3 DEF D
<1>14. solution \in [0 .. n -> S]
  BY <1>10, <1>13
<1>15. \A v \in V : \A w \in W : solution[0][v][w] = Throw(w)
  BY <1>12 DEF base
<1>16. \A k \in 1 .. n : \A v \in V : \A w \in W : solution[k][v][w] = CheckValue(solution[k - 1], g, v, w)
  <2>1. \A f : \A v \in V : \A w \in W : Do(f)[v][w] = CheckValue(f, g, v, w)
    <3> HIDE DEF V, W
    <3> QED
      BY DEF Do
  <2> QED
    BY <1>12, <2>1
<1> QED
  BY <1>1, <1>14, <1>15, <1>16 DEF n, S

-----------------------------------------------------------------------------
(* What holds of every walk.                                               *)

Rejectable(g) == \E p \in Paths(g) : IsBad(p) \/ IsDeep(p)

(* The path by which the walk came to n is not too deep, nor are the members of n. *)
Shallow(g, q, n) ==
    /\ Last(q) = n /\ Len(q) - 1 <= MaxParameterDepth
    /\ g[n] # <<>> => Len(q) <= MaxParameterDepth

(* The members of an object in S are scalars or come before it in S. *)
Ranks(g, S, r, b) ==
    \A n \in S : /\ r[n] \in 0 .. b
                 /\ \A m \in ToSet(g[n]) : m = "scalar" \/ (m \in S /\ r[m] < r[n])

Sound(g, w) ==
    /\ w \in Walks(g) /\ IsInjective(w.entered)
    /\ ToSet(w.entered) = w.onPath \cup w.validated /\ w.onPath \cap w.validated = {}
    /\ \E r : \E b \in Nat : Ranks(g, w.validated, r, b)
    /\ \A n \in w.validated : \E q \in Paths(g) : Shallow(g, q, n)
    /\ w.thrown => Rejectable(g)

LEMMA FreshSound == ASSUME NEW g, IsGraph(g) PROVE Sound(g, Fresh) /\ ~Fresh.thrown
<1>1. Fresh \in Walks(g)
  <2>1. <<>> \in Seq(DOMAIN g)
    OBVIOUS
  <2> QED
    BY <2>1 DEF Fresh, Walks
<1>2. IsInjective(Fresh.entered) /\ ToSet(Fresh.entered) = {}
  BY DEF Fresh, IsInjective, ToSet
<1>3. Ranks(g, Fresh.validated, <<>>, 0)
  BY DEF Fresh, Ranks
<1> QED
  BY <1>1, <1>2, <1>3 DEF Sound, Fresh

LEMMA ThrowSound ==
    ASSUME NEW g, IsGraph(g), NEW w, Sound(g, w), Rejectable(g)
    PROVE  Sound(g, Throw(w)) /\ Throw(w).thrown
BY ThrowFacts DEF Sound

LEMMA AppendFacts ==
    ASSUME NEW S, NEW s \in Seq(S), NEW x \in S
    PROVE  /\ Append(s, x) \in Seq(S) /\ ToSet(Append(s, x)) = ToSet(s) \cup {x}
           /\ Len(s) \in Nat /\ Len(Append(s, x)) = Len(s) + 1
           /\ IsInjective(s) /\ x \notin ToSet(s) => IsInjective(Append(s, x))
<1> DEFINE n == Len(s)
           t == Append(s, x)
<1>1. n \in Nat /\ DOMAIN s = 1 .. n
  OBVIOUS
<1>2. t \in Seq(S) /\ Len(t) = n + 1 /\ DOMAIN t = 1 .. n + 1
  OBVIOUS
<1>3. (\A i \in 1 .. n : t[i] = s[i]) /\ t[n + 1] = x
  OBVIOUS
<1> HIDE DEF n, t
<1>4. \A i : i \in 1 .. n + 1 <=> i \in 1 .. n \/ i = n + 1
  BY <1>1
<1>5. n + 1 \notin 1 .. n
  BY <1>1
<1>6. ToSet(t) = ToSet(s) \cup {x}
  BY <1>1, <1>2, <1>3, <1>4 DEF ToSet
<1>7. ASSUME IsInjective(s), x \notin ToSet(s) PROVE IsInjective(t)
  <2>1. \A i \in 1 .. n : s[i] # x
    BY <1>1, <1>7 DEF ToSet
  <2>2. \A i, j \in 1 .. n : s[i] = s[j] => i = j
    BY <1>1, <1>7 DEF IsInjective
  <2>3. \A i, j \in 1 .. n + 1 : t[i] = t[j] => i = j
    BY <1>3, <1>4, <2>1, <2>2
  <2> QED
    BY <1>2, <2>3 DEF IsInjective
<1> QED
  BY <1>1, <1>2, <1>6, <1>7 DEF n, t

LEMMA EnterSound ==
    ASSUME NEW g, IsGraph(g), NEW w, Sound(g, w), NEW n \in DOMAIN g, n \notin w.onPath \cup w.validated
    PROVE  Sound(g, Enter(w, n))
<1> DEFINE x == Enter(w, n)
           s == w.entered
           D == DOMAIN g
<1>1. /\ x \in Walks(g) /\ x.thrown = w.thrown /\ x.onPath = w.onPath \cup {n}
      /\ x.validated = w.validated /\ x.entered = Append(s, n)
      /\ s \in Seq(D)
  <2>1. w \in Walks(g)
    BY DEF Sound
  <2>2. s \in Seq(D)
    BY <2>1, WalkFacts
  <2> QED
    BY <2>1, <2>2, EnterFacts
<1> HIDE DEF x
<1>2. ToSet(s) = w.onPath \cup w.validated /\ IsInjective(s)
  BY DEF Sound
<1> HIDE DEF s, D
<1>3. ToSet(x.entered) = ToSet(s) \cup {n} /\ IsInjective(x.entered)
  <2>1. n \in D /\ n \notin ToSet(s)
    BY <1>2 DEF D
  <2> QED
    BY <1>1, <1>2, <2>1, AppendFacts
<1>4. ToSet(x.entered) = x.onPath \cup x.validated /\ x.onPath \cap x.validated = {}
  BY <1>1, <1>2, <1>3 DEF Sound
<1> QED
  BY <1>1, <1>3, <1>4 DEF Sound, x

LEMMA LeaveSound ==
    ASSUME NEW g, IsGraph(g), NEW w, Sound(g, w), NEW n \in w.onPath,
           \A m \in ToSet(g[n]) : m = "scalar" \/ m \in w.validated,
           \E q \in Paths(g) : Shallow(g, q, n)
    PROVE  Sound(g, Leave(w, n))
<1> DEFINE x == Leave(w, n)
<1>1. w \in Walks(g) /\ n \in DOMAIN g
  BY WalkFacts DEF Sound
<1>2. /\ x \in Walks(g) /\ x.thrown = w.thrown /\ x.onPath = w.onPath \ {n}
      /\ x.validated = w.validated \cup {n} /\ x.entered = w.entered
  BY <1>1, LeaveFacts
<1> HIDE DEF x
<1>3. PICK r, b : b \in Nat /\ Ranks(g, w.validated, r, b)
  BY DEF Sound
<1> DEFINE S == w.validated
           T == S \cup {n}
           t == [k \in T |-> IF k = n THEN b + 1 ELSE r[k]]
<1>4. n \notin S
  BY DEF Sound
<1>5. \A k \in S : /\ t[k] = r[k] /\ r[k] \in 0 .. b
                   /\ \A m \in ToSet(g[k]) : m = "scalar" \/ (m \in S /\ r[m] < r[k])
  BY <1>3, <1>4 DEF Ranks
<1>6. t[n] = b + 1
  OBVIOUS
<1>7. \A k \in T : k = n \/ k \in S
  OBVIOUS
<1>8. \A m \in ToSet(g[n]) : m = "scalar" \/ m \in S
  OBVIOUS
<1> HIDE DEF t
<1>9. Ranks(g, T, t, b + 1)
  <2> SUFFICES ASSUME NEW k \in T
               PROVE  /\ t[k] \in 0 .. b + 1
                      /\ \A m \in ToSet(g[k]) : m = "scalar" \/ (m \in T /\ t[m] < t[k])
    BY DEF Ranks
  <2>1. CASE k = n
    <3>1. \A m \in S : t[m] \in 0 .. b
      BY <1>5
    <3>2. \A m \in S : t[m] < b + 1
      BY <1>3, <3>1
    <3>3. t[k] = b + 1 /\ b + 1 \in 0 .. b + 1
      BY <1>3, <1>6, <2>1
    <3> QED
      BY <1>8, <2>1, <3>2, <3>3
  <2>2. CASE k \in S
    <3>1. t[k] = r[k] /\ r[k] \in 0 .. b /\ r[k] \in 0 .. b + 1
      BY <1>3, <1>5, <2>2
    <3>2. \A m \in ToSet(g[k]) : m = "scalar" \/ (m \in S /\ r[m] < r[k])
      BY <1>5, <2>2
    <3>3. \A m \in S : t[m] = r[m]
      BY <1>5
    <3> QED
      BY <3>1, <3>2, <3>3
  <2> QED
    BY <1>7, <2>1, <2>2
<1>10. \E s : \E c \in Nat : Ranks(g, x.validated, s, c)
  <2>1. b + 1 \in Nat
    BY <1>3
  <2> QED
    BY <1>2, <1>9, <2>1
<1>11. x.onPath \cup x.validated = w.onPath \cup w.validated /\ x.onPath \cap x.validated = {}
  BY <1>2 DEF Sound
<1>12. \A k \in x.validated : \E q \in Paths(g) : Shallow(g, q, k)
  BY <1>2 DEF Sound
<1> HIDE DEF S, T
<1> QED
  BY <1>2, <1>10, <1>11, <1>12 DEF Sound, x

-----------------------------------------------------------------------------
(* One call of the walk.                                                   *)

(* q is the path of the ancestors of the value. *)
Context(g, w, q, v) ==
    q \in Seq(DOMAIN g) /\ IsInjective(q) /\ ToSet(q) = w.onPath /\ IsPath(g, Append(q, v))

(* What a call for v makes of the walk w, if it does not throw. *)
Passed(w, v, x) ==
    ~x.thrown => /\ x.onPath = w.onPath /\ w.validated \subseteq x.validated
                 /\ v = "scalar" \/ v \in x.validated

(* What the calls at this depth make of a walk. *)
RightAt(g, f, depth) ==
    \A v \in Values(g) : \A w \in Walks(g) :
        /\ w.thrown => f[v][w] = w
        /\ depth > MaxParameterDepth => f[v][w].thrown
        /\ \A q : ~w.thrown /\ Sound(g, w) /\ Context(g, w, q, v) /\ Len(q) = depth =>
                    Sound(g, f[v][w]) /\ Passed(w, v, f[v][w])

LEMMA ContextFacts ==
    ASSUME NEW g, IsGraph(g), NEW w, NEW q, NEW v, Context(g, w, q, v)
    PROVE  /\ Append(q, v) \in Paths(g) /\ v \in Values(g) /\ Len(q) \in Nat
           /\ Len(Append(q, v)) = Len(q) + 1 /\ Last(Append(q, v)) = v
           /\ \A i \in 1 .. Len(q) : Append(q, v)[i] = q[i]
<1> DEFINE p == Append(q, v)
<1>1. q \in Seq(DOMAIN g) /\ IsInjective(q) /\ IsPath(g, p)
  BY DEF Context
<1>2. Len(q) \in Nat /\ Len(q) <= Cardinality(DOMAIN g)
  BY <1>1, SimplePaths
<1>3. Len(p) = Len(q) + 1 /\ p[Len(q) + 1] = v /\ \A i \in 1 .. Len(q) : p[i] = q[i]
  BY <1>1
<1>4. Last(p) = p[Len(p)] /\ Last(p) \in Values(g)
  BY <1>1, PathFacts
<1> HIDE DEF p
<1>5. p \in Paths(g)
  <2>1. Cardinality(DOMAIN g) \in Nat
    BY GraphFacts
  <2>2. Len(p) <= Cardinality(DOMAIN g) + 1
    BY <1>2, <1>3, <2>1
  <2> QED
    BY <1>1, <2>2, PathsAre
<1> QED
  BY <1>2, <1>3, <1>4, <1>5 DEF p

(* The path of a value that the code throws at is bad or too deep. *)
LEMMA ContextRejects ==
    ASSUME NEW g, IsGraph(g), NEW w, NEW q, NEW v, Context(g, w, q, v)
    PROVE  /\ v \in {"not JSON", "unsafe key"} \cup w.onPath => Rejectable(g)
           /\ Len(q) > MaxParameterDepth => Rejectable(g)
<1> DEFINE p == Append(q, v)
           n == Len(q)
<1>1. p \in Paths(g) /\ n \in Nat /\ Len(p) = n + 1 /\ Last(p) = v
  BY ContextFacts
<1>2. \A i \in 1 .. n : p[i] = q[i]
  BY ContextFacts
<1>3. q \in Seq(DOMAIN g) /\ ToSet(q) = w.onPath
  BY DEF Context
<1>4. DOMAIN p = 1 .. n + 1 /\ p[n + 1] = v
  <2>1. IsPath(g, p)
    BY DEF Context
  <2>2. DOMAIN p = 1 .. Len(p) /\ Last(p) = p[Len(p)]
    BY <2>1, PathFacts
  <2> HIDE DEF p, n
  <2> QED
    BY <1>1, <2>2
<1>5. v \in w.onPath => \E i \in 1 .. n : q[i] = v
  <2>1. \A s \in Seq(DOMAIN g) : DOMAIN s = 1 .. Len(s)
    OBVIOUS
  <2>2. DOMAIN q = 1 .. n
    BY <1>3, <2>1
  <2> HIDE DEF n
  <2> QED
    BY <1>3, <2>2 DEF ToSet
<1> HIDE DEF p, n
<1>6. \A i \in 1 .. n : i \in 1 .. n + 1 /\ n + 1 \in 1 .. n + 1 /\ i # n + 1
  BY ONLY <1>1
<1>7. v \in w.onPath => IsBad(p)
  BY <1>2, <1>4, <1>5, <1>6 DEF IsBad, Repeats
<1>8. v \in {"not JSON", "unsafe key"} => IsBad(p)
  BY <1>1 DEF IsBad
<1>9. n > MaxParameterDepth => IsDeep(p)
  <2>1. Len(p) - 1 = n
    BY ONLY <1>1
  <2> QED
    BY <2>1 DEF IsDeep
<1> QED
  BY <1>1, <1>7, <1>8, <1>9 DEF Rejectable, n

LEMMA ContextEnter ==
    ASSUME NEW g, IsGraph(g), NEW w \in Walks(g), NEW q, NEW v \in DOMAIN g, Context(g, w, q, v),
           v \notin w.onPath, NEW m \in ToSet(g[v]), NEW x, x.onPath = w.onPath \cup {v}
    PROVE  Context(g, x, Append(q, v), m)
<1> DEFINE p == Append(q, v)
           S == DOMAIN g
<1>1. q \in Seq(S) /\ IsInjective(q) /\ ToSet(q) = w.onPath /\ IsPath(g, p)
  BY DEF Context
<1>2. Last(p) = v
  BY ContextFacts
<1>3. v \notin Ends
  BY GraphFacts
<1>4. IsPath(g, Append(p, m))
  <2> HIDE DEF p
  <2> QED
    BY <1>1, <1>2, <1>3, PathAppend
<1>5. v \in S /\ v \notin ToSet(q)
  BY <1>1
<1> HIDE DEF S
<1>6. p \in Seq(S) /\ IsInjective(p) /\ ToSet(p) = ToSet(q) \cup {v}
  BY <1>1, <1>5, AppendFacts
<1> HIDE DEF p
<1> QED
  BY <1>1, <1>4, <1>6 DEF Context, p, S

(* The calls for the members. *)
LEMMA MembersRight ==
    ASSUME NEW g, IsGraph(g), NEW f \in [Values(g) -> [Walks(g) -> Walks(g)]], NEW depth \in Nat,
           RightAt(g, f, depth + 1), NEW v \in DOMAIN g, NEW w, Sound(g, w), ~w.thrown,
           v \notin w.onPath \cup w.validated, NEW q, Context(g, w, q, v), Len(q) = depth,
           NEW x, x = CheckMembers(f, g[v], Enter(w, v))
    PROVE  /\ Sound(g, x)
           /\ ~x.thrown => /\ x.onPath = w.onPath \cup {v} /\ w.validated \subseteq x.validated
                           /\ \A m \in ToSet(g[v]) : m = "scalar" \/ m \in x.validated
                           /\ g[v] # <<>> => depth + 1 <= MaxParameterDepth
<1> DEFINE W == Walks(g)
           members == g[v]
           n == Len(members)
           y == Enter(w, v)
           p == Append(q, v)
<1>1. w \in W
  BY DEF Sound
<1>2. /\ Sound(g, y) /\ y \in W /\ ~y.thrown
      /\ y.onPath = w.onPath \cup {v} /\ y.validated = w.validated
  <2>1. Sound(g, y)
    BY EnterSound
  <2> QED
    BY <1>1, <2>1, EnterFacts
<1>3. n \in Nat /\ DOMAIN members = 1 .. n /\ \A i \in 1 .. n : members[i] \in Values(g)
  BY GraphFacts
<1>4. \A i \in 1 .. n : members[i] \in ToSet(members)
  BY <1>3 DEF ToSet
<1>5. Len(p) = depth + 1
  BY ContextFacts
<1> HIDE DEF W, members, y
<1>6. Descents(f, members, W, y) # {}
  <2>1. \A i \in 1 .. Len(members) : \A z \in W : f[members[i]][z] \in W
    BY <1>3 DEF W
  <2>2. Len(members) \in Nat
    BY <1>3
  <2> QED
    BY <1>2, <2>1, <2>2, CheckMembersUnfolds
<1>7. PICK h \in [0 .. n -> W] :
        h[0] = y /\ (\A i \in 1 .. n : h[i] = f[members[i]][h[i - 1]]) /\ x = h[n]
  BY <1>6 DEF Descents, members, y
<1> HIDE DEF n, p
<1> DEFINE Good(i) ==
              /\ Sound(g, h[i])
              /\ ~h[i].thrown => /\ h[i].onPath = w.onPath \cup {v} /\ w.validated \subseteq h[i].validated
                                 /\ \A j \in 1 .. i : members[j] = "scalar" \/ members[j] \in h[i].validated
                                 /\ i # 0 => depth + 1 <= MaxParameterDepth
           D == {i \in 0 .. n : Good(i)}
<1>8. 0 \in D
  BY <1>2, <1>3, <1>7
<1>9. ASSUME NEW i \in 0 .. n - 1, i \in D PROVE i + 1 \in D
  <2> DEFINE a == h[i]
             b == h[i + 1]
             m == members[i + 1]
  <2>1. i + 1 \in 1 .. n /\ i + 1 \in 0 .. n /\ (i + 1) - 1 = i /\ i \in 0 .. n
    BY <1>3
  <2>2. b = f[m][a] /\ a \in W /\ m \in Values(g) /\ m \in ToSet(g[v])
    BY <1>3, <1>4, <1>7, <2>1 DEF members
  <2>3. Good(i)
    BY <1>9
  <2>4. /\ a.thrown => b = a
        /\ depth + 1 > MaxParameterDepth => b.thrown
        /\ \A s : ~a.thrown /\ Sound(g, a) /\ Context(g, a, s, m) /\ Len(s) = depth + 1 =>
                Sound(g, b) /\ Passed(a, m, b)
    BY <2>2 DEF RightAt, W
  <2>5. CASE a.thrown
    BY <2>1, <2>3, <2>4, <2>5
  <2>6. CASE ~a.thrown
    <3>1. a.onPath = w.onPath \cup {v}
      BY <2>3, <2>6
    <3>2. Context(g, a, p, m)
      <4> HIDE DEF a, b, m, Good, D
      <4> QED
        BY <1>1, <2>2, <3>1, ContextEnter DEF W, p
    <3>3. Sound(g, b) /\ Passed(a, m, b)
      BY <1>5, <2>3, <2>4, <2>6, <3>2
    <3>4. ASSUME ~b.thrown PROVE /\ b.onPath = a.onPath /\ a.validated \subseteq b.validated
                                 /\ m = "scalar" \/ m \in b.validated
                                 /\ depth + 1 <= MaxParameterDepth
      <4>1. ~(depth + 1 > MaxParameterDepth)
        BY <2>4, <3>4
      <4> QED
        BY <3>3, <3>4, <4>1, WireProtocolAssumption DEF Passed
    <3>5. \A j \in 1 .. i + 1 : j = i + 1 \/ j \in 1 .. i
      BY <2>1
    <3>6. Good(i + 1)
      BY <2>3, <2>6, <3>3, <3>4, <3>5
    <3> QED
      BY <2>1, <3>6
  <2> QED
    BY <2>5, <2>6
<1>10. Good(n)
  <2> HIDE DEF D
  <2>1. \A i \in 0 .. n : i \in D
    BY <1>3, <1>8, <1>9, Induction
  <2> QED
    BY <1>3, <2>1 DEF D
<1>11. g[v] # <<>> => n # 0
  BY <1>3, GraphFacts DEF members, n
<1>12. ToSet(g[v]) = {members[j] : j \in 1 .. n}
  BY <1>3 DEF ToSet, members
<1> QED
  BY <1>7, <1>10, <1>11, <1>12

(* One level too deep, every call throws. *)
LEMMA TooDeepRight ==
    ASSUME NEW g, IsGraph(g), NEW f,
           \A v \in Values(g) : \A w \in Walks(g) : f[v][w] = Throw(w)
    PROVE  RightAt(g, f, MaxParameterDepth + 1)
<1> SUFFICES ASSUME NEW v \in Values(g), NEW w \in Walks(g)
             PROVE  /\ w.thrown => f[v][w] = w
                    /\ f[v][w].thrown
                    /\ \A q : ~w.thrown /\ Sound(g, w) /\ Context(g, w, q, v)
                              /\ Len(q) = MaxParameterDepth + 1 =>
                                Sound(g, f[v][w]) /\ Passed(w, v, f[v][w])
  BY DEF RightAt
<1>1. f[v][w] = Throw(w)
  OBVIOUS
<1>2. (w.thrown => Throw(w) = w) /\ Throw(w).thrown
  BY ThrowFacts
<1>3. ASSUME NEW q, Sound(g, w), Context(g, w, q, v), Len(q) = MaxParameterDepth + 1
      PROVE  Sound(g, Throw(w))
  <2>1. Len(q) > MaxParameterDepth
    BY <1>3, WireProtocolAssumption
  <2>2. Rejectable(g)
    BY <1>3, <2>1, ContextRejects
  <2> QED
    BY <1>3, <2>2, ThrowSound
<1> QED
  BY <1>1, <1>2, <1>3 DEF Passed

LEMMA ValueRight ==
    ASSUME NEW g, IsGraph(g), NEW f \in [Values(g) -> [Walks(g) -> Walks(g)]],
           NEW depth \in Nat, depth <= MaxParameterDepth, RightAt(g, f, depth + 1), NEW e,
           \A v \in Values(g) : \A w \in Walks(g) : e[v][w] = CheckValue(f, g, v, w)
    PROVE  RightAt(g, e, depth)
<1> SUFFICES ASSUME NEW v \in Values(g), NEW w \in Walks(g)
             PROVE  /\ w.thrown => e[v][w] = w
                    /\ \A q : ~w.thrown /\ Sound(g, w) /\ Context(g, w, q, v) /\ Len(q) = depth =>
                                Sound(g, e[v][w]) /\ Passed(w, v, e[v][w])
  BY WireProtocolAssumption DEF RightAt
<1> DEFINE z == CheckValue(f, g, v, w)
           walked == CheckMembers(f, g[v], Enter(w, v))
<1>1. e[v][w] = z
  OBVIOUS
<1>2. CASE w.thrown
  <2>1. z = w
    BY <1>2 DEF CheckValue
  <2> QED
    BY <1>1, <1>2, <2>1
<1>3. ASSUME ~w.thrown, NEW q, Sound(g, w), Context(g, w, q, v), Len(q) = depth
      PROVE  Sound(g, z) /\ Passed(w, v, z)
  <2>1. CASE v = "scalar" \/ v \in w.validated \ w.onPath
    <3>1. z = w
      <4>1. v \notin {"not JSON", "unsafe key"} \cup w.onPath
        BY <2>1, WalkFacts, GraphFacts DEF Ends
      <4> QED
        BY <2>1, <4>1 DEF CheckValue
    <3> QED
      BY <1>3, <2>1, <3>1 DEF Passed
  <2>2. CASE v \in {"not JSON", "unsafe key"} \cup w.onPath
    <3>1. z = Throw(w)
      <4>1. ~(w.thrown \/ v = "scalar" \/ v \in w.validated \ w.onPath)
        BY <1>3, <2>2, WalkFacts, GraphFacts DEF Ends
      <4> QED
        BY <1>3, <2>2, <4>1 DEF CheckValue
    <3>2. Rejectable(g)
      BY <1>3, <2>2, ContextRejects
    <3>3. Sound(g, Throw(w)) /\ Throw(w).thrown
      BY <1>3, <3>2, ThrowSound
    <3> QED
      BY <3>1, <3>3 DEF Passed
  <2>3. CASE /\ v # "scalar" /\ v \notin w.validated \ w.onPath
             /\ v \notin {"not JSON", "unsafe key"} \cup w.onPath
    <3>1. v \in DOMAIN g /\ v \notin w.onPath \cup w.validated /\ v \notin w.onPath
      BY <2>3, GraphFacts DEF Ends
    <3>2. z = IF walked.thrown THEN walked ELSE Leave(walked, v)
      BY <1>3, <2>3 DEF CheckValue
    <3>3. /\ Sound(g, walked)
          /\ ~walked.thrown =>
                /\ walked.onPath = w.onPath \cup {v} /\ w.validated \subseteq walked.validated
                /\ \A m \in ToSet(g[v]) : m = "scalar" \/ m \in walked.validated
                /\ g[v] # <<>> => depth + 1 <= MaxParameterDepth
      BY <1>3, <3>1, MembersRight
    <3> HIDE DEF z, walked
    <3>4. CASE walked.thrown
      BY <3>2, <3>3, <3>4 DEF Passed
    <3>5. CASE ~walked.thrown
      <4> DEFINE p == Append(q, v)
                 x == Leave(walked, v)
      <4>1. p \in Paths(g) /\ Last(p) = v /\ Len(p) = depth + 1
        BY <1>3, ContextFacts
      <4> HIDE DEF p
      <4>2. Len(p) - 1 <= MaxParameterDepth /\ (g[v] # <<>> => Len(p) <= MaxParameterDepth)
        BY <3>3, <3>5, <4>1
      <4>3. \E s \in Paths(g) : Shallow(g, s, v)
        BY <4>1, <4>2 DEF Shallow
      <4>4. v \in walked.onPath /\ \A m \in ToSet(g[v]) : m = "scalar" \/ m \in walked.validated
        BY <3>3, <3>5
      <4>5. Sound(g, x)
        BY <3>3, <4>3, <4>4, LeaveSound
      <4>6. /\ x.onPath = walked.onPath \ {v} /\ x.validated = walked.validated \cup {v}
        <5>1. walked \in Walks(g)
          BY <3>3 DEF Sound
        <5> QED
          BY <3>1, <5>1, LeaveFacts
      <4> HIDE DEF x
      <4>7. x.onPath = w.onPath /\ w.validated \subseteq x.validated /\ v \in x.validated
        BY <3>1, <3>3, <3>5, <4>6
      <4>8. z = x
        BY <3>2, <3>5 DEF x
      <4> QED
        BY <4>5, <4>7, <4>8 DEF Passed
    <3> QED
      BY <3>4, <3>5
  <2> QED
    BY <2>1, <2>2, <2>3
<1> QED
  BY <1>1, <1>2, <1>3

LEMMA WalkSound ==
    ASSUME NEW g, IsGraph(g)
    PROVE  /\ Sound(g, CheckParameterValue(g))
           /\ ~CheckParameterValue(g).thrown =>
                 CheckParameterValue(g).onPath = {} /\ Root \in CheckParameterValue(g).validated
<1> DEFINE n == MaxParameterDepth + 1
           V == Values(g)
           W == Walks(g)
           walk == CheckParameterValue(g)
<1>1. PICK h : /\ h \in [0 .. n -> [V -> [W -> W]]]
               /\ \A v \in V : \A w \in W : h[0][v][w] = Throw(w)
               /\ \A k \in 1 .. n : \A v \in V : \A w \in W : h[k][v][w] = CheckValue(h[k - 1], g, v, w)
               /\ walk = h[n][Root][Fresh]
  BY CheckUnfolds
<1>2. n \in Nat /\ MaxParameterDepth \in Nat /\ n = MaxParameterDepth + 1
  BY WireProtocolAssumption
<1> HIDE DEF n, V, W, walk
<1> DEFINE D == {k \in 0 .. n : RightAt(g, h[k], n - k)}
<1>3. 0 \in D
  <2>1. RightAt(g, h[0], MaxParameterDepth + 1)
    BY <1>1, TooDeepRight DEF V, W
  <2>2. n - 0 = MaxParameterDepth + 1
    BY <1>2
  <2> QED
    BY <1>2, <2>1, <2>2
<1>4. ASSUME NEW k \in 0 .. n - 1, k \in D PROVE k + 1 \in D
  <2> DEFINE depth == n - (k + 1)
             j == k + 1
  <2>1. /\ depth \in Nat /\ depth <= MaxParameterDepth /\ depth + 1 = n - k
        /\ j \in 1 .. n /\ j \in 0 .. n /\ j - 1 = k /\ k \in 0 .. n
    BY <1>2
  <2>2. RightAt(g, h[k], depth + 1)
    BY <1>4, <2>1
  <2>3. h[k] \in [V -> [W -> W]]
    BY <1>1, <2>1
  <2>4. \A v \in V : \A w \in W : h[j][v][w] = CheckValue(h[k], g, v, w)
    BY <1>1, <2>1
  <2> HIDE DEF depth, j
  <2>5. RightAt(g, h[j], depth)
    BY <2>1, <2>2, <2>3, <2>4, ValueRight DEF V, W
  <2> QED
    BY <2>1, <2>5 DEF depth, j
<1>5. RightAt(g, h[n], 0)
  <2> HIDE DEF D
  <2>1. \A k \in 0 .. n : k \in D
    BY <1>2, <1>3, <1>4, Induction
  <2>2. n \in 0 .. n /\ n - n = 0
    BY <1>2
  <2> QED
    BY <2>1, <2>2 DEF D
<1>6. Sound(g, Fresh) /\ ~Fresh.thrown /\ Fresh.onPath = {} /\ Fresh \in W
  BY FreshSound DEF Fresh, Sound, W
<1>7. Context(g, Fresh, <<>>, Root) /\ Len(<<>>) = 0
  <2> DEFINE s == <<>>
  <2>1. s \in Seq(DOMAIN g) /\ IsInjective(s) /\ ToSet(s) = {} /\ Len(s) = 0
    BY DEF IsInjective, ToSet
  <2>2. Append(s, Root) = <<Root>>
    OBVIOUS
  <2>3. Root \in Values(g)
    BY GraphFacts
  <2>4. <<Root>> \in Seq(Values(g)) /\ <<Root>> # <<>> /\ <<Root>>[1] = Root /\ Len(<<Root>>) = 1
    BY <2>3
  <2>5. IsPath(g, <<Root>>)
    BY <2>4 DEF IsPath
  <2> QED
    BY <1>6, <2>1, <2>2, <2>5 DEF Context
<1>8. Root \in V /\ Root # "scalar"
  BY GraphFacts DEF V, Ends
<1>9. Sound(g, walk) /\ Passed(Fresh, Root, walk)
  <2>1. \A q : ~Fresh.thrown /\ Sound(g, Fresh) /\ Context(g, Fresh, q, Root) /\ Len(q) = 0 =>
                Sound(g, walk) /\ Passed(Fresh, Root, walk)
    BY <1>1, <1>5, <1>6, <1>8 DEF RightAt, V, W
  <2> QED
    BY <1>6, <1>7, <2>1
<1> QED
  BY <1>6, <1>8, <1>9 DEF Passed, walk

-----------------------------------------------------------------------------
(* What the walk has let through.                                          *)

LEMMA Decreasing ==
    ASSUME NEW n \in Nat, NEW f, \A i \in 1 .. n : f[i] \in Nat, \A i \in 1 .. n - 1 : f[i + 1] < f[i]
    PROVE  \A i, j \in 1 .. n : i < j => f[j] < f[i]
<1> DEFINE D == {k \in 0 .. n : \A i \in 1 .. n : i < k => f[k] < f[i]}
<1>1. 0 \in D
  OBVIOUS
<1>2. ASSUME NEW k \in 0 .. n - 1, k \in D PROVE k + 1 \in D
  <2> DEFINE j == k + 1
  <2>1. j \in 1 .. n /\ j \in 0 .. n /\ k \in 0 .. n
    OBVIOUS
  <2> SUFFICES ASSUME NEW i \in 1 .. n, i < j PROVE f[j] < f[i]
    BY <2>1
  <2>2. k \in 1 .. n - 1 /\ k \in 1 .. n /\ (i = k \/ i < k)
    BY <2>1
  <2>3. f[j] < f[k] /\ f[j] \in Nat /\ f[k] \in Nat /\ f[i] \in Nat
    BY <2>1, <2>2
  <2>4. i < k => f[k] < f[i]
    BY <1>2
  <2> HIDE DEF j, D
  <2> QED
    BY <2>2, <2>3, <2>4
<1> HIDE DEF D
<1>3. \A k \in 0 .. n : k \in D
  BY <1>1, <1>2, Induction
<1> QED
  BY <1>3 DEF D

(* On every path, the objects come later in the order the closer they are to the root. *)
LEMMA PathsDescend ==
    ASSUME NEW g, IsGraph(g), NEW S \in SUBSET DOMAIN g, Root \in S,
           NEW r, NEW b \in Nat, Ranks(g, S, r, b), NEW p, IsPath(g, p)
    PROVE  ~Repeats(p) /\ Last(p) \in S \cup {"scalar"}
<1> DEFINE n == Len(p)
<1>1. n \in Nat \ {0} /\ DOMAIN p = 1 .. n /\ Last(p) = p[n]
  BY PathFacts
<1>2. p[1] = Root /\ \A i \in 1 .. n - 1 : p[i] \notin Ends /\ p[i + 1] \in ToSet(g[p[i]])
  BY DEF IsPath
<1> HIDE DEF n
<1>3. \A m \in S : r[m] \in 0 .. b /\ \A k \in ToSet(g[m]) : k = "scalar" \/ (k \in S /\ r[k] < r[m])
  BY DEF Ranks
<1>4. "scalar" \in Ends /\ "scalar" \notin S
  BY GraphFacts DEF Ends
<1> DEFINE D == {k \in 0 .. n - 1 : p[k + 1] \in S \cup {"scalar"}}
<1>5. 0 \in D
  BY <1>1, <1>2
<1>6. ASSUME NEW k \in 0 .. (n - 1) - 1, k \in D PROVE k + 1 \in D
  <2> DEFINE j == k + 1
  <2>1. j \in 1 .. n - 1 /\ j \in 0 .. n - 1
    BY <1>1
  <2>2. p[j] \in S \cup {"scalar"}
    BY <1>6
  <2> HIDE DEF j
  <2>3. p[j] \in S
    BY <1>2, <1>4, <2>1, <2>2
  <2>4. p[j + 1] \in S \cup {"scalar"}
    BY <1>2, <1>3, <2>1, <2>3
  <2> QED
    BY <2>1, <2>4 DEF j
<1>7. \A i \in 1 .. n : p[i] \in S \cup {"scalar"}
  <2> HIDE DEF D
  <2> DEFINE a == n - 1
  <2>1. a \in Nat
    BY <1>1
  <2>2. \A k \in 0 .. a - 1 : k \in D => k + 1 \in D
    BY <1>6
  <2> HIDE DEF a
  <2>3. \A k \in 0 .. a : k \in D
    BY <1>5, <2>1, <2>2, Induction
  <2> SUFFICES ASSUME NEW i \in 1 .. n PROVE p[i] \in S \cup {"scalar"}
    OBVIOUS
  <2>4. i - 1 \in 0 .. a /\ (i - 1) + 1 = i
    BY <1>1 DEF a
  <2>5. i - 1 \in D
    BY <2>3, <2>4
  <2> QED
    BY <2>4, <2>5 DEF D
<1> HIDE DEF D
<1> DEFINE f == [i \in 1 .. n |-> IF p[i] = "scalar" THEN 0 ELSE r[p[i]] + 1]
<1>8. \A i \in 1 .. n : f[i] \in Nat
  BY <1>3, <1>7
<1>9. \A i \in 1 .. n - 1 : f[i + 1] < f[i]
  <2> SUFFICES ASSUME NEW i \in 1 .. n - 1 PROVE f[i + 1] < f[i]
    OBVIOUS
  <2> DEFINE j == i + 1
  <2>1. i \in 1 .. n /\ j \in 1 .. n
    BY <1>1
  <2>2. p[i] \in S /\ p[j] \in ToSet(g[p[i]])
    BY <1>2, <1>4, <1>7, <2>1
  <2>3. p[j] = "scalar" \/ (p[j] \in S /\ r[p[j]] < r[p[i]])
    BY <1>3, <2>2
  <2>4. f[i] = r[p[i]] + 1 /\ r[p[i]] \in Nat
    BY <1>3, <1>4, <2>1, <2>2
  <2>5. CASE p[j] = "scalar"
    BY <2>1, <2>4, <2>5
  <2>6. CASE p[j] \in S /\ r[p[j]] < r[p[i]]
    <3>1. f[j] = r[p[j]] + 1 /\ r[p[j]] \in Nat
      BY <1>3, <1>4, <2>1, <2>6
    <3> HIDE DEF f, j
    <3>2. f[j] < f[i]
      BY <2>4, <2>6, <3>1
    <3> QED
      BY <3>2 DEF j
  <2> QED
    BY <2>3, <2>5, <2>6
<1>10. \A i, j \in 1 .. n : i < j => f[j] < f[i]
  <2> HIDE DEF f
  <2>1. n \in Nat
    BY <1>1
  <2> QED
    BY <1>8, <1>9, <2>1, Decreasing
<1>11. \A i, j \in 1 .. n : p[i] = p[j] => f[i] = f[j]
  OBVIOUS
<1> HIDE DEF f
<1>12. \A i, j \in 1 .. n : i # j => p[i] # p[j]
  <2> SUFFICES ASSUME NEW i \in 1 .. n, NEW j \in 1 .. n, i # j, p[i] = p[j] PROVE FALSE
    OBVIOUS
  <2>1. f[i] = f[j] /\ f[i] \in Nat /\ f[j] \in Nat
    BY <1>8, <1>11
  <2>2. i < j \/ j < i
    BY <1>1
  <2> QED
    BY <1>10, <2>1, <2>2
<1>13. n \in 1 .. n
  BY <1>1
<1> QED
  BY <1>1, <1>7, <1>12, <1>13 DEF Repeats

LEMMA WalkedPassable ==
    ASSUME NEW g, IsGraph(g), NEW w, Sound(g, w), Root \in w.validated
    PROVE  Passable(g)
<1> DEFINE S == w.validated
<1>1. S \in SUBSET DOMAIN g /\ \A n \in S : n \notin Ends
  BY WalkFacts, GraphFacts DEF Sound
<1>2. PICK r, b : b \in Nat /\ Ranks(g, S, r, b)
  BY DEF Sound
<1>3. \A n \in S : \E q \in Paths(g) : Shallow(g, q, n)
  BY DEF Sound
<1> HIDE DEF S
<1>4. ASSUME NEW p, IsPath(g, p) PROVE ~Repeats(p) /\ Last(p) \in S \cup {"scalar"}
  <2>1. Root \in S
    BY DEF S
  <2> QED
    BY <1>1, <1>2, <1>4, <2>1, PathsDescend
<1>5. "not JSON" \in Ends /\ "unsafe key" \in Ends
  BY DEF Ends
<1> SUFFICES ASSUME NEW p \in Paths(g)
             PROVE  ~IsBad(p) /\ (IsTree(g) => ~IsDeep(p))
  BY DEF Passable
<1>6. IsPath(g, p) /\ Len(p) <= Cardinality(DOMAIN g) + 1
  BY PathsAre
<1>7. ~IsBad(p)
  BY <1>1, <1>4, <1>5, <1>6 DEF IsBad
<1>8. ASSUME IsTree(g) PROVE ~IsDeep(p)
  <2>1. ASSUME NEW q \in Paths(g), Last(q) \notin Ends
        PROVE  Shallow(g, q, Last(q))
    <3>1. IsPath(g, q)
      BY PathsAre
    <3>2. Last(q) \in S
      BY <1>4, <2>1, <3>1 DEF Ends
    <3>3. PICK s \in Paths(g) : Shallow(g, s, Last(q))
      BY <1>3, <3>2
    <3>4. Last(s) = Last(q)
      BY <3>3 DEF Shallow
    <3>5. s = q
      BY <1>8, <2>1, <3>4 DEF IsTree
    <3> QED
      BY <3>3, <3>5
  <2>2. Len(p) \in Nat \ {0} /\ MaxParameterDepth \in Nat
    BY <1>6, PathFacts, WireProtocolAssumption
  <2>3. CASE Last(p) \notin Ends
    <3>1. Len(p) - 1 <= MaxParameterDepth
      BY <2>1, <2>3 DEF Shallow
    <3> QED
      BY <2>2, <3>1 DEF IsDeep
  <2>4. CASE Last(p) \in Ends
    <3>1. Len(p) > 1
      <4> SUFFICES ASSUME Len(p) <= 1 PROVE FALSE
        BY <2>2
      <4>1. p = <<Root>>
        BY <1>6, ShortPath
      <4>2. Last(p) = Root
        BY <4>1 DEF Last
      <4> QED
        BY <2>4, <4>2, GraphFacts
    <3>2. PICK q : /\ IsPath(g, q) /\ Len(q) = Len(p) - 1
                   /\ Last(q) \notin Ends /\ Last(p) \in ToSet(g[Last(q)])
      BY <1>6, <3>1, PathFront
    <3>3. q \in Paths(g)
      <4>1. Cardinality(DOMAIN g) \in Nat
        BY GraphFacts
      <4>2. Len(q) <= Cardinality(DOMAIN g) + 1
        BY <1>6, <2>2, <3>2, <4>1
      <4> QED
        BY <3>2, <4>2, PathsAre
    <3>4. g[Last(q)] # <<>>
      <4>1. ToSet(<<>>) = {}
        BY DEF ToSet
      <4> QED
        BY <3>2, <4>1
    <3>5. Len(q) <= MaxParameterDepth
      BY <2>1, <3>2, <3>3, <3>4 DEF Shallow
    <3> QED
      BY <2>2, <3>2, <3>5 DEF IsDeep
  <2> QED
    BY <2>3, <2>4
<1> QED
  BY <1>7, <1>8

(* The walk is right about every graph. *)
LEMMA NoneMisjudged == Misjudged = {}
<1> SUFFICES ASSUME NEW g \in Graphs, NEW walk, walk = CheckParameterValue(g)
             PROVE  /\ ~(walk.thrown /\ \A p \in Paths(g) : ~IsBad(p) /\ ~IsDeep(p))
                    /\ ~(~walk.thrown /\ ~Passable(g))
                    /\ IsInjective(walk.entered)
  BY DEF Misjudged
<1>1. IsGraph(g)
  BY WireProtocolAssumption
<1>2. Sound(g, walk) /\ (~walk.thrown => Root \in walk.validated)
  BY <1>1, WalkSound
<1>3. walk.thrown => Rejectable(g)
  BY <1>2 DEF Sound
<1>4. ~walk.thrown => Passable(g)
  BY <1>1, <1>2, WalkedPassable
<1>5. IsInjective(walk.entered)
  BY <1>2 DEF Sound
<1> QED
  BY <1>3, <1>4, <1>5 DEF Rejectable

LEMMA AcceptedPassable ==
    ASSUME NEW g, IsGraph(g), ~CheckParameterValue(g).thrown
    PROVE  Passable(g)
BY WalkSound, WalkedPassable

(* Whatever the bodies and however the exchange goes, nothing is prepared or executed for *)
(* parameters that are not JSON; and on any finite graph of objects the walk is right: it *)
(* rejects nothing but bad or too deep values, lets nothing else through, and enters no   *)
(* object twice, shared ones included (protocol.ts:145-231).                              *)
THEOREM ParametersAreSound == Spec => []ParametersAreChecked
<1>1. ASSUME IInv, NEW r \in Requests, server[r] \in {"preparing", "executing"},
             Bodies[asked[r].body].parameters = "object"
      PROVE  Passable(Bodies[asked[r].body].graph)
  <2> DEFINE body == Bodies[asked[r].body]
  <2>1. asked[r].body \in DOMAIN Bodies /\ ParseExecuteRequest(body)
    BY <1>1 DEF IInv, Handled, IsRequest, ParsedRequests
  <2>2. ~CheckParameterValue(body.graph).thrown
    BY <1>1, <2>1 DEF ParseExecuteRequest
  <2>3. IsGraph(body.graph)
    BY <1>1, <2>1, HttpExchangeAssumption
  <2> QED
    BY <2>2, <2>3, AcceptedPassable
<1>2. IInv => ParametersAreChecked
  BY <1>1, NoneMisjudged DEF ParametersAreChecked
<1> QED
  BY <1>2, Invariance, PTL
=============================================================================
