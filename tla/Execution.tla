------------------------------ MODULE Execution ------------------------------
(***************************************************************************)
(* One execution of a prepared resource: executePrepared and withTimeout   *)
(* (packages/core/src/internal/execute.ts) with runPolicies, check,        *)
(* readDecision and readThrow (policy.ts).                                 *)
(*                                                                         *)
(* An action is the code between two points where something else can run:  *)
(* an await, or a hooks.emit, whose handlers may call abort().  The caller *)
(* may abort and the query timer may fire between any two actions; the     *)
(* policies, the language, the source and the transforms settle whenever   *)
(* and however they like, or never.                                        *)
(***************************************************************************)
EXTENDS Naturals, Sequences, FiniteSets

CONSTANTS
    Policies,      \* names of execution policies
    Transforms     \* how many transforms the plan has

ASSUME ExecutionAssumption == Transforms \in Nat

VARIABLES
    config,      \* what this execution was given: a query, a signal, a timeout
    registry,    \* registries.policies, in registration order
    pc,          \* where executePrepared is
    policies,    \* its snapshot of the registry
    next,        \* index of the policy being checked, or of the transform
    answer,      \* what check's race has settled with, "none" while it has not
    verdicts,    \* the verdict on each policy evaluated so far, in order
    allowed,     \* history: the positions of the policies that answered "allow"
    aborted,     \* the caller's signal is aborted
    timer,       \* the query timer
    scoped,      \* the signal of withTimeout's controller is aborted
    listeners,   \* abort listeners on the caller's signal: "forward", "onAbort"
    called,      \* history: source.execute has been called
    outcome      \* "pending", "resolved", or the class of the error thrown

signalVars == <<aborted, timer, scoped, listeners>>
policyVars == <<policies, next, answer, verdicts, allowed>>
vars == <<config, registry, pc, called, outcome, policyVars, signalVars>>

Configs == [query : BOOLEAN, signal : BOOLEAN, timeout : BOOLEAN]

(* What a policy can do: allow, deny, answer something malformed, or throw  *)
(* a denial, a denial whose issues are malformed, or any other error.       *)
PolicyAnswers == {"allow", "deny", "malformed", "throwsDenial", "throwsBadDenial", "throws"}

(* What a language, source or transform can do: succeed, throw a QSpecError,*)
(* an error named AbortError or TimeoutError, or any other error.           *)
PluginResults == {"ok", "throwsQSpec", "throwsAbortLike", "throws"}

AbortError == "QSpecAbortError"
Errors == {AbortError, "PluginRegistrationError", "ExecutionContextError",
           "ParameterValidationError", "QueryCompilationError", "ExecutionDeniedError",
           "ExecutionPolicyError", "QueryExecutionError", "DatasetValidationError",
           "TransformError", "QSpecError"}

(* A verdict is "allow" or the class of the error that ends the execution. *)
Verdicts == {"allow", "ExecutionDeniedError", "ExecutionPolicyError", AbortError}

(* Until the policies have allowed, after that (of which Asking is the part   *)
(* with the source), and when it has ended.                                *)
Guarding == {"ready", "validate", "validated", "compile", "compiled", "policy", "decided",
             "authorized"}
Opened == {"calling", "querying", "dataset", "transform", "transforming"}
Asking == {"calling", "querying"}
Locations == Guarding \cup Opened \cup {"done"}

TypeOK ==
    /\ config \in Configs
    /\ registry \in Seq(Policies)
    /\ pc \in Locations
    /\ policies \in Seq(Policies)
    /\ next \in Nat
    /\ answer \in PolicyAnswers \cup {"none", "aborted"}
    /\ verdicts \in Seq(Verdicts)
    /\ allowed \in SUBSET Nat
    /\ aborted \in BOOLEAN
    /\ timer \in {"off", "armed", "fired", "cleared"}
    /\ scoped \in BOOLEAN
    /\ listeners \in SUBSET {"forward", "onAbort"}
    /\ called \in BOOLEAN
    /\ outcome \in Errors \cup {"pending", "resolved"}

Init ==
    /\ config \in Configs
    /\ registry = <<>> /\ policies = <<>> /\ verdicts = <<>> /\ allowed = {}
    /\ pc = "ready" /\ next = 0 /\ answer = "none"
    /\ aborted = FALSE /\ timer = "off" /\ scoped = FALSE /\ listeners = {}
    /\ called = FALSE /\ outcome = "pending"

-----------------------------------------------------------------------------
(* The surroundings of the execution.                                      *)

(* Another plugin's setup registers a policy. *)
RegisterPolicy(p) ==
    /\ p \notin {registry[i] : i \in 1 .. Len(registry)}
    /\ registry' = Append(registry, p)
    /\ UNCHANGED <<config, pc, called, outcome, policyVars, signalVars>>

(* The caller aborts: each listener on its signal runs. *)
Abort ==
    /\ config.signal /\ ~aborted
    /\ aborted' = TRUE
    /\ scoped' = (scoped \/ "forward" \in listeners)
    /\ answer' = IF "onAbort" \in listeners /\ answer = "none" THEN "aborted" ELSE answer
    /\ listeners' = {}
    /\ UNCHANGED <<config, registry, pc, called, outcome, policies, next, verdicts, allowed, timer>>

(* Mutant: the timer fires and aborts nothing.                             *)
TimerFires_AbortsNothing ==
    /\ timer = "armed"
    /\ timer' = "fired"
    /\ UNCHANGED <<config, registry, pc, called, outcome, policyVars, aborted, scoped, listeners>>

TimerFires ==
    /\ timer = "armed"
    /\ timer' = "fired"
    /\ scoped' = TRUE
    /\ UNCHANGED <<config, registry, pc, called, outcome, policyVars, aborted, listeners>>

-----------------------------------------------------------------------------
(* executePrepared.                                                        *)

Throw(error) ==
    /\ pc' = "done"
    /\ outcome' = error

GoTo(location) ==
    /\ pc' = location
    /\ UNCHANGED outcome

(* throwIfAborted, and what the code does when it does not throw. *)
UnlessAborted(then) ==
    \/ aborted /\ Throw(AbortError) /\ UNCHANGED <<next, answer, listeners>>
    \/ ~aborted /\ then

(* await internals.ready(); the snapshot; freezeMetadata; throwIfAborted. *)
Enter(readyFails, badMetadata) ==
    /\ pc = "ready"
    /\ IF readyFails THEN policies' = policies ELSE policies' = registry
    /\ \/ readyFails /\ Throw("PluginRegistrationError")
       \/ ~readyFails /\ badMetadata /\ Throw("ExecutionContextError")
       \/ ~readyFails /\ ~badMetadata /\ aborted /\ Throw(AbortError)
       \/ ~readyFails /\ ~badMetadata /\ ~aborted /\ GoTo("validate")
    /\ UNCHANGED <<config, registry, called, next, answer, verdicts, allowed, signalVars>>

ValidateParameters(valid) ==
    /\ pc = "validate"
    /\ IF valid THEN GoTo("validated") ELSE Throw("ParameterValidationError")
    /\ UNCHANGED <<config, registry, called, policyVars, signalVars>>

(* Mutant: check() does not race the policy against the signal.            *)
StartCheck_NoRace(i) ==
    /\ next' = i /\ answer' = "none"
    /\ UNCHANGED listeners
    /\ GoTo("policy")

(* Await the answer of policy i, racing it against the caller's abort. *)
StartCheck(i) ==
    /\ next' = i
    /\ answer' = "none"
    /\ listeners' = IF config.signal THEN listeners \cup {"onAbort"} ELSE listeners
    /\ GoTo("policy")

Continue(location, i) ==
    /\ next' = i
    /\ GoTo(location)
    /\ UNCHANGED <<answer, listeners>>

(* Mutant: the policies are only asked about resources with a query.       *)
AfterParameters_QueryOnly ==
    /\ pc = "validated"
    /\ IF config.query THEN Continue("compile", next) ELSE Continue("transform", 1)
    /\ UNCHANGED <<config, registry, called, policies, verdicts, allowed, aborted, timer, scoped>>

(* Stage 4, or straight to the policies of a resource that has no query. *)
AfterParameters ==
    /\ pc = "validated"
    /\ \/ config.query /\ Continue("compile", next)
       \/ ~config.query /\ policies = <<>> /\ Continue("transform", 1)
       \/ ~config.query /\ policies # <<>> /\ UnlessAborted(StartCheck(1))
    /\ UNCHANGED <<config, registry, called, policies, verdicts, allowed, aborted, timer, scoped>>

CompileSettles(result) ==
    /\ pc = "compile"
    /\ \/ result = "ok" /\ GoTo("compiled")
       \/ result = "throwsQSpec" /\ Throw("QSpecError")
       \/ result \in {"throwsAbortLike", "throws"} /\ Throw("QueryCompilationError")
    /\ UNCHANGED <<config, registry, called, policyVars, signalVars>>

(* policyView, then the start of runPolicies; neither without a policy. *)
AfterCompile(viewFails) ==
    /\ pc = "compiled"
    /\ \/ policies = <<>> /\ Continue("authorized", next)
       \/ policies # <<>> /\ viewFails /\ Throw("QueryCompilationError")
          /\ UNCHANGED <<next, answer, listeners>>
       \/ policies # <<>> /\ ~viewFails /\ UnlessAborted(StartCheck(1))
    /\ UNCHANGED <<config, registry, called, policies, verdicts, allowed, aborted, timer, scoped>>

(* policy.check settles.  Once the race is decided this changes nothing. *)
PolicySettles(a) ==
    /\ pc = "policy" /\ answer = "none"
    /\ answer' = a
    /\ UNCHANGED <<config, registry, pc, called, outcome, policies, next, verdicts, allowed, signalVars>>

(* Mutants: a malformed answer allows; the error's name alone is an abort. *)
Verdict_FailOpen(a) ==
    IF a \in {"deny", "throwsDenial"} THEN "ExecutionDeniedError" ELSE "allow"

Verdict_TrustsName(a) ==
    CASE a = "allow" -> "allow"
      [] a = "throws" -> AbortError
      [] OTHER -> "ExecutionPolicyError"

(* readDecision and readThrow. *)
Verdict(a) ==
    CASE a = "allow" -> "allow"
      [] a \in {"deny", "throwsDenial"} -> "ExecutionDeniedError"
      [] a \in {"malformed", "throwsBadDenial"} -> "ExecutionPolicyError"
      [] a \in {"throws", "aborted"} -> IF aborted THEN AbortError ELSE "ExecutionPolicyError"

(* Mutant: check() leaves its abort listener behind.                       *)
Decide_KeepsListener ==
    /\ pc = "policy" /\ answer # "none"
    /\ verdicts' = Append(verdicts, Verdict(answer))
    /\ allowed' = IF answer = "allow" THEN allowed \cup {next} ELSE allowed
    /\ GoTo("decided")
    /\ UNCHANGED <<config, registry, called, policies, next, answer, signalVars>>

(* check's race resumes runPolicies, which emits policy:decision. *)
Decide ==
    /\ pc = "policy" /\ answer # "none"
    /\ verdicts' = Append(verdicts, Verdict(answer))
    /\ allowed' = IF answer = "allow" THEN allowed \cup {next} ELSE allowed
    /\ listeners' = listeners \ {"onAbort"}
    /\ GoTo("decided")
    /\ UNCHANGED <<config, registry, called, policies, next, answer, aborted, timer, scoped>>

(* Mutant: an abort that came meanwhile overrides the refusal.             *)
AfterDecision_AbortFirst ==
    /\ pc = "decided"
    /\ LET verdict == verdicts[Len(verdicts)] IN
       \/ aborted /\ Throw(AbortError) /\ UNCHANGED <<next, answer, listeners>>
       \/ ~aborted /\ verdict # "allow" /\ Throw(verdict) /\ UNCHANGED <<next, answer, listeners>>
       \/ ~aborted /\ verdict = "allow" /\ next < Len(policies) /\ StartCheck(next + 1)
       \/ ~aborted /\ verdict = "allow" /\ next = Len(policies) /\ Continue("authorized", next)
    /\ UNCHANGED <<config, registry, called, policies, verdicts, allowed, aborted, timer, scoped>>

(* The rest of that turn of runPolicies, up to the next check or its end. *)
AfterDecision ==
    /\ pc = "decided"
    /\ LET verdict == verdicts[Len(verdicts)] IN
       \/ verdict # "allow" /\ Throw(verdict) /\ UNCHANGED <<next, answer, listeners>>
       \/ verdict = "allow" /\ next < Len(policies) /\ UnlessAborted(StartCheck(next + 1))
       \/ verdict = "allow" /\ next = Len(policies)
          /\ UnlessAborted(Continue("authorized", next))
    /\ UNCHANGED <<config, registry, called, policies, verdicts, allowed, aborted, timer, scoped>>

(* Mutant: no check for an abort between the policies and the source.      *)
BeforeSource_Unchecked ==
    /\ pc = "authorized"
    /\ \/ ~config.query /\ Continue("transform", 1) /\ UNCHANGED timer
       \/ /\ config.query
          /\ timer' = IF config.timeout THEN "armed" ELSE "off"
          /\ listeners' = IF config.timeout /\ config.signal THEN {"forward"} ELSE {}
          /\ GoTo("calling")
          /\ UNCHANGED <<next, answer>>
    /\ UNCHANGED <<config, registry, called, policies, verdicts, allowed, aborted, scoped>>

(* throwIfAborted and withTimeout; without a query, on to the transforms. *)
BeforeSource ==
    /\ pc = "authorized"
    /\ \/ /\ ~config.query
          /\ Continue("transform", 1)
          /\ UNCHANGED timer
       \/ /\ config.query /\ aborted
          /\ Throw(AbortError)
          /\ UNCHANGED <<next, answer, listeners, timer>>
       \/ /\ config.query /\ ~aborted
          /\ timer' = IF config.timeout THEN "armed" ELSE "off"
          /\ listeners' = IF config.timeout /\ config.signal THEN {"forward"} ELSE {}
          /\ GoTo("calling")
          /\ UNCHANGED <<next, answer>>
    /\ UNCHANGED <<config, registry, called, policies, verdicts, allowed, aborted, scoped>>

CallSource ==
    /\ pc = "calling"
    /\ called' = TRUE
    /\ GoTo("querying")
    /\ UNCHANGED <<config, registry, policyVars, signalVars>>

(* The signal the source was given. *)
ScopedAborted == IF config.timeout THEN scoped ELSE aborted

(* Mutant: a plugin's own error reaches the caller as it is.               *)
Wrap_Raw(result, signalled, wrapper) == result

(* What asQueryError and the transform's catch make of a rejection. *)
Wrap(result, signalled, wrapper) ==
    CASE result = "throwsQSpec" -> "QSpecError"
      [] result = "throwsAbortLike" -> AbortError
      [] result = "throws" -> IF signalled THEN AbortError ELSE wrapper

(* Mutant: a result is taken whatever the signal says.                     *)
SourceSettles_TakesLate(result) ==
    /\ pc = "querying"
    /\ timer' = IF timer = "armed" THEN "cleared" ELSE timer
    /\ listeners' = listeners \ {"forward"}
    /\ \/ result # "ok" /\ Throw(Wrap(result, ScopedAborted, "QueryExecutionError"))
       \/ result = "ok" /\ GoTo("dataset")
    /\ UNCHANGED <<config, registry, called, policyVars, aborted, scoped>>

(* source.execute settles: dispose, map the error or check for an abort. *)
SourceSettles(result) ==
    /\ pc = "querying"
    /\ timer' = IF timer = "armed" THEN "cleared" ELSE timer
    /\ listeners' = listeners \ {"forward"}
    /\ \/ result # "ok" /\ Throw(Wrap(result, ScopedAborted, "QueryExecutionError"))
       \/ result = "ok" /\ ScopedAborted /\ Throw(AbortError)
       \/ result = "ok" /\ ~ScopedAborted /\ GoTo("dataset")
    /\ UNCHANGED <<config, registry, called, policyVars, aborted, scoped>>

ValidateDataset(valid) ==
    /\ pc = "dataset"
    /\ \/ valid /\ Continue("transform", 1)
       \/ ~valid /\ Throw("DatasetValidationError") /\ UNCHANGED <<next, answer, listeners>>
    /\ UNCHANGED <<config, registry, called, policies, verdicts, allowed, aborted, timer, scoped>>

(* The head of the transform loop, or the final check and the result.  A     *)
(* handler of execution:complete that aborts comes too late: nothing looks  *)
(* at the signal any more, so its abort counts as one after the end.        *)
TransformOrReturn ==
    /\ pc = "transform"
    /\ \/ aborted /\ Throw(AbortError)
       \/ ~aborted /\ next <= Transforms /\ GoTo("transforming")
       \/ ~aborted /\ next > Transforms /\ pc' = "done" /\ outcome' = "resolved"
    /\ UNCHANGED <<config, registry, called, policyVars, signalVars>>

TransformSettles(result) ==
    /\ pc = "transforming"
    /\ \/ result = "ok" /\ Continue("transform", next + 1)
       \/ /\ result # "ok"
          /\ Throw(Wrap(result, aborted, "TransformError"))
          /\ UNCHANGED <<next, answer, listeners>>
    /\ UNCHANGED <<config, registry, called, policies, verdicts, allowed, aborted, timer, scoped>>

-----------------------------------------------------------------------------
Compiling == \E result \in PluginResults : CompileSettles(result)
Querying == \E result \in PluginResults : SourceSettles(result)
Transforming == \E result \in PluginResults : TransformSettles(result)

(* What executePrepared does without waiting for a policy, the source or a  *)
(* transform: setups, compilation and validation settle by themselves.      *)
Internal ==
    \/ \E readyFails, badMetadata \in BOOLEAN : Enter(readyFails, badMetadata)
    \/ \E valid \in BOOLEAN : ValidateParameters(valid)
    \/ AfterParameters
    \/ Compiling
    \/ \E viewFails \in BOOLEAN : AfterCompile(viewFails)
    \/ Decide
    \/ AfterDecision
    \/ BeforeSource
    \/ CallSource
    \/ \E valid \in BOOLEAN : ValidateDataset(valid)
    \/ TransformOrReturn

Next ==
    \/ \E p \in Policies : RegisterPolicy(p)
    \/ Abort
    \/ TimerFires
    \/ Internal
    \/ \E a \in PolicyAnswers : PolicySettles(a)
    \/ Querying
    \/ Transforming

(* Jobs run and timers fire.  A source or a transform may hang, but one     *)
(* that is told to stop by its signal settles; a policy may hang for ever.  *)
Fairness ==
    /\ WF_vars(Internal)
    /\ WF_vars(TimerFires)
    /\ WF_vars(ScopedAborted /\ Querying)
    /\ WF_vars(aborted /\ Transforming)

SafetySpec == Init /\ [][Next]_vars
Spec == SafetySpec /\ Fairness

-----------------------------------------------------------------------------
(* Properties.                                                             *)

(* The source is called, and a result returned, only when every policy of   *)
(* the snapshot itself answered "allow": a denial, a malformed answer, a    *)
(* throw or a cancelled check never lets the execution through              *)
(* (policy.ts:119, policy.ts:224-225, execute.ts:156-158).                  *)
FailsClosed ==
    called \/ outcome = "resolved" => allowed = 1 .. Len(policies)

(* Policies are evaluated in registration order and nothing is evaluated    *)
(* after the first refusal, which is what the caller is told, even when it  *)
(* aborts in the meantime (policy.ts:223-232).                              *)
FirstRefusalDecides ==
    /\ Len(verdicts) <= Len(policies)
    /\ \A i \in 1 .. Len(verdicts) : verdicts[i] # "allow" =>
        i = Len(verdicts) /\ (pc = "decided" \/ outcome = verdicts[i])

(* An AbortError thrown by a policy's own backend is not taken for the      *)
(* caller's cancellation: policies end the execution with QSpecAbortError   *)
(* only when the caller aborted (policy.ts:158-162).                        *)
PolicyAbortMeansAborted ==
    AbortError \in {verdicts[i] : i \in 1 .. Len(verdicts)} => aborted

(* An execution whose caller has aborted, or whose time ran out, does not   *)
(* resolve any more, however its plugins behave: what a source delivers     *)
(* afterwards is discarded (execute.ts:211-213, execute.ts:285-288).        *)
CancelledNeverResolves ==
    [][(aborted \/ scoped) /\ outcome = "pending" => outcome' # "resolved"]_vars

(* When the execution has ended its timer is stopped and no abort listener  *)
(* of it is left on the caller's signal, whichever way it ended             *)
(* (execute.ts:47-53, execute.ts:206-208, policy.ts:218-220).               *)
NothingLeftBehind ==
    outcome # "pending" => timer # "armed" /\ listeners = {}

(* What is stopped ends: a policy that never settles cannot hold the         *)
(* execution past the caller's cancellation, nor a source that answers      *)
(* nothing until its signal aborts past the timeout (policy.ts:197-201,     *)
(* execute.ts:26-54).                                                       *)
StoppedEnds ==
    /\ aborted ~> outcome # "pending"
    /\ pc = "querying" /\ config.timeout ~> pc # "querying"

(* What the execution promises, with its details left out: the policies of  *)
(* the snapshot are the grants it needs.                                    *)
StageOf(location, result) ==
    CASE result = "resolved" -> "resolved"
      [] result \in Errors -> "rejected"
      [] result = "pending" /\ location = "ready" -> "new"
      [] result = "pending" /\ location \in Asking -> "asking"
      [] result = "pending" /\ location \in Opened \ Asking -> "open"
      [] result = "pending" /\ location \in Guarding \ {"ready"} -> "guarding"
Required == {policies[i] : i \in 1 .. Len(policies)}
Granted == {policies[i] : i \in allowed}

Promise == INSTANCE GuardedExecution WITH
    stage <- StageOf(pc, outcome),
    required <- Required,
    granted <- Granted,
    cancelled <- aborted \/ scoped

(* Every step of the execution is a step of the guarded execution, and a    *)
(* cancelled one is refused in the end.                                     *)
KeepsPromise == Promise!Spec
=============================================================================
