--------------------------- MODULE ExecutionProofs ---------------------------
(***************************************************************************)
(* What Execution promises, proved for every set of policies and every     *)
(* number of transforms.                                                   *)
(***************************************************************************)
EXTENDS Execution, TLAPS

(* TypeOK in parts: the provers do Booleans, sets and sequences apart. *)
Flags == aborted \in BOOLEAN /\ scoped \in BOOLEAN /\ called \in BOOLEAN
Lists == registry \in Seq(Policies) /\ policies \in Seq(Policies) /\ verdicts \in Seq(Verdicts)
Listeners == listeners \in SUBSET {"forward", "onAbort"}
Types ==
    /\ config \in Configs
    /\ pc \in Locations
    /\ next \in Nat
    /\ answer \in PolicyAnswers \cup {"none", "aborted"}
    /\ timer \in {"off", "armed", "fired", "cleared"}
    /\ outcome \in Errors \cup {"pending", "resolved"}

(* How far the evaluation of the policies has got, by location. *)
Progress ==
    /\ pc = "done" <=> outcome # "pending"
    /\ pc \in {"ready", "validate", "validated", "compile", "compiled"} => verdicts = <<>>
    /\ pc = "policy" => next \in 1 .. Len(policies) /\ Len(verdicts) = next - 1
    /\ pc = "decided" => next \in 1 .. Len(policies) /\ Len(verdicts) = next
    /\ pc \in {"authorized"} \cup Opened => Len(verdicts) = Len(policies)
    /\ Len(verdicts) <= Len(policies)

(* Only the last verdict can be a refusal, and then nothing is open. *)
Refusal ==
    \A i \in 1 .. Len(verdicts) : verdicts[i] # "allow" =>
        /\ i = Len(verdicts)
        /\ pc = "decided" \/ outcome = verdicts[i]

(* What is open, called or resolved has been allowed by every policy. *)
Permitted ==
    /\ called \/ outcome = "resolved" =>
        Len(verdicts) = Len(policies) /\ \A i \in 1 .. Len(verdicts) : verdicts[i] = "allow"
    /\ called => pc \in Opened \cup {"done"}

(* Where a listener or the timer can be in use, and the scoped signal be aborted. *)
Held ==
    /\ "onAbort" \in listeners => pc = "policy"
    /\ "forward" \in listeners => pc \in {"calling", "querying"} /\ config.timeout
    /\ timer = "armed" => pc \in {"calling", "querying"} /\ config.timeout
    /\ scoped => config.timeout
    /\ scoped => pc \in {"calling", "querying"} \/ (pc = "done" /\ outcome # "resolved")
    /\ pc \in {"calling", "querying"} /\ config.timeout =>
        /\ aborted => scoped
        /\ config.signal /\ ~aborted => "forward" \in listeners

(* An abort of the policies' is the caller's. *)
Attributed ==
    /\ answer = "aborted" => aborted
    /\ \A i \in 1 .. Len(verdicts) : verdicts[i] = AbortError => aborted

Located == Types /\ Flags /\ Lists /\ Listeners /\ Progress /\ Refusal /\ Permitted /\ Held /\ Attributed

(* A verdict allows exactly where the policy did. *)
Answered == allowed = {i \in 1 .. Len(verdicts) : verdicts[i] = "allow"}

IInv == Located /\ Answered

-----------------------------------------------------------------------------
LEMMA InitLocated == Init => Located
  <1> SUFFICES ASSUME Init PROVE Located
    OBVIOUS
  <1> USE DEF Init
  <1>1. Types
    BY DEF Types, Configs, PolicyAnswers, Errors, Locations, Guarding, Opened
  <1>2. Progress
    BY DEF Progress, Configs, PolicyAnswers, Errors, Locations, Guarding, Opened
  <1>3. Refusal
    BY DEF Refusal, Configs, PolicyAnswers, Errors, Locations, Guarding, Opened
  <1>4. Permitted
    BY DEF Permitted, Configs, PolicyAnswers, Errors, Locations, Guarding, Opened
  <1>5. Held
    BY DEF Held, Configs, PolicyAnswers, Errors, Locations, Guarding, Opened
  <1>6. Attributed
    BY DEF Attributed, Configs, PolicyAnswers, Errors, Locations, Guarding, Opened
  <1>7. Flags /\ Listeners
    BY DEF Flags, Listeners
  <1>8. Lists
    BY DEF Lists
  <1> QED
    BY <1>1, <1>2, <1>3, <1>4, <1>5, <1>6, <1>7, <1>8 DEF Located

LEMMA StepLocated == Located /\ [Next]_vars => Located'
  <1> SUFFICES ASSUME Located, [Next]_vars PROVE Located'
    OBVIOUS
  <1> USE ExecutionAssumption DEF Located, Types, Flags, Lists, Listeners, Progress, Refusal, Permitted, Held, Attributed,
          Configs, PolicyAnswers, Errors, Verdicts, AbortError, Locations, Guarding, Opened,
          policyVars, signalVars
  <1>1. ASSUME NEW p \in Policies, RegisterPolicy(p) PROVE Located'
    BY <1>1 DEF RegisterPolicy
  <1>2. ASSUME Abort PROVE Located'
    BY <1>2 DEF Abort
  <1>3. ASSUME TimerFires PROVE Located'
    BY <1>3 DEF TimerFires
  <1>4. ASSUME NEW rf \in BOOLEAN, NEW bm \in BOOLEAN, Enter(rf, bm) PROVE Located'
    BY <1>4 DEF Enter, Throw, GoTo
  <1>5. ASSUME NEW ok \in BOOLEAN, ValidateParameters(ok) PROVE Located'
    BY <1>5 DEF ValidateParameters, Throw, GoTo
  <1>6. ASSUME AfterParameters PROVE Located'
    <2>1. Types'
      BY <1>6 DEF AfterParameters, Throw, GoTo, Continue, UnlessAborted, StartCheck
    <2>7. Flags'
      BY <1>6 DEF AfterParameters, Throw, GoTo, Continue, UnlessAborted, StartCheck
    <2>8. Lists'
      BY <1>6 DEF AfterParameters, Throw, GoTo, Continue, UnlessAborted, StartCheck
    <2>9. Listeners'
      BY <1>6 DEF AfterParameters, Throw, GoTo, Continue, UnlessAborted, StartCheck
    <2>2. Progress'
      BY <1>6 DEF AfterParameters, Throw, GoTo, Continue, UnlessAborted, StartCheck
    <2>3. Refusal'
      BY <1>6 DEF AfterParameters, Throw, GoTo, Continue, UnlessAborted, StartCheck
    <2>4. Permitted'
      BY <1>6 DEF AfterParameters, Throw, GoTo, Continue, UnlessAborted, StartCheck
    <2>5. Held'
      BY <1>6 DEF AfterParameters, Throw, GoTo, Continue, UnlessAborted, StartCheck
    <2>6. Attributed'
      BY <1>6 DEF AfterParameters, Throw, GoTo, Continue, UnlessAborted, StartCheck
    <2> QED
      BY <2>1, <2>2, <2>3, <2>4, <2>5, <2>6, <2>7, <2>8, <2>9
  <1>7. ASSUME NEW r \in PluginResults, CompileSettles(r) PROVE Located'
    BY <1>7 DEF CompileSettles, Throw, GoTo, PluginResults
  <1>8. ASSUME NEW vf \in BOOLEAN, AfterCompile(vf) PROVE Located'
    <2>1. Types'
      BY <1>8 DEF AfterCompile, Throw, GoTo, Continue, UnlessAborted, StartCheck
    <2>7. Flags'
      BY <1>8 DEF AfterCompile, Throw, GoTo, Continue, UnlessAborted, StartCheck
    <2>8. Lists'
      BY <1>8 DEF AfterCompile, Throw, GoTo, Continue, UnlessAborted, StartCheck
    <2>9. Listeners'
      BY <1>8 DEF AfterCompile, Throw, GoTo, Continue, UnlessAborted, StartCheck
    <2>2. Progress'
      BY <1>8 DEF AfterCompile, Throw, GoTo, Continue, UnlessAborted, StartCheck
    <2>3. Refusal'
      BY <1>8 DEF AfterCompile, Throw, GoTo, Continue, UnlessAborted, StartCheck
    <2>4. Permitted'
      BY <1>8 DEF AfterCompile, Throw, GoTo, Continue, UnlessAborted, StartCheck
    <2>5. Held'
      BY <1>8 DEF AfterCompile, Throw, GoTo, Continue, UnlessAborted, StartCheck
    <2>6. Attributed'
      BY <1>8 DEF AfterCompile, Throw, GoTo, Continue, UnlessAborted, StartCheck
    <2> QED
      BY <2>1, <2>2, <2>3, <2>4, <2>5, <2>6, <2>7, <2>8, <2>9
  <1>9. ASSUME NEW a \in PolicyAnswers, PolicySettles(a) PROVE Located'
    BY <1>9 DEF PolicySettles
  <1>10. ASSUME Decide PROVE Located'
    <2>1. Types'
      BY <1>10 DEF Decide, GoTo, Verdict
    <2>7. Flags'
      BY <1>10 DEF Decide, GoTo, Verdict
    <2>8. Lists'
      BY <1>10 DEF Decide, GoTo, Verdict
    <2>9. Listeners'
      BY <1>10 DEF Decide, GoTo, Verdict
    <2>2. Progress'
      BY <1>10 DEF Decide, GoTo, Verdict
    <2>3. Refusal'
      BY <1>10 DEF Decide, GoTo, Verdict
    <2>4. Permitted'
      BY <1>10 DEF Decide, GoTo, Verdict
    <2>5. Held'
      BY <1>10 DEF Decide, GoTo, Verdict
    <2>6. Attributed'
      BY <1>10 DEF Decide, GoTo, Verdict
    <2> QED
      BY <2>1, <2>2, <2>3, <2>4, <2>5, <2>6, <2>7, <2>8, <2>9
  <1>11. ASSUME AfterDecision PROVE Located'
    <2>1. Types'
      BY <1>11 DEF AfterDecision, Throw, GoTo, Continue, UnlessAborted, StartCheck
    <2>7. Flags'
      BY <1>11 DEF AfterDecision, Throw, GoTo, Continue, UnlessAborted, StartCheck
    <2>8. Lists'
      BY <1>11 DEF AfterDecision, Throw, GoTo, Continue, UnlessAborted, StartCheck
    <2>9. Listeners'
      BY <1>11 DEF AfterDecision, Throw, GoTo, Continue, UnlessAborted, StartCheck
    <2>2. Progress'
      BY <1>11 DEF AfterDecision, Throw, GoTo, Continue, UnlessAborted, StartCheck
    <2>3. Refusal'
      BY <1>11 DEF AfterDecision, Throw, GoTo, Continue, UnlessAborted, StartCheck
    <2>4. Permitted'
      BY <1>11 DEF AfterDecision, Throw, GoTo, Continue, UnlessAborted, StartCheck
    <2>5. Held'
      BY <1>11 DEF AfterDecision, Throw, GoTo, Continue, UnlessAborted, StartCheck
    <2>6. Attributed'
      BY <1>11 DEF AfterDecision, Throw, GoTo, Continue, UnlessAborted, StartCheck
    <2> QED
      BY <2>1, <2>2, <2>3, <2>4, <2>5, <2>6, <2>7, <2>8, <2>9
  <1>12. ASSUME BeforeSource PROVE Located'
    <2>1. Types'
      BY <1>12 DEF BeforeSource, Throw, GoTo, Continue
    <2>7. Flags'
      BY <1>12 DEF BeforeSource, Throw, GoTo, Continue
    <2>8. Lists'
      BY <1>12 DEF BeforeSource, Throw, GoTo, Continue
    <2>9. Listeners'
      BY <1>12 DEF BeforeSource, Throw, GoTo, Continue
    <2>2. Progress'
      BY <1>12 DEF BeforeSource, Throw, GoTo, Continue
    <2>3. Refusal'
      BY <1>12 DEF BeforeSource, Throw, GoTo, Continue
    <2>4. Permitted'
      BY <1>12 DEF BeforeSource, Throw, GoTo, Continue
    <2>5. Held'
      BY <1>12 DEF BeforeSource, Throw, GoTo, Continue
    <2>6. Attributed'
      BY <1>12 DEF BeforeSource, Throw, GoTo, Continue
    <2> QED
      BY <2>1, <2>2, <2>3, <2>4, <2>5, <2>6, <2>7, <2>8, <2>9
  <1>13. ASSUME CallSource PROVE Located'
    BY <1>13 DEF CallSource, GoTo
  <1>14. ASSUME NEW r \in PluginResults, SourceSettles(r) PROVE Located'
    <2>1. Types'
      BY <1>14 DEF SourceSettles, Throw, GoTo, ScopedAborted, Wrap, PluginResults
    <2>7. Flags'
      BY <1>14 DEF SourceSettles, Throw, GoTo, ScopedAborted, Wrap, PluginResults
    <2>8. Lists'
      BY <1>14 DEF SourceSettles, Throw, GoTo, ScopedAborted, Wrap, PluginResults
    <2>9. Listeners'
      BY <1>14 DEF SourceSettles, Throw, GoTo, ScopedAborted, Wrap, PluginResults
    <2>2. Progress'
      BY <1>14 DEF SourceSettles, Throw, GoTo, ScopedAborted, Wrap, PluginResults
    <2>3. Refusal'
      BY <1>14 DEF SourceSettles, Throw, GoTo, ScopedAborted, Wrap, PluginResults
    <2>4. Permitted'
      BY <1>14 DEF SourceSettles, Throw, GoTo, ScopedAborted, Wrap, PluginResults
    <2>5. Held'
      BY <1>14 DEF SourceSettles, Throw, GoTo, ScopedAborted, Wrap, PluginResults
    <2>6. Attributed'
      BY <1>14 DEF SourceSettles, Throw, GoTo, ScopedAborted, Wrap, PluginResults
    <2> QED
      BY <2>1, <2>2, <2>3, <2>4, <2>5, <2>6, <2>7, <2>8, <2>9
  <1>15. ASSUME NEW ok \in BOOLEAN, ValidateDataset(ok) PROVE Located'
    <2>1. Types'
      BY <1>15 DEF ValidateDataset, Throw, GoTo, Continue
    <2>7. Flags'
      BY <1>15 DEF ValidateDataset, Throw, GoTo, Continue
    <2>8. Lists'
      BY <1>15 DEF ValidateDataset, Throw, GoTo, Continue
    <2>9. Listeners'
      BY <1>15 DEF ValidateDataset, Throw, GoTo, Continue
    <2>2. Progress'
      BY <1>15 DEF ValidateDataset, Throw, GoTo, Continue
    <2>3. Refusal'
      BY <1>15 DEF ValidateDataset, Throw, GoTo, Continue
    <2>4. Permitted'
      BY <1>15 DEF ValidateDataset, Throw, GoTo, Continue
    <2>5. Held'
      BY <1>15 DEF ValidateDataset, Throw, GoTo, Continue
    <2>6. Attributed'
      BY <1>15 DEF ValidateDataset, Throw, GoTo, Continue
    <2> QED
      BY <2>1, <2>2, <2>3, <2>4, <2>5, <2>6, <2>7, <2>8, <2>9
  <1>16. ASSUME TransformOrReturn PROVE Located'
    <2>1. Types'
      BY <1>16 DEF TransformOrReturn, Throw, GoTo
    <2>7. Flags'
      BY <1>16 DEF TransformOrReturn, Throw, GoTo
    <2>8. Lists'
      BY <1>16 DEF TransformOrReturn, Throw, GoTo
    <2>9. Listeners'
      BY <1>16 DEF TransformOrReturn, Throw, GoTo
    <2>2. Progress'
      BY <1>16 DEF TransformOrReturn, Throw, GoTo
    <2>3. Refusal'
      BY <1>16 DEF TransformOrReturn, Throw, GoTo
    <2>4. Permitted'
      BY <1>16 DEF TransformOrReturn, Throw, GoTo
    <2>5. Held'
      BY <1>16 DEF TransformOrReturn, Throw, GoTo
    <2>6. Attributed'
      BY <1>16 DEF TransformOrReturn, Throw, GoTo
    <2> QED
      BY <2>1, <2>2, <2>3, <2>4, <2>5, <2>6, <2>7, <2>8, <2>9
  <1>17. ASSUME NEW r \in PluginResults, TransformSettles(r) PROVE Located'
    <2>1. Types'
      BY <1>17 DEF TransformSettles, Throw, GoTo, Continue, Wrap, PluginResults
    <2>7. Flags'
      BY <1>17 DEF TransformSettles, Throw, GoTo, Continue, Wrap, PluginResults
    <2>8. Lists'
      BY <1>17 DEF TransformSettles, Throw, GoTo, Continue, Wrap, PluginResults
    <2>9. Listeners'
      BY <1>17 DEF TransformSettles, Throw, GoTo, Continue, Wrap, PluginResults
    <2>2. Progress'
      BY <1>17 DEF TransformSettles, Throw, GoTo, Continue, Wrap, PluginResults
    <2>3. Refusal'
      BY <1>17 DEF TransformSettles, Throw, GoTo, Continue, Wrap, PluginResults
    <2>4. Permitted'
      BY <1>17 DEF TransformSettles, Throw, GoTo, Continue, Wrap, PluginResults
    <2>5. Held'
      BY <1>17 DEF TransformSettles, Throw, GoTo, Continue, Wrap, PluginResults
    <2>6. Attributed'
      BY <1>17 DEF TransformSettles, Throw, GoTo, Continue, Wrap, PluginResults
    <2> QED
      BY <2>1, <2>2, <2>3, <2>4, <2>5, <2>6, <2>7, <2>8, <2>9
  <1>18. CASE UNCHANGED vars
    BY <1>18 DEF vars
  <1>19. QED
    BY <1>1, <1>2, <1>3, <1>4, <1>5, <1>6, <1>7, <1>8, <1>9, <1>10, <1>11, <1>12, <1>13, <1>14, <1>15, <1>16, <1>17, <1>18
       DEF Next, Internal, Compiling, Querying, Transforming

LEMMA LastVerdict == IInv /\ pc = "decided" => verdicts[Len(verdicts)] \in Verdicts
  BY DEF IInv, Located, Lists, Progress

LEMMA AuthorizedByAll ==
  IInv /\ pc = "authorized" => /\ Len(verdicts) = Len(policies)
                               /\ \A i \in 1 .. Len(verdicts) : verdicts[i] = "allow"
  <1> SUFFICES ASSUME IInv, pc = "authorized", NEW i \in 1 .. Len(verdicts)
               PROVE  Len(verdicts) = Len(policies) /\ verdicts[i] = "allow"
    BY DEF IInv, Located, Progress
  <1>1. verdicts[i] \in Verdicts
    BY DEF IInv, Located, Lists
  <1> QED
    BY <1>1 DEF IInv, Located, Progress, Refusal, Verdicts, AbortError

LEMMA InitIInv == Init => IInv
  <1> SUFFICES ASSUME Init PROVE Answered
    BY InitLocated DEF IInv
  <1> QED
    BY DEF Init, Answered

(* Only Decide records a verdict, and with it the answer it comes from. *)
LEMMA StepAnswered == IInv /\ [Next]_vars => Answered'
  <1> SUFFICES ASSUME IInv, [Next]_vars PROVE Answered'
    OBVIOUS
  <1>1. CASE Decide
    <2>1. Len(verdicts) = next - 1 /\ next \in Nat
      BY <1>1 DEF Decide, IInv, Located, Progress, Types
    <2>2. /\ Len(verdicts') = next /\ verdicts'[next] = Verdict(answer)
          /\ \A i \in 1 .. next - 1 : verdicts'[i] = verdicts[i]
      BY <1>1, <2>1 DEF Decide, IInv, Located, Lists
    <2>3. answer = "allow" <=> Verdict(answer) = "allow"
      BY <1>1 DEF Decide, Verdict, IInv, Located, Types, PolicyAnswers, AbortError
    <2> QED
      BY <1>1, <2>1, <2>2, <2>3 DEF Decide, IInv, Answered
  <1>2. CASE UNCHANGED <<verdicts, allowed>>
    BY <1>2 DEF IInv, Answered
  <1>3. ~Decide => UNCHANGED <<verdicts, allowed>>
    BY DEF Next, Internal, Compiling, Querying, Transforming, RegisterPolicy, Abort, TimerFires, Enter,
       ValidateParameters, AfterParameters, CompileSettles, AfterCompile, PolicySettles, AfterDecision,
       BeforeSource, CallSource, SourceSettles, ValidateDataset, TransformOrReturn, TransformSettles,
       vars, policyVars
  <1> QED
    BY <1>1, <1>2, <1>3

LEMMA AllAllowed ==
  IInv /\ Len(verdicts) = Len(policies) /\ (\A i \in 1 .. Len(verdicts) : verdicts[i] = "allow")
    => allowed = 1 .. Len(policies)
  BY DEF IInv, Answered

LEMMA Invariance == Spec => []IInv
  <1>1. IInv /\ [Next]_vars => IInv'
    BY StepLocated, StepAnswered DEF IInv
  <1> QED
    BY InitIInv, <1>1, PTL DEF Spec, SafetySpec

-----------------------------------------------------------------------------
(* Every variable keeps its type, in every step of any execution. *)
THEOREM TypeCorrect == Spec => []TypeOK
  <1>1. IInv => TypeOK
    BY DEF IInv, Located, Types, Flags, Lists, Listeners, Answered, TypeOK
  <1> QED
    BY <1>1, Invariance, PTL

(* No source is called and no result returned that some policy of the       *)
(* snapshot has not allowed, for any policies (policy.ts:223-225).          *)
THEOREM PoliciesFailClosed == Spec => []FailsClosed
  <1>1. IInv => FailsClosed
    BY AllAllowed DEF IInv, Located, Permitted, FailsClosed
  <1> QED
    BY <1>1, Invariance, PTL

(* Nothing is evaluated after the first refusal, which ends the execution   *)
(* and is its outcome (policy.ts:223-232).                                  *)
THEOREM RefusalIsFinal == Spec => []FirstRefusalDecides
  <1>1. IInv => FirstRefusalDecides
    BY DEF IInv, Located, Progress, Refusal, FirstRefusalDecides, Lists
  <1> QED
    BY <1>1, Invariance, PTL

(* The policies report a cancellation only when the caller aborted          *)
(* (policy.ts:158-162).                                                     *)
THEOREM PolicyAbortIsCallers == Spec => []PolicyAbortMeansAborted
  <1>1. IInv => PolicyAbortMeansAborted
    BY DEF IInv, Located, Attributed, PolicyAbortMeansAborted, Lists
  <1> QED
    BY <1>1, Invariance, PTL

(* However the execution ends, its timer is stopped and the caller's signal *)
(* is free of its listeners (execute.ts:47-53, policy.ts:218-220).          *)
THEOREM EverythingIsReleased == Spec => []NothingLeftBehind
  <1>1. IInv => NothingLeftBehind
    BY DEF IInv, Located, Held, NothingLeftBehind, Progress, Listeners
  <1> QED
    BY <1>1, Invariance, PTL

(* Once the caller has aborted or the time ran out, a pending execution     *)
(* does not resolve: a source that outlives its signal has its result       *)
(* discarded (execute.ts:211-213, execute.ts:285-288).                      *)
THEOREM CancelledIsFinal == Spec => CancelledNeverResolves
  <1>1. IInv /\ [Next]_vars => [(aborted \/ scoped) /\ outcome = "pending" => outcome' # "resolved"]_vars
    <2> SUFFICES ASSUME IInv, Next, aborted \/ scoped, outcome = "pending"
                 PROVE  outcome' # "resolved"
      BY DEF vars
    <2>1. CASE AfterDecision
      <3>1. verdicts[Len(verdicts)] \in Verdicts
        BY <2>1, LastVerdict DEF AfterDecision
      <3> QED
        BY <2>1, <3>1 DEF AfterDecision, Throw, GoTo, UnlessAborted, StartCheck, Continue,
                          Verdicts, AbortError
    <2>2. CASE ~AfterDecision
      BY <2>2 DEF IInv, Located, Held, Next, Internal, Compiling, Querying, Transforming, RegisterPolicy, Abort,
           TimerFires, Enter, ValidateParameters, AfterParameters, CompileSettles,
           AfterCompile, PolicySettles, Decide, BeforeSource, CallSource, SourceSettles,
           ValidateDataset, TransformOrReturn, TransformSettles, Throw, GoTo, Continue,
           UnlessAborted, StartCheck, Wrap, AbortError, PluginResults
    <2> QED
      BY <2>1, <2>2
  <1> QED
    BY <1>1, Invariance, PTL DEF Spec, SafetySpec, CancelledNeverResolves

-----------------------------------------------------------------------------
(* The safety part of KeepsPromise.                                        *)

LEMMA StageValues ==
  /\ \A l : StageOf(l, "resolved") = "resolved"
  /\ \A l : \A e \in Errors : StageOf(l, e) = "rejected"
  /\ StageOf("ready", "pending") = "new"
  /\ \A l \in Asking : StageOf(l, "pending") = "asking"
  /\ \A l \in Opened \ Asking : StageOf(l, "pending") = "open"
  /\ \A l \in Guarding \ {"ready"} : StageOf(l, "pending") = "guarding"
  BY DEF StageOf, Errors, AbortError, Opened, Asking, Guarding

LEMMA PromiseInit == Init => Promise!Init
  <1> SUFFICES ASSUME Init PROVE Promise!Init
    OBVIOUS
  <1>1. StageOf(pc, outcome) = "new"
    BY StageValues DEF Init
  <1>2. Required = {} /\ Granted = {}
    BY DEF Init, Required, Granted
  <1>3. (aborted \/ scoped) = FALSE
    BY DEF Init
  <1> QED
    BY <1>1, <1>2, <1>3 DEF Promise!Init

(* The grants depend on the snapshot and the answers alone. *)
LEMMA GrantsUnchanged ==
  UNCHANGED <<policies, allowed>> => Required' = Required /\ Granted' = Granted
  BY DEF Required, Granted

LEMMA RequiredType == Lists => Required \in SUBSET Policies
  BY DEF Lists, Required

(* When every policy has allowed, every grant is there. *)
LEMMA AllGranted == allowed = 1 .. Len(policies) => Granted = Required
  BY DEF Granted, Required

(* What a step that records no verdict can do to location and outcome. *)
Moves ==
    \/ pc \in Guarding \ {"ready"} /\ pc' \in Guarding \ {"ready"} /\ outcome' = "pending"
    \/ pc \in Asking /\ pc' \in Asking /\ outcome' = "pending"
    \/ pc \in Opened \ Asking /\ pc' \in Opened \ Asking /\ outcome' = "pending"
    \/ outcome' \in Errors
    \/ /\ pc \in Guarding \ {"ready"} /\ outcome' = "pending"
       /\ pc' \in Opened \ Asking \/ (pc' \in Asking /\ ~aborted /\ ~scoped)
       /\ Len(verdicts) = Len(policies)
       /\ \A i \in 1 .. Len(verdicts) : verdicts[i] = "allow"
    \/ pc \in Asking /\ pc' \in Opened \ Asking /\ outcome' = "pending" /\ ~aborted /\ ~scoped
    \/ pc \in Opened \ Asking /\ outcome' = "resolved" /\ ~aborted /\ ~scoped

LEMMA MoveKeepsPromise ==
  ASSUME IInv, outcome = "pending", pc # "ready", Moves,
         UNCHANGED <<policies, verdicts, allowed, aborted, scoped>>
  PROVE  [Promise!Next]_Promise!vars
  <1>1. Required' = Required /\ Granted' = Granted /\ (aborted \/ scoped)' = (aborted \/ scoped)
    BY GrantsUnchanged
  <1>2. pc \in Opened \/ pc \in Guarding \ {"ready"}
    BY DEF IInv, Located, Progress, Types, Locations
  <1>3. StageOf(pc, outcome) \in {"guarding", "asking", "open"}
    BY <1>2, StageValues
  <1>4. CASE StageOf(pc', outcome') = StageOf(pc, outcome)
    BY <1>1, <1>4 DEF Promise!vars
  <1>5. CASE outcome' \in Errors
    <2>1. StageOf(pc', outcome') = "rejected"
      BY <1>5, StageValues
    <2>2. Promise!Reject
      BY <1>1, <1>3, <2>1, RequiredType DEF Promise!Reject, IInv, Located
    <2> QED
      BY <2>2 DEF Promise!Next
  <1>6. CASE /\ pc \in Guarding \ {"ready"} /\ outcome' = "pending"
             /\ pc' \in Opened \ Asking \/ (pc' \in Asking /\ ~aborted /\ ~scoped)
             /\ Len(verdicts) = Len(policies)
             /\ \A i \in 1 .. Len(verdicts) : verdicts[i] = "allow"
    <2>1. StageOf(pc, outcome) = "guarding" /\ Granted = Required
      BY <1>6, StageValues, AllAllowed, AllGranted
    <2>2. CASE pc' \in Opened \ Asking
      <3>1. StageOf(pc', outcome') = "open"
        BY <1>6, <2>2, StageValues
      <3>2. Promise!Open
        BY <1>1, <2>1, <3>1 DEF Promise!Open
      <3> QED
        BY <3>2 DEF Promise!Next
    <2>3. CASE pc' \in Asking /\ ~aborted /\ ~scoped
      <3>1. StageOf(pc', outcome') = "asking"
        BY <1>6, <2>3, StageValues
      <3>2. Promise!Ask
        BY <1>1, <2>1, <2>3, <3>1 DEF Promise!Ask
      <3> QED
        BY <3>2 DEF Promise!Next
    <2> QED
      BY <1>6, <2>2, <2>3
  <1>7. CASE pc \in Opened \ Asking /\ outcome' = "resolved" /\ ~aborted /\ ~scoped
    <2>1. StageOf(pc, outcome) = "open" /\ StageOf(pc', outcome') = "resolved"
      BY <1>7, StageValues
    <2>2. Promise!Resolve
      BY <1>1, <1>7, <2>1 DEF Promise!Resolve
    <2> QED
      BY <2>2 DEF Promise!Next
  <1>8. CASE pc \in Asking /\ pc' \in Opened \ Asking /\ outcome' = "pending" /\ ~aborted /\ ~scoped
    <2>1. StageOf(pc, outcome) = "asking" /\ StageOf(pc', outcome') = "open"
      BY <1>8, StageValues
    <2>2. Promise!Open
      BY <1>1, <1>8, <2>1 DEF Promise!Open
    <2> QED
      BY <2>2 DEF Promise!Next
  <1>9. CASE \/ pc \in Guarding \ {"ready"} /\ pc' \in Guarding \ {"ready"} /\ outcome' = "pending"
             \/ pc \in Asking /\ pc' \in Asking /\ outcome' = "pending"
             \/ pc \in Opened \ Asking /\ pc' \in Opened \ Asking /\ outcome' = "pending"
    BY <1>4, <1>9, StageValues
  <1> QED
    BY <1>5, <1>6, <1>7, <1>8, <1>9 DEF Moves

(* Entering fixes the grants that are needed, or rejects. *)
LEMMA EnterKeepsPromise ==
  ASSUME IInv, NEW rf \in BOOLEAN, NEW bm \in BOOLEAN, Enter(rf, bm)
  PROVE  Promise!Next
  <1>1. StageOf(pc, outcome) = "new"
    BY StageValues DEF Enter, IInv, Located, Progress
  <1>2. Required' \in SUBSET Policies
    BY DEF Enter, IInv, Located, Lists, Required
  <1>3. Granted' = Granted
    BY DEF Enter, Granted, IInv, Located, Answered, Progress
  <1>4. (aborted \/ scoped)' = (aborted \/ scoped)
    BY DEF Enter, signalVars
  <1>5. CASE pc' = "validate" /\ outcome' = outcome
    <2>1. StageOf(pc', outcome') = "guarding"
      BY <1>5, StageValues DEF Enter, IInv, Located, Progress, Guarding
    <2>2. Promise!Begin
      BY <1>1, <1>2, <1>3, <1>4, <2>1 DEF Promise!Begin
    <2> QED
      BY <2>2 DEF Promise!Next
  <1>6. CASE outcome' \in Errors
    <2>1. StageOf(pc', outcome') = "rejected"
      BY <1>6, StageValues
    <2>2. Promise!Reject
      BY <1>1, <1>2, <1>3, <1>4, <2>1 DEF Promise!Reject
    <2> QED
      BY <2>2 DEF Promise!Next
  <1> QED
    BY <1>5, <1>6 DEF Enter, Throw, GoTo, Errors, AbortError

(* Deciding is the grant of the policy that allowed, or changes nothing. *)
LEMMA DecideKeepsPromise ==
  ASSUME IInv, Decide
  PROVE  [Promise!Next]_Promise!vars
  <1>1. next \in 1 .. Len(policies) /\ Len(verdicts) = next - 1
    BY DEF Decide, IInv, Located, Progress
  <1>2. StageOf(pc, outcome) = "guarding" /\ StageOf(pc', outcome') = "guarding"
    BY StageValues DEF Decide, GoTo, IInv, Located, Progress, Guarding
  <1>3. Required' = Required /\ (aborted \/ scoped)' = (aborted \/ scoped)
    BY DEF Decide, Required
  <1>4. CASE answer = "allow"
    <2>1. Granted' = Granted \cup {policies[next]}
      BY <1>4 DEF Granted, Decide
    <2>2. policies[next] \in Required /\ policies[next] \in Policies
      BY <1>1 DEF Required, IInv, Located, Lists
    <2>3. Promise!Grant(policies[next])
      BY <1>2, <1>3, <2>1, <2>2 DEF Promise!Grant
    <2> QED
      BY <2>2, <2>3 DEF Promise!Next
  <1>5. CASE answer # "allow"
    <2>1. Granted' = Granted
      BY <1>5 DEF Granted, Decide
    <2> QED
      BY <1>2, <1>3, <2>1 DEF Promise!vars
  <1> QED
    BY <1>4, <1>5

LEMMA CancelKeepsPromise ==
  ASSUME UNCHANGED <<pc, outcome, policies, allowed>>, (aborted \/ scoped)' = TRUE
  PROVE  Promise!Cancel
  BY GrantsUnchanged DEF Promise!Cancel

LEMMA StepKeepsPromise == IInv /\ [Next]_vars => [Promise!Next]_Promise!vars
  <1> SUFFICES ASSUME IInv, [Next]_vars PROVE [Promise!Next]_Promise!vars
    OBVIOUS
  <1> USE DEF Throw, GoTo, Continue, UnlessAborted, StartCheck
  <1>a. outcome = "pending" <=> pc # "done"
    BY DEF IInv, Located, Progress
  <1>b. "allow" # "resolved" /\ Verdicts \ {"allow"} \subseteq Errors
    BY DEF Verdicts, Errors, AbortError
  <1>1. ASSUME NEW p \in Policies, RegisterPolicy(p) PROVE UNCHANGED Promise!vars
    BY <1>1, GrantsUnchanged DEF RegisterPolicy, policyVars, signalVars, Promise!vars
  <1>2. CASE Abort
    BY <1>2, CancelKeepsPromise DEF Abort, Promise!Next
  <1>3. CASE TimerFires
    BY <1>3, CancelKeepsPromise DEF TimerFires, policyVars, Promise!Next
  <1>4. ASSUME NEW rf \in BOOLEAN, NEW bm \in BOOLEAN, Enter(rf, bm) PROVE Promise!Next
    BY <1>4, EnterKeepsPromise
  <1>5. CASE Decide
    BY <1>5, DecideKeepsPromise
  <1>6. ASSUME Moves, outcome = "pending", pc # "ready",
               UNCHANGED <<policies, verdicts, allowed, aborted, scoped>>
        PROVE  [Promise!Next]_Promise!vars
    BY <1>6, MoveKeepsPromise
  <1>7. ASSUME NEW ok \in BOOLEAN, ValidateParameters(ok) PROVE [Promise!Next]_Promise!vars
    <2>1. Moves
      BY <1>a, <1>b, <1>7 DEF Moves, Guarding, Opened, Asking, ValidateParameters, Errors
    <2> QED
      BY <1>a, <1>6, <1>7, <2>1 DEF ValidateParameters, policyVars, signalVars
  <1>8. CASE AfterParameters
    <2>1. Moves
      BY <1>a, <1>b, <1>8 DEF Moves, Guarding, Opened, Asking, AfterParameters, Errors, AbortError, IInv, Located, Progress
    <2> QED
      BY <1>a, <1>6, <1>8, <2>1 DEF AfterParameters, policyVars, signalVars
  <1>9. ASSUME NEW r \in PluginResults, CompileSettles(r) PROVE [Promise!Next]_Promise!vars
    <2>1. Moves
      BY <1>a, <1>b, <1>9 DEF Moves, Guarding, Opened, Asking, CompileSettles, Errors
    <2> QED
      BY <1>a, <1>6, <1>9, <2>1 DEF CompileSettles, policyVars, signalVars
  <1>10. ASSUME NEW vf \in BOOLEAN, AfterCompile(vf) PROVE [Promise!Next]_Promise!vars
    <2>1. Moves
      BY <1>a, <1>b, <1>10 DEF Moves, Guarding, Opened, Asking, AfterCompile, Errors, AbortError
    <2> QED
      BY <1>a, <1>6, <1>10, <2>1 DEF AfterCompile, policyVars, signalVars
  <1>11. ASSUME NEW a \in PolicyAnswers, PolicySettles(a) PROVE [Promise!Next]_Promise!vars
    <2>1. Moves
      BY <1>a, <1>b, <1>11 DEF Moves, Guarding, Opened, Asking, PolicySettles
    <2> QED
      BY <1>a, <1>6, <1>11, <2>1 DEF PolicySettles, policyVars, signalVars
  <1>12. CASE AfterDecision
    <2>1. Moves
      BY <1>a, <1>b, <1>12, LastVerdict DEF Moves, Guarding, Opened, Asking, AfterDecision, Errors, AbortError
    <2> QED
      BY <1>a, <1>6, <1>12, <2>1 DEF AfterDecision, policyVars, signalVars
  <1>13. CASE BeforeSource
    <2>1. Moves
      BY <1>a, <1>b, <1>13, AuthorizedByAll DEF Moves, Guarding, Opened, Asking, BeforeSource, Errors, AbortError, IInv, Located, Held
    <2> QED
      BY <1>a, <1>6, <1>13, <2>1 DEF BeforeSource, policyVars, signalVars
  <1>14. CASE CallSource
    <2>1. Moves
      BY <1>a, <1>b, <1>14 DEF Moves, Guarding, Opened, Asking, CallSource
    <2> QED
      BY <1>a, <1>6, <1>14, <2>1 DEF CallSource, policyVars, signalVars
  <1>15. ASSUME NEW r \in PluginResults, SourceSettles(r) PROVE [Promise!Next]_Promise!vars
    <2>1. Moves
      BY <1>a, <1>b, <1>15 DEF Moves, Guarding, Opened, Asking, SourceSettles, ScopedAborted, Wrap, PluginResults, Errors, AbortError, IInv, Located, Held
    <2> QED
      BY <1>a, <1>6, <1>15, <2>1 DEF SourceSettles, policyVars, signalVars
  <1>16. ASSUME NEW ok \in BOOLEAN, ValidateDataset(ok) PROVE [Promise!Next]_Promise!vars
    <2>1. Moves
      BY <1>a, <1>b, <1>16 DEF Moves, Guarding, Opened, Asking, ValidateDataset, Errors
    <2> QED
      BY <1>a, <1>6, <1>16, <2>1 DEF ValidateDataset, policyVars, signalVars
  <1>17. CASE TransformOrReturn
    <2>1. Moves
      BY <1>a, <1>b, <1>17 DEF Moves, Guarding, Opened, Asking, TransformOrReturn, Errors, AbortError, IInv, Located, Held
    <2> QED
      BY <1>a, <1>6, <1>17, <2>1 DEF TransformOrReturn, policyVars, signalVars
  <1>18. ASSUME NEW r \in PluginResults, TransformSettles(r) PROVE [Promise!Next]_Promise!vars
    <2>1. Moves
      BY <1>a, <1>b, <1>18 DEF Moves, Guarding, Opened, Asking, TransformSettles, Wrap, PluginResults, Errors, AbortError
    <2> QED
      BY <1>a, <1>6, <1>18, <2>1 DEF TransformSettles, policyVars, signalVars
  <1>19. CASE UNCHANGED vars
    BY <1>19, GrantsUnchanged DEF vars, policyVars, signalVars, Promise!vars
  <1> QED
    BY <1>1, <1>2, <1>3, <1>4, <1>5, <1>7, <1>8, <1>9, <1>10, <1>11, <1>12, <1>13, <1>14, <1>15, <1>16, <1>17, <1>18, <1>19
       DEF Next, Internal, Compiling, Querying, Transforming

(* The execution implements the guarded execution: it starts as one and     *)
(* each of its steps is a step of it or leaves it alone.  (That a cancelled *)
(* execution is refused in the end is liveness, and is model-checked.)      *)
THEOREM ImplementsGuardedExecution == Spec => Promise!Init /\ [][Promise!Next]_Promise!vars
  <1> QED
    BY PromiseInit, StepKeepsPromise, Invariance, PTL DEF Spec, SafetySpec
=============================================================================
