--------------------------- MODULE PluginRuntime ---------------------------
(***************************************************************************)
(* Plugin installation: use(), ready() and drain() of createQSpec          *)
(* (packages/core/src/internal/runtime.ts), its dispose(), and the first   *)
(* two statements of executePrepared, which await ready() and then read    *)
(* the policies.                                                           *)
(*                                                                         *)
(* The code is single threaded, so what matters is which promise job runs  *)
(* when.  jobs is the microtask queue: first in, first out.  A client that *)
(* is itself resumed by a promise can call use() or ready() between two of *)
(* these jobs.                                                             *)
(***************************************************************************)
EXTENDS Naturals, Sequences, FiniteSets

CONSTANTS
    Plugins,           \* plugin names; each plugin registers one policy and one source
    NoPlugin,          \* not a plugin
    Callers,           \* executions, each awaiting ready() once
    MaxUses            \* bound: how many use() calls are made

ASSUME PluginRuntimeAssumption == NoPlugin \notin Plugins /\ MaxUses \in Nat

VARIABLES
    used,       \* history: every plugin passed to use(), in call order
    queued,     \* `queued`: used, not yet shifted by a drain
    setup,      \* per plugin: "new", "running", "ok" or "failed"
    registry,   \* registries.policies and .sources, in registration order
    started,    \* how many drains have been started
    at,         \* per drain: the plugin whose setup it awaits
    draining,   \* `draining`: the current drain, 0 when undefined
    verdict,    \* per drain: what its promise settles with
    waiters,    \* per drain: the callers awaiting it, in order
    failure,    \* `failure`: the drain whose error is stored, 0 if none
    jobs,       \* the microtask queue
    pc,         \* per caller: where its call of ready() is
    asked,      \* per caller: Len(used) when it called ready()
    seen,       \* per caller: the policies it read after ready()
    slipped,    \* history: callers that looked while an error was not yet stored
    disposal,   \* the call of dispose(): "none", "running", "fulfilled" or "rejected"
    left,       \* the sources it has not visited yet; the one it awaits is in `visiting`
    visiting,
    owed,       \* history: the sources that were registered when it was called
    closed      \* history: per source, how often its dispose() has completed

drainVars == <<queued, setup, at, verdict>>
callVars == <<started, draining, waiters, pc>>
disposeVars == <<disposal, left, visiting, owed, closed>>
vars == <<used, registry, failure, jobs, asked, seen, slipped, drainVars, callVars, disposeVars>>

(* A drain shifts at least one plugin, so there are never more than uses. *)
Drains == 1 .. MaxUses

installed == {p \in Plugins : setup[p] # "new"}

Job(kind, subject) == [kind |-> kind, of |-> subject]
Resume(c, d) == [kind |-> "resume", of |-> c, on |-> d]
Jobs == [kind : {"setup", "finally", "then", "settle"}, of : Drains]
        \cup [kind : {"proceed"}, of : Callers]
        \cup [kind : {"resume"}, of : Callers, on : Drains]

TypeOK ==
    /\ used \in Seq(Plugins) /\ Len(used) <= MaxUses
    /\ queued \in Seq(Plugins)
    /\ setup \in [Plugins -> {"new", "running", "ok", "failed"}]
    /\ registry \in Seq(Plugins)
    /\ started \in 0 .. MaxUses
    /\ at \in [Drains -> Plugins \cup {NoPlugin}]
    /\ draining \in 0 .. MaxUses
    /\ verdict \in [Drains -> {"pending", "fulfilled", "rejected"}]
    /\ waiters \in [Drains -> Seq(Callers)]
    /\ failure \in 0 .. MaxUses
    /\ jobs \in Seq(Jobs)
    /\ pc \in [Callers -> {"idle", "waiting", "returned", "guarded", "threw"}]
    /\ asked \in [Callers -> 0 .. MaxUses]
    /\ seen \in [Callers -> Seq(Plugins)]
    /\ slipped \subseteq Callers
    /\ disposal \in {"none", "running", "fulfilled", "rejected"}
    /\ left \subseteq Plugins /\ owed \subseteq Plugins
    /\ visiting \in Plugins \cup {NoPlugin}
    /\ closed \in [Plugins -> 0 .. 1]

Init ==
    /\ used = <<>> /\ queued = <<>> /\ registry = <<>> /\ jobs = <<>>
    /\ setup = [p \in Plugins |-> "new"]
    /\ started = 0 /\ draining = 0 /\ failure = 0
    /\ at = [d \in Drains |-> NoPlugin]
    /\ verdict = [d \in Drains |-> "pending"]
    /\ waiters = [d \in Drains |-> <<>>]
    /\ pc = [c \in Callers |-> "idle"]
    /\ asked = [c \in Callers |-> 0]
    /\ seen = [c \in Callers |-> <<>>]
    /\ slipped = {}
    /\ disposal = "none" /\ left = {} /\ owed = {} /\ visiting = NoPlugin
    /\ closed = [p \in Plugins |-> 0]

-----------------------------------------------------------------------------
(* The drain.  `rest` is the queue of jobs its step leaves behind.         *)

(* The promise of drain() settles; its .finally reaction is queued. *)
Settle(d, outcome, rest) ==
    /\ verdict' = [verdict EXCEPT ![d] = outcome]
    /\ jobs' = Append(rest, Job("finally", d))

(* One turn of the loop of drain(), up to its next await. *)
Shift(d, rest) ==
    \/ /\ queued = <<>>
       /\ Settle(d, "fulfilled", rest)
       /\ UNCHANGED <<queued, setup, at>>
    \/ /\ queued # <<>> /\ Head(queued) \in installed
       /\ queued' = Tail(queued)
       /\ Settle(d, "rejected", rest)
       /\ UNCHANGED <<setup, at>>
    \/ /\ queued # <<>> /\ Head(queued) \notin installed
       /\ queued' = Tail(queued)
       /\ setup' = [setup EXCEPT ![Head(queued)] = "running"]
       /\ at' = [at EXCEPT ![d] = Head(queued)]
       /\ jobs' = rest
       /\ UNCHANGED verdict

(* The promise returned by plugin.setup settles.  A setup that succeeds     *)
(* has registered its policy; one that fails has not.                       *)
SetupSettles(d, ok) ==
    /\ at[d] # NoPlugin /\ setup[at[d]] = "running"
    /\ setup' = [setup EXCEPT ![at[d]] = IF ok THEN "ok" ELSE "failed"]
    /\ registry' = IF ok THEN Append(registry, at[d]) ELSE registry
    /\ jobs' = Append(jobs, Job("setup", d))
    /\ UNCHANGED <<used, failure, asked, seen, slipped, queued, at, verdict, callVars, disposeVars>>

-----------------------------------------------------------------------------
(* ready().                                                                *)

(* Mutant: ready() looks at the queue only.                                *)
Loop_QueueOnly(c, rest) ==
    \/ /\ queued = <<>>
       /\ pc' = [pc EXCEPT ![c] = "returned"]
       /\ jobs' = Append(rest, Job("proceed", c))
       /\ UNCHANGED <<started, draining, waiters, drainVars>>
    \/ /\ queued # <<>> /\ draining = 0
       /\ pc' = [pc EXCEPT ![c] = "waiting"]
       /\ started' = started + 1 /\ draining' = started + 1
       /\ waiters' = [waiters EXCEPT ![started + 1] = Append(@, c)]
       /\ Shift(started + 1, rest)

(* A drain has failed and is forgotten, its error is not stored yet: there  *)
(* is no drain in flight, or already a later one.                           *)
InGap == failure = 0 /\ \E d \in Drains : d # draining /\ verdict[d] = "rejected"

Look(c) == slipped' = IF InGap THEN slipped \cup {c} ELSE slipped

(* The loop of ready(), up to its await or its end. *)
Loop(c, rest) ==
    \/ /\ queued = <<>> /\ draining = 0
       /\ pc' = [pc EXCEPT ![c] = "returned"]
       /\ jobs' = Append(rest, Job("proceed", c))
       /\ UNCHANGED <<started, draining, waiters, drainVars>>
    \/ /\ draining # 0
       /\ pc' = [pc EXCEPT ![c] = "waiting"]
       /\ waiters' = [waiters EXCEPT ![draining] = Append(@, c)]
       /\ jobs' = rest
       /\ UNCHANGED <<started, draining, drainVars>>
    \/ /\ queued # <<>> /\ draining = 0
       /\ pc' = [pc EXCEPT ![c] = "waiting"]
       /\ started' = started + 1
       /\ draining' = started + 1
       /\ waiters' = [waiters EXCEPT ![started + 1] = Append(@, c)]
       /\ Shift(started + 1, rest)

(* Mutant: use() forgets the drain in flight.                              *)
Use_ForgetsDrain(p) ==
    /\ Len(used) < MaxUses
    /\ used' = Append(used, p) /\ queued' = Append(queued, p)
    /\ draining' = 0
    /\ UNCHANGED <<registry, failure, jobs, asked, seen, slipped, setup, at, verdict, started, waiters, pc, disposeVars>>

Use(p) ==
    /\ Len(used) < MaxUses
    /\ used' = Append(used, p)
    /\ queued' = Append(queued, p)
    /\ UNCHANGED <<registry, failure, jobs, asked, seen, slipped, setup, at, verdict, callVars, disposeVars>>

(* Mutant: a stored failure does not stop a later ready().                 *)
Ready_IgnoresFailure(c) ==
    /\ pc[c] = "idle"
    /\ asked' = [asked EXCEPT ![c] = Len(used)]
    /\ Look(c)
    /\ Loop(c, jobs)
    /\ UNCHANGED <<used, registry, failure, seen, disposeVars>>

Ready(c) ==
    /\ pc[c] = "idle"
    /\ asked' = [asked EXCEPT ![c] = Len(used)]
    /\ Look(c)
    /\ \/ /\ failure # 0
          /\ pc' = [pc EXCEPT ![c] = "threw"]
          /\ UNCHANGED <<jobs, started, draining, waiters, drainVars>>
       \/ /\ failure = 0
          /\ Loop(c, jobs)
    /\ UNCHANGED <<used, registry, failure, seen, disposeVars>>

-----------------------------------------------------------------------------
(* The promise jobs.                                                       *)

Next1(kind) == jobs # <<>> /\ Head(jobs).kind = kind

(* drain() is resumed after `await plugin.setup(...)`. *)
RunSetup ==
    /\ Next1("setup")
    /\ LET d == Head(jobs).of IN
       \/ /\ setup[at[d]] = "ok"
          /\ Shift(d, Tail(jobs))
       \/ /\ setup[at[d]] = "failed"
          /\ Settle(d, "rejected", Tail(jobs))
          /\ UNCHANGED <<queued, setup, at>>
    /\ UNCHANGED <<used, registry, failure, asked, seen, slipped, callVars, disposeVars>>

(* Mutant: the drain is not forgotten when it has settled.                 *)
RunFinally_KeepsDrain ==
    /\ Next1("finally")
    /\ jobs' = Append(Tail(jobs), Job("then", Head(jobs).of))
    /\ UNCHANGED <<used, registry, failure, asked, seen, slipped, drainVars, callVars, disposeVars>>

(* The .finally callback.  The promise it returned settles two jobs later. *)
RunFinally ==
    /\ Next1("finally")
    /\ draining' = 0
    /\ jobs' = Append(Tail(jobs), Job("then", Head(jobs).of))
    /\ UNCHANGED <<used, registry, failure, asked, seen, slipped, drainVars, started, waiters, pc, disposeVars>>

RunThen ==
    /\ Next1("then")
    /\ jobs' = Append(Tail(jobs), Job("settle", Head(jobs).of))
    /\ UNCHANGED <<used, registry, failure, asked, seen, slipped, drainVars, callVars, disposeVars>>

RunSettle ==
    /\ Next1("settle")
    /\ LET d == Head(jobs).of
           w == waiters[d]
       IN jobs' = Tail(jobs) \o [i \in 1 .. Len(w) |-> Resume(w[i], d)]
    /\ UNCHANGED <<used, registry, failure, asked, seen, slipped, drainVars, callVars, disposeVars>>

(* ready() is resumed after `await current`. *)
RunResume ==
    /\ Next1("resume")
    /\ LET c == Head(jobs).of
           d == Head(jobs).on
       IN \/ /\ verdict[d] = "rejected"
             /\ failure' = d
             /\ pc' = [pc EXCEPT ![c] = "threw"]
             /\ jobs' = Tail(jobs)
             /\ UNCHANGED <<slipped, started, draining, waiters, drainVars>>
          \/ /\ verdict[d] = "fulfilled"
             /\ Loop(c, Tail(jobs)) /\ Look(c)
             /\ UNCHANGED failure
    /\ UNCHANGED <<used, registry, asked, seen, disposeVars>>

(* executePrepared is resumed after `await internals.ready()`. *)
RunProceed ==
    /\ Next1("proceed")
    /\ LET c == Head(jobs).of IN
       /\ pc' = [pc EXCEPT ![c] = "guarded"]
       /\ seen' = [seen EXCEPT ![c] = registry]
    /\ jobs' = Tail(jobs)
    /\ UNCHANGED <<used, registry, failure, asked, slipped, started, draining, waiters, drainVars, disposeVars>>

-----------------------------------------------------------------------------
(* dispose().  It shares only the registry of sources with the rest, which  *)
(* it lists once.  The list is sorted by name, which may be any order of the *)
(* plugins.  A source without a dispose method counts as one whose dispose()*)
(* completes.                                                               *)

RegisteredSources == {registry[i] : i \in DOMAIN registry}

(* The turn of the loop that follows what it has just awaited. *)
Visit(names) ==
    \/ /\ names = {}
       /\ disposal' = "fulfilled" /\ visiting' = NoPlugin /\ left' = {}
    \/ /\ names # {}
       /\ disposal' = "running"
       /\ visiting' \in names
       /\ left' = names \ {visiting'}

Dispose ==
    /\ disposal = "none"
    /\ owed' = RegisteredSources
    /\ Visit(RegisteredSources)
    /\ UNCHANGED <<used, registry, failure, jobs, asked, seen, slipped, closed, drainVars, callVars>>

(* Mutant: a source that rejects does not stop the loop.                    *)
SourceDisposed_Swallows(ok) ==
    /\ disposal = "running"
    /\ closed' = [closed EXCEPT ![visiting] = IF ok THEN @ + 1 ELSE @]
    /\ Visit(left)
    /\ UNCHANGED <<used, registry, failure, jobs, asked, seen, slipped, owed, drainVars, callVars>>

(* The promise of `source.dispose()` settles. *)
SourceDisposed(ok) ==
    /\ disposal = "running"
    /\ \/ /\ ok
          /\ closed' = [closed EXCEPT ![visiting] = @ + 1]
          /\ Visit(left)
       \/ /\ ~ok
          /\ disposal' = "rejected"
          /\ UNCHANGED <<left, visiting, closed>>
    /\ UNCHANGED <<used, registry, failure, jobs, asked, seen, slipped, owed, drainVars, callVars>>

RunJob == RunSetup \/ RunFinally \/ RunThen \/ RunSettle \/ RunResume \/ RunProceed

Settling == \E d \in Drains, ok \in BOOLEAN : SetupSettles(d, ok)

Next ==
    \/ \E p \in Plugins : Use(p)
    \/ \E c \in Callers : Ready(c)
    \/ Settling
    \/ RunJob
    \/ Dispose
    \/ \E ok \in BOOLEAN : SourceDisposed(ok)

(* Promise jobs always run, and every setup settles in the end. *)
Fairness == WF_vars(RunJob) /\ WF_vars(Settling)

Spec == Init /\ [][Next]_vars /\ Fairness

-----------------------------------------------------------------------------
(* Properties.                                                             *)

Settled(p) == setup[p] \in {"ok", "failed"}

(* Setups never overlap and run in the order of use(): a plugin's setup is  *)
(* started only after that of every plugin used before it has settled,      *)
(* whatever use() and ready() calls arrive while one is in flight           *)
(* (runtime.ts:150-157, the reason use() leaves `draining` alone).          *)
SetupsInUseOrder ==
    \A j \in 1 .. Len(used) : used[j] \in installed =>
        \A i \in 1 .. j - 1 : used[i] # used[j] =>
            Settled(used[i]) \/ \E k \in 1 .. i : used[k] = used[j]

(* An execution that gets past ready() reads the policy of every plugin     *)
(* used before it called: ready() has awaited each setup, also one that was *)
(* in flight while the queue was already empty, and a failed setup stops    *)
(* every later execution, so that none of them runs without the policy that *)
(* did not load (execute.ts:102-106, runtime.ts:114-119, 161-166).          *)
Guarded(c) ==
    pc[c] = "guarded" =>
        \A i \in 1 .. asked[c] : \E j \in 1 .. Len(seen[c]) : seen[c][j] = used[i]
GuardedByEveryPolicy == \A c \in Callers : Guarded(c)

(* The same, but for callers whose ready() looked at the queue in the gap   *)
(* between the two jobs that forget a failed drain and store its error, on  *)
(* being called or on resuming from an earlier drain: one that finds        *)
(* nothing to wait for, and one that starts or joins the next drain, whose  *)
(* loop does not look at `failure` again.  There is no other way past a     *)
(* policy that did not load (runtime.ts:161-176).                           *)
GuardedOutsideTheGap == \A c \in Callers \ slipped : Guarded(c)

(* Once an error is stored it is the one every later ready() throws: no     *)
(* other failure replaces it, unless a caller that looked in that gap has   *)
(* started another drain (runtime.ts:114-119).                              *)
OriginalErrorKept == [][failure # 0 => failure' = failure \/ slipped # {}]_failure

(* A call of ready() ends: a caller waiting for a drain is resumed in the   *)
(* end, whichever drain it joined and whatever was queued meanwhile.        *)
ReadyEnds == \A c \in Callers :
    pc[c] = "waiting" ~> pc[c] \in {"guarded", "threw"}

(* dispose() says what it did: it fulfils only after every source that was  *)
(* registered when it was called has completed its own dispose(), and never *)
(* touches one that was registered meanwhile.  When it rejects, it has      *)
(* stopped at one source: the others are either closed or were not reached  *)
(* (runtime.ts:191-196; types/runtime.ts:91 promises "every registered data *)
(* source", which a rejection in the middle does not keep).                 *)
DisposeIsHonest ==
    /\ disposal = "fulfilled" => \A p \in Plugins : closed[p] = IF p \in owed THEN 1 ELSE 0
    /\ disposal = "rejected" => \A p \in Plugins :
          closed[p] = IF p \in owed \ (left \cup {visiting}) THEN 1 ELSE 0
=============================================================================
