# QSpec: models, checks and proofs

QSpec (`packages/*`, TypeScript) turns a resource manifest (a query, transforms, a
presentation) into rows and fields: it validates and prepares the manifest, guards each
execution with policies, compiles and runs the query, normalises the result and folds it
through transforms. A React binding and an HTTP boundary sit on top. This directory holds
TLA+ models of it, the configurations TLC checks them with, and proofs for TLAPS.

`PROJECT.json` lists the components, runs, mutants, findings, hazards and theorems, and
maps every definition to the lines it models. Paths below are relative to `src/`.

## 1. The system

| component | code | state | operations | who it talks to |
|---|---|---|---|---|
| Plugin runtime | `core/src/internal/runtime.ts`, `registry.ts`, `plugin.ts` | queue of plugins, the drain in flight, stored failure, registries | `use`, `ready`, `drain`, `dispose`, registry `register/replace/get` | every `prepare`/`execute` awaits `ready()`; `setup` is a plugin's callback |
| Preparation | `core/src/internal/prepare.ts`, `validate/*` | none across calls; returns a frozen plan | parse, stages 1 and 2, query, transforms, presentation | registries, languages, transforms |
| Execution | `core/src/internal/execute.ts` | one execution: caller's signal, scoped signal, timer, listeners | `executePrepared`, `withTimeout` | policies, language, source, transforms, hooks |
| Policies | `core/src/internal/policy.ts` | the snapshot of registered policies | `runPolicies`, `check`, `readDecision`, `readThrow` | the policies' callbacks |
| Manifest validation | `core/src/define.ts`, `validate/manifest.ts`, `schema/src/index.ts`, `schemas/v1/qspec.json` | none | parse, `validateManifestStructure`, `validateWithJsonSchema` | preparation, the command line |
| Parameters and bindings | `core/src/internal/validate/parameters.ts`, `bindings.ts` | none | compile, validate, resolve | SQL compilation |
| Normalisation, dataset validation | `core/src/internal/normalize-result.ts`, `validate/dataset.ts` | none | rows of a source into a dataset, stage 5 | execution |
| Transforms, expressions | `transforms/src`, `core/src/internal/expression` | none | validate, describe, execute; normalise, evaluate | preparation and execution |
| SQL language | `sql/src/internal` | none | scan, validate, compile | the PostgreSQL renderer |
| PostgreSQL source | `postgres/src/internal/source.ts`, `render.ts` | lazily created pool, disposed flag; per execution a client, an abort listener, a cancel in flight | `execute`, `cancelBackend`, `dispose` | `pg` pool, the server |
| HTTP boundary | `http/src/internal` | handler: Map of prepare() promises | `createHttpExecutor`, `createQSpecHandler` | fetch, the runtime |
| React binding | `react/src/internal` | Map of promises, provider version | `get`, `invalidate`, `useQSpecQuery` | React, an executor |
| Hooks | `core/src/internal/hooks.ts` | handlers by event | `on`, `emit` | observers |
| Charts, Recharts | `charts/src/internal`, `recharts/src/internal` | none | validate, field references, `resolveSeries`; merge rows, draw or refuse | preparation; React |
| Command line | `cli/src` | one call: the config's runtime, the stub sources queued so far, whether a file failed | `validate`, `inspect` | both validators, one runtime for all files |
| Testing, scripts | `testing`, `scripts` | none | fakes, release steps | |

How they meet. An executor (local, or HTTP through the handler) calls `prepare` once per
resource and `execute` per request. Both await `ready()`, so that a plugin passed to `use()`
at any time is installed first. `execute` snapshots the policies, validates the parameters,
compiles, evaluates the policies one after the other, arms the timer, calls the source with a
signal, and folds the dataset through the transforms. The caller's `AbortSignal` is shared
state: core, the policies, the source and the transforms all listen to it.

### What is hard, and what makes each part correct

* **Runtime.** `use()` and `ready()` arrive between any two promise jobs of a drain. Correct:
  setups run one at a time in the order of `use()`; nobody passes `ready()` while a policy it
  should meet is not installed; a failed setup stops everything after it; `ready()` ends.
* **Execution.** Abort and timeout race with policies, source and transforms, any of which
  may hang or ignore its signal. Correct: fail closed; a refusal is final; a cancelled
  execution ends and never resolves; timer and listeners are released on every way out.
* **PostgreSQL.** A cancel request names a backend by PID and travels on its own connection,
  while the statement may end and the client go to another execution. Correct: the request
  can only hit its own statement; clients go back clean; an abort yields no rows.
* **HTTP.** Network failures, aborts and disconnects race with both sides. Correct: one
  `prepare()` per resource; an error tells the caller what it would tell in process; no
  execution runs on for a caller who is gone.
* **React.** Suspense needs the same promise on every render, and invalidation needs a new
  one. Correct: identity, one request per invalidation, nothing stale, no endless suspense.
* **Data.** Names collide (repeated columns, `a_2`, renames, derived fields), values are
  null or of mixed types, and `prepare()` promises a projection before any row is seen.
  Correct: what was promised is delivered; nothing is lost silently.
* **Inputs.** The same declaration is looked at by three stages that must agree, and a
  placeholder must be where the server looks for one.
* **Manifests and the command line.** Two validators are written separately, `prepare()` reads
  without looking what they let through, and several files share a runtime. Correct: the
  validators agree; what they accept can be read; a file's verdict is its own; the exit code
  tells of every failure.
* **Charts.** Three packages look at a presentation: one checks the fields, one draws rows that
  have been partitioned into series and are merged again, one lists the fields without knowing
  the plugin. Correct: what was prepared can be drawn; each row appears once, at its own x, in
  the dataset's order; all fields are listed.

## 2. The modules

Every module has a comment per definition; here is only how state and actions correspond to
the code.

**PluginRuntime** (`runtime.ts`, and the first two statements of `execute.ts`). The code is
single threaded; what matters is which promise job runs when. `jobs` is the microtask queue,
first in, first out: a drain resumed after its setup, the `.finally` callback that clears
`draining`, the two further jobs until the promise that `.finally` returned has settled, the
resumption of each waiting `ready()`, and the `execute()` that awaited it. `Use` and `Ready` happen between any two jobs.
`queued`, `draining`, `failure` are the closure's variables; `used`, `asked`, `slipped` are
history. A plugin's setup registers one policy and one source, or fails. `dispose()` takes the
list of sources when it is called (`left`) and awaits one after the other (`visiting`), in any
order, since the list is sorted by names the plugins choose.

**Execution** (`execute.ts`, `policy.ts`). An action is the code between two places where
something else can run: an `await`, or a `hooks.emit` whose handlers may abort. `pc` is that
place. `Abort` and `TimerFires` may come in between any two. `Throw` is the `catch` at the
end of `executePrepared`. Data is left out, it is in Pipeline. An issue list is well formed or
not; a plugin answers, throws an error of QSpec's, one named AbortError, any other, or nothing.

**GuardedExecution** is the abstract promise: the grants needed are fixed, the source is asked and
the resource opens with all of them, it ends once, and once cancelled it neither asks the source nor
takes its answer nor ends well. `Execution!KeepsPromise`
maps `pc` and `outcome` to a stage and the policies' own answers to grants.

**PostgresSource** (`source.ts`). Per execution `pc`, the client, the abort listener and the
progress of `cancelBackend` (connecting, request sent, closing). The pool and the server are external: `holder` says whose client
a backend serves, `running` whose statement it runs. `connect()` is two steps, as it is in the pool: `Reserve`
takes a client, or begins to connect one, and only `Acquired` resumes `execute()`. After `pool.end()` nothing
more is reserved, but what was reserved is still handed over, and `execute()`, which reads the signal again and
not `disposed` (`source.ts:252-259`), starts its statement on it. `CancelServed` interrupts whatever the
backend runs *then*, which is what makes PID reuse a hazard. `stray` are the requests whose
connection dropped and which the server may still read.

**StatementExecutor** is what a source promises (`core/src/types/plugin.ts`): limited capacity,
one settlement, no rows and no start once cancelled, nothing taken up once closed, no start and no
work once drained. What had been taken up when the source was closed may still start before that. `PostgresSource!ImplementsStatementExecutor` maps `pc` and `outcome` to a stage.

**WireProtocol** (`protocol.ts`). `parseExecuteRequest` and its walk over the parameters
(`CheckValue` on an object, `CheckMembers` on its members), with the path, the set of validated
objects and the depth of the code. Parameters are a graph of objects; `Paths` is the independent
reference.

**HttpExchange** (`executor.ts`, `handler.ts`) extends it. `client` and `server` are where `execute()` and
`handleQSpecRequest` stand; `prepared` is the handler's Map. `Endings` are the ways an
execution may end: an error is its class and its code, which is any code where the class has none of its own
(`Codes`). `Response` is `mapError`, with the code it forwards, and `Reconstructed` is
`reconstructError`; `delivery` says whether the response reached the client whole. An execution is one step: Execution says what happens inside.

**ReactQuery** (`cache.ts`, `provider.tsx`, `use-qspec-query.ts`). `entries` is the Map,
`requests` the promises that were ever started, `phase` what React has done with each reader.
React is external: it renders what is marked and retries what was suspended. `since` is history.

**Expressions** and **Pipeline** (`expression/*`, `prepare.ts`, `normalize-result.ts`,
`validate/dataset.ts`, `transforms/*`). Expressions are recursive functions on their depth.
Pipeline prepares a manifest (projecting the fields transform by transform), takes any result
of a source, normalises and validates it and executes the transforms one per step. A name is a
sequence, so that `"a_2"` is `<<"a", 2>>`; an order that a comparator leaves to the engine is a
nondeterministic choice.

**SqlScan** (`scan.ts`, `render.ts`). Its specification is `Scan`, from `ScanInit` by `ScanNext`: one action
per branch of the scanner's loop, with its variables. The statements, the characters they are made of and how numbers
are written (`Numeral`) are constants. `RenderPostgres` puts the placeholders in, and `PostgresReads` reads the result
as the server's lexer does: an independent, character-wise reference, whose state after each character is in
`ReaderAfter`.

**QueryInputs** (`validate/manifest.ts`, `parameters.ts`, `bindings.ts`, `compile.ts`, the SQL
language's `validate`). A manifest goes through stage 1 and `prepare()`, then any number of
executions with any parameters. A string is its length and what it spells.

**Manifests** (`define.ts`, `validate/manifest.ts`, `schemas/v1/qspec.json`). A manifest is a
JSON value. `ValidateManifestStructure` is the code; the schema is a record that follows the
JSON file and is interpreted by `Accepts`, which stands for Ajv. A parameter's `default` is checked by the
code (`Conforms`, `DefaultFits`) and left open by the schema. `Accepts` and `HasUnsafeKey` call
themselves, so they are constants; MCCommandLine gives them their recursive definitions, of which
`Keywords` and `UnsafeKeyIn` are one step. `ReadsWhatIsNotThere` lists
what `prepareResource` and `inspect` take from a manifest without looking.

**CommandLine** (`bin.ts`, `commands/*`, `config.ts`, `stub-source.ts`) extends it; its specification
is `Program`, from `Start` by `Step`s. A call looks
at one file per step, first its structure, then, with a config, `prepare()` in the shared
runtime, which drains the stubs queued before it. `Checks` is `prepareResource` as its list of
checks in their order, each with the error it throws.

**Charts** (`charts`, `recharts`, `inspect.ts`). A presentation is a function from the paths of its
leaves to what they hold, so that "a field somewhere else" is a path. A case is
prepared, then drawn or refused. A cell is its type and its text, as the two are what
`buildWideRows` and `resolveSeries` tell cells apart by.

`MC*.tla` give the constants their values for TLC. The theorems about a module `M` are in
`MProofs`: **ExecutionProofs**, **PluginRuntimeProofs**, **HttpExchangeProofs**,
**ReactQueryProofs**, **PipelineProofs** and **ChartsProofs**; those about PostgresSource and SqlScan are in
**PostgresProofs**, those about QueryInputs and CommandLine in **PreparationProofs**.

How the modules compose: Execution is the inside of HttpExchange's `ExecuteEnds`, whose
`Endings` are Execution's outcomes as the wire sees them; PluginRuntime is the inside of Execution's `readyFails` and
HttpExchange's `Install`; PostgresSource is one implementation of Execution's `SourceSettles`,
and its fairness below is what Execution assumes of a source; Pipeline is Execution's data;
QueryInputs and SqlScan are the inside of Execution's compilation and PostgresSource's statement;
Charts, QueryInputs and Pipeline are the inside of three of CommandLine's `Checks`, which are
`prepareResource` as a whole.

## 3. The runs

Each run takes a minute or two at most. Bounds are chosen so that each race has all
of its parties, and the mutants in `PROJECT.json` show that each property can fail under them.

| run | what it shows | bounds |
|---|---|---|
| `runtime` | Setups run in the order of `use()`, without overlap (SetupsInUseOrder). Whoever passes `ready()` reads every policy it should, except through one gap (GuardedOutsideTheGap). The first error is the one every later `ready()` throws (OriginalErrorKept). `ready()` ends (ReadyEnds). `dispose()` fulfils only after every source registered when it was called has closed (DisposeIsHonest). | 3 `use()` calls of 3 plugins (repeats included), 3 callers, 1 `dispose()`; plugins and callers take their first turn in one order (`InTurn`), their names being interchangeable |
| `runtime_gap` | The gap: see findings. | same |
| `execution` | Nothing runs that a policy did not allow (FailsClosed, FirstRefusalDecides, PolicyAbortMeansAborted); nothing is left behind (NothingLeftBehind); an aborted or timed out execution ends (StoppedEnds); and it implements GuardedExecution: the source is not asked, its answer not taken and no result returned once it was cancelled (KeepsPromise). An abort after the last check (`execute.ts:187`) reaches the source through the signal it is given. | 2 policies in any order (registering late included), 2 transforms; with and without query, signal, timeout |
| `postgres` | A cancel reaches only its own statement (CancelTargetsOwnBackend); a settled execution left no listener, client or running statement (SettledLeavesNothing); it implements StatementExecutor: no statement starts for an execution aborted by then, beyond the capacity, or after `pool.end()` has settled, and `execute()` takes up nothing after `dispose()` (ImplementsStatementExecutor); an abort ends the statement (AbortEndsStatement). | 3 executions on 1 client |
| `react` | OneRequestPerInvalidation; what is shown is the cached promise and not older than the last invalidation (NeverStale); ReadersSettle. | 2 readers, 2 resources, 3 parameter bags (one equal to another but for an undefined value), 3 requests |
| `http` | PreparedOnce, AbortHasACause; each ending arrives in the class it has in process, or in the one `reconstructError` documents for what the wire cannot carry, and a lost or foreign body gives no result (SameAsLocal); parameters are checked (ParametersAreChecked); a caller that aborts gets an answer, and an execution does not outlive its caller (BothSidesEnd). | 2 requests with 4 bodies or none, a registered and an unregistered name, 1 plugin; all graphs of 3 objects with up to 2 members at a depth limit of 2; a QSpecError of a class without a code of its own has that of a failed query or one of another class |
| `pipeline` | NothingIsLostSilently, ProjectionIsDelivered (every row has the fields, and they are those of `prepare()`), PreparedDoesNotFail, NonNullableIsNotNull; a sort keeps every row, and orders those whose cells are of one type or null (SortOrders). | every pipeline of two of 16 transforms, and of up to two for each further operator of expressions; sources with repeated, missing, swapped columns, nulls, ties, up to 4 rows at a limit of 3 |
| `pipeline_names` | A finding. | as `pipeline` |
| `scan` | ScanIsFaithful: parts and references make up the text again, and the server reads a placeholder at each gap and nowhere else. | all statements of 4 of 16 fragments, and of 5 of the 8 that nest |
| `inputs` | StagesAgree (stage 1 and `prepare()`, and `prepare()` and compilation), SentAsDeclared. | every type and rule with one parameter; two parameters and two bindings of every form; 16 values around every bound |
| `charts` | PreparedIsDrawable, EveryRowIsDrawnOnce, AxisInDatasetOrder, InspectListsTheReferences. | 7 forms of `x`, 14 of `series`, 5 of `y` and 5 others, against 4 projections; every x and group of 3 rows from null, a number and two strings |
| `cli` | VerdictIsItsOwn, ExitCodeIsTrue, AcceptedCanBeRead, ValidatorsAgree. | a manifest with every member, each of 56 nodes replaced by each of 23 (for a parameter's `type`, two at a time); every pair of 16 files, and triples, under 6 sound configs, and 7 unsound ones; parameters of every type with each of 28 defaults |

Why the bounds suffice. Two of each actor is the least with which one can interfere with
another, and no code above distinguishes a third: executions, requests and readers share only
the pool, the Map and the cache, whose entries they touch one or two at a time. In `postgres`
the client is the one thing executions meet at, so one client is the tightest case, and three
executions have one that holds it, one that waits and one that comes later. In `cli` what a file
can leave behind is a stub, a registration or a failed setup, and the pairs and triples put each
before each. The runtime
needs a third plugin, for a `use()` during the drain that follows a failed one, and a third caller:
one whose drain fails, one that starts another in the gap, and one that joins that. Two policies give a first, a last and one between the
refusal and the source; the theorems lift this to any number. Two transforms are enough for one
to spoil what the other needs; three occur for the limit on their number (`MaxTransforms` is 2
where the code's is larger, `MaxExpressionDepth` and `MaxRows` alike).

Deadlock is not checked anywhere: every model may stop, an execution that ended, a statement
that was scanned, a promise queue that ran dry. What must go on is said by liveness properties.

### Fairness

Weak fairness only, and only of what the code or its platform schedules by itself.

* Promise jobs run, and timers fire: the event loop. Setups settle (`runtime`): there is no
  timeout in the code, so a setup that hangs holds `ready()`, which is listed as a hazard.
* In `execution`, the source and the transforms need only settle *once their signal is
  aborted*: that is their contract. Policies may hang for ever, aborted or not.
* In `postgres`, `client.query` settles when the server answered it, a cancel connection
  connects or fails, and `pool.end()` settles when all clients are back. A statement may run
  for ever; `pool.connect()` may wait for ever.
* In `http`, a lost connection is noticed, `prepare()` settles, `fetch` honours its signal, and
  an execution ends once signalled. A query nobody cancels may run for ever.
* In `react`, React renders marked components and retries suspended ones, and requests settle.

## 4. The theorems

Everything below is proved for every value of the constants that meets the assumption named with
it, and so for any number of plugins, callers, executions, requests, readers, rows or transforms.
Each module has an inductive invariant `IInv`, with a lemma per action that says it is kept,
and the theorems follow from it. TLC checked each `IInv` on the instances of section 3 first (not `ScanInv`,
which speaks of every text).

| module | theorem | statement |
|---|---|---|
| ExecutionProofs | TypeCorrect | `Spec => []TypeOK` |
| | PoliciesFailClosed | `Spec => []FailsClosed` |
| | RefusalIsFinal | `Spec => []FirstRefusalDecides` |
| | PolicyAbortIsCallers | `Spec => []PolicyAbortMeansAborted` |
| | EverythingIsReleased | `Spec => []NothingLeftBehind` |
| | CancelledIsFinal | `Spec => CancelledNeverResolves`; the run checks it as a part of KeepsPromise |
| | ImplementsGuardedExecution | the initial condition and every step of the execution are those of GuardedExecution |
| PluginRuntimeProofs | RuntimeTypeCorrect | `Spec => []TypeOK` |
| | SetupsRunInUseOrder | `Spec => []SetupsInUseOrder` |
| | ReadyGuards | `Spec => []GuardedOutsideTheGap` |
| | DisposeTellsTheTruth | `Spec => []DisposeIsHonest` |
| | FirstErrorStays | `Spec => OriginalErrorKept` |
| PostgresProofs | SourceTypeCorrect | `Spec => []TypeOK` |
| | CancelStaysOnTarget | `Spec => []CancelTargetsOwnBackend` |
| | NothingIsLeft | `Spec => []SettledLeavesNothing` |
| | SourceImplementsExecutor | `Spec => ImplementsStatementExecutor` |
| | ScannedFaithfully | `Scan => []ScanIsFaithful` |
| HttpExchangeProofs | ExchangeTypeCorrect | `Spec => []TypeOK` |
| | ResourcesArePreparedOnce | `Spec => []PreparedOnce` |
| | AbortsAreOnesOwn | `Spec => []AbortHasACause` |
| | RemoteIsLocal | `Spec => []SameAsLocal` |
| | ParametersAreSound | `Spec => []ParametersAreChecked` |
| ReactQueryProofs | BindingTypeCorrect | `Spec => []TypeOK` |
| | RequestedOnce | `Spec => []OneRequestPerInvalidation` |
| | ReadersAreCurrent | `Spec => []NeverStale` |
| PipelineProofs | ColumnsAreKept | `Spec => []NothingIsLostSilently` |
| | ProjectionArrives | `Spec => []ProjectionIsDelivered` |
| | StaticValidationSuffices | `Spec => []PreparedDoesNotFail` |
| | NullsAreDeclared | `Spec => []NonNullableIsNotNull` |
| PreparationProofs | LaterStagesAgree | `Spec => []StagesAgree` |
| | ValuesAreDeclared | `Spec => []SentAsDeclared` |
| | AcceptedTheorem | `Program => []AcceptedCanBeRead` |
| | VerdictTheorem | `Program => []VerdictIsItsOwn` |
| | ExitCodeTheorem | `Program => []ExitCodeIsTrue` |
| | ValidatorsTheorem | `SchemaSemantics` implies `Program => []ValidatorsAgree` |
| ChartsProofs | ThePictureIsTheDataset | `Spec => []EveryRowIsDrawnOnce` |
| | AxisKeepsTheOrder | `Spec => []AxisInDatasetOrder` |
| | PreparedDraws | `Spec => []PreparedIsDrawable` |
| | InspectionIsComplete | `Spec => []InspectListsTheReferences` |

**Execution** (`Transforms \in Nat`). None of the properties is inductive. FailsClosed speaks of
the moment the source has been called or a result returned, but says nothing of the steps that
lead there, so a state with `pc = "authorized"` and no verdicts would satisfy it and reach one that
does not. `IInv` adds where the execution is: `Progress` says how many verdicts there are at each
location, `Refusal` that only the last can be a refusal, and that nothing is open then,
`Permitted` that whatever is open was allowed by all, `Held` at which locations a listener or the
timer exists, `Attributed` that an abort among the answers or verdicts is the caller's (together
`Located`), and `Answered` that a verdict allows exactly where the policy itself answered
"allow". The refinement uses it to show that asking and opening happen with all grants (`AuthorizedByAll`,
`AllAllowed`), that a source's answer is only taken when neither signal is aborted (`Held`: with a timeout, the
caller's abort has reached the scoped signal), and that Decide adds exactly the grant of the policy that allowed.

**PluginRuntime** (`NoPlugin` is no plugin, `MaxUses \in Nat`). What a caller may conclude from
`ready()` depends on the order of promise jobs. The heart of `IInv` is `Order`: the microtask queue
is first in, first out, and each drain goes through the same stages (the `.finally` callback, two
more jobs, the resumption of its callers), so of two drains the jobs of the earlier are of a later
stage, or of the same and further ahead. With it, when an error is stored nothing of an earlier drain
is left (`Stored`), so it is stored once; who is resumed has awaited that drain (`Resumes`); a
caller that did not look in the gap has not joined a drain after a failed one (`Joins`); and so whoever
is about to read the policies finds those it asked for (`Proceeds`). `Shifts` and `Awaits` say that drains
shift plugins in the order of `use()` and that only the drain in flight awaits a setup. Two things the
proof found: a caller that only joins a drain started in the gap gets through as well, which two
callers cannot show, and `dispose()` must not be assumed to visit the sources in one order. `TypeOK` includes
that no more drains are started than there are uses, so `Drains` is no bound on the code.

**PostgresSource** (no execution or backend is `Nothing`, the pool is finite). `Granted` says who has a
client: the backend of an execution that holds one is held by it and by no other, and a statement runs
on a backend only for its holder. `Settled` says that when an execution is done its cancel is over, and
that there is a listener only while its statement runs. A request on its way therefore finds its own statement
or none. The refinement needs that as many executions work as backends are held (`CapacityLeft`, by
counting), that who has begun to wait has or gets a client only from a pool that has not drained (`Closing`), and
that a reserved client counts as held although no statement runs on it yet. StatementExecutor states no fairness,
so SourceImplementsExecutor is the whole refinement.

**SqlScan** (the characters include those the scanner looks at; there is a numeral, made of digits, for as many
references as a statement has characters). The scanner jumps from fragment to fragment of the statement; PostgreSQL
reads, character by character, another text, in which each placeholder has moved what is behind it, and which is not
there before the scan is over. The invariant `ScanInv` therefore speaks of every text that
may still become the rendered one (`Continues`: it starts with what is rendered so far, and goes on with the
statement's next character, or with a `$` where that is a reference). In each of them the reader, where
the rendered part ends, has found the placeholders of the parameters so far and no reference, and is
a twin of the reader that has read the statement up to the scanner's place: both are in live SQL, and both in an
identifier or neither (`Twins`). The second reader is there to use the precondition, which is about the statement: where
it is not odd, the other meets no `$` that is odd. Each kind of fragment has a lemma that the two stay together through it (`Together`), by
induction over its characters, with the places compared by `Same`; strings and comments need the recursions of
`QuoteEnd` and `BlockEnd`, whose solutions `DescentExists` provides. At a reference one reader finds the name
and the other a placeholder (`ParameterRead`); both end outside of an identifier. What follows a fragment
matters for reading it, as a dollar tag or a doubled quote needs the next character, which is why `Continues` says
what it is.

**HttpExchange** (registered names are usable, `Needs` is a function; a body's parameters are a finite
graph, `IsGraph`). `Prepared` ties the counter of
`prepare()` calls to the Map; `Handled`, that only what parsed reaches a resource; `Answered`, that
what a caller is told is one of three: the exchange failed, it aborted, or what the response says. The
last is composed with `WireFacts`, which goes through classes and codes there and back: what comes out is
`Expected`, for every set `Codes`, or the error had a code of another class (`CodeMisleads`), which
section 5 describes.

ParametersAreChecked is about the walk, for any graph and any limit on the depth. `Sound` says what holds of it at
any moment: the objects entered are those on the path and those validated; each validated object has a rank, above those of
its members, which are validated and no bad ends, so nothing below it is bad or on a cycle. `RightAt` says
what a call of `CheckValue` makes of a sound walk: it throws, and then there is a reason (a cycle, a bad end or a path that
is too long), or the walk is sound again with the value validated. `WalkSound` proves it by induction on the depth
that is left, and within one object over its members (`MembersRight`). What was validated has no bad path
(`PathsDescend`, `WalkedPassable`), so an accepted body is passable; and a body the walk refuses has what it is
refused for (`NoneMisjudged`).

**ReactQuery** (readers are finite and no more than `MaxRequests`; some resource and some bag exist). `Cached`
characterises the Map: it holds exactly the requests started since the last invalidation that covers
their key, and one for each key. OneRequestPerInvalidation is then an instance; NeverStale needs `Shown`, that
an up-to-date reader's promise is in the Map, which each way of invalidating must preserve for the
readers it does not touch.

**Pipeline** (names are sequences of words and numbers; a schema's names differ, as the members of
an object do; the rows of a result are as wide as its columns). `Projections` is the projection after
each transform, by recursion, and `IInv` relates the dataset to it at each step. "Delivers" has to be
stronger than the property: with two columns of one name `select` and `rename` act on the last, so the
invariant speaks of the last field of each name. `SuffixIsFree` is a pigeonhole argument:
among `Len(columns) + 1` candidates one is free, so `UniqueNames` never runs out.

**QueryInputs** (values are values, declarations and bindings have their members' types). `Sound`
is what stage 1 has found, `Planned` what `prepare()` made of it, `Fitting` and `Bound` what
validation and resolution made of the caller's values; each later stage's check follows from them.

**CommandLine** (a call has one of the known flags; its files, a sound config's plugins and what they register
are sequences). The files of a call share one runtime, so VerdictIsItsOwn needs to know what earlier files leave in
it. `Shared` (in `ProgramInv`) says that it is the configured runtime plus stubs for the sources in
`stubbed`; a file's verdict depends on a source only by whether there is one once its own stubs are in, so it comes out as
if the file were alone (`Alone`). Plugins are set up in the order of the queue, so a failure of one is the failure that
every later file sees too. ExitCodeIsTrue is a part of the invariant; AcceptedCanBeRead holds of every manifest that
`ValidateManifestStructure` accepts. ValidatorsTheorem goes through both validators keyword by keyword, for any document. It does not say that they
are the same: what only one of them looks at is named (UnusedDeclaration, DanglingBinding, UnfitDefault), and of a
default it says that the validator rejects the manifest exactly when it does not fit. Its hypothesis
SchemaSemantics, that `Accepts` is `Keywords` of itself, is what the definition in MCCommandLine says: it calls itself on
members of the schema, so there is such a function.

**Charts** (an array has no holes and is no object, a projection is of fields the dataset has, the rows
are made of cells). `IInv` says that what was drawn or refused had been accepted, what the picture is made of, and
the cause of each error; the work is in what the picture is. `Partition`: each row belongs to a series
(with groups to one only), and a series has exactly one point for each of its rows. So an x that occurs
twice in a series is two rows, which is all that PreparedIsDrawable admits. Where no x
does, `WideRowHolds`: the row of an x holds what the dataset's rows at this x hold, each in its series, and its
`minIndex` is the first of them. As these differ, the rows can be sorted (`Orderable`, by induction over the size of
the set), and in a sorted sequence of that length none is missing (`HasAll`, a pigeonhole argument).
InspectListsTheReferences needs no invariant: it holds of every presentation.

The helpers of Pipeline are recursive functions. The library's induction theorems take an operator, which no
prover here can instantiate, so `Induction` is stated for the set of the numbers at which a fact
holds, from the well-foundedness of `<` (`WFMin`), and `Iterate` shows that a recursive definition
along the positions of a sequence has a solution. Both are used for each helper in turn.

Only model-checked:

* All liveness: the fairness part of KeepsPromise, StoppedEnds, ReadyEnds, AbortEndsStatement,
  ReadersSettle, BothSidesEnd. TLAPS does not prove ENABLED here.
* SortOrders. That there is an order as asked for needs the comparator to be total and transitive,
  which it is on cells of one type; on others SortOrders claims no order (section 5).
* ProjectionIsDelivered's counterpart for a picture without a query: ChartsAssumption says that the projected
  fields are the dataset's, which leaves out a `Dataset` resource with a chart presentation and no query, whose
  dataset is empty (`execute.ts:122`). The kind Chart requires a query.
* What an expression computes is left open in the proofs of Pipeline, which need only that it is a cell.

## 5. Findings

1. **`runtime.ts:169`** (run `runtime_gap`). `draining` is cleared three promise jobs before
   `failure` is stored. A `ready()` that looks in between finds an empty queue, no drain and no
   failure, and its execution runs without the policy whose setup failed, against
   `runtime.ts:114-116` and `execute.ts:104-106`. A caller that joins a drain started in the gap
   gets through too: the loop of `ready()` (`runtime.ts:166-177`) does not look at `failure` again.
   GuardedOutsideTheGap excepts both, and ReadyGuards proves that there is no other way.
2. **`derive.ts:65`** (run `pipeline_names`). `derive` overwrites an undeclared column of its
   field's name and yields two fields of one name, against `derive.ts:20`; compare
   `rename.ts:42-43`.

Seen while modelling, against a statement of the repository. The models have the behaviour, a property excepts it
by name, and no run is spent on it:

* `executor.ts:168-169` says that any 5xx response, "regardless of `error.code`", becomes a
  QueryExecutionError. `reconstructError` (`executor.ts:187`) looks at the code first, and `handler.ts:118`
  forwards the code of any QSpecError on a 500. An error with the code of another class, as
  `evaluate.ts:25-28` has one, arrives as that class. SameAsLocal excepts these (`CodeMisleads`).
* On mixed types the comparator of `sort.ts:44` goes round in a circle: of the cells 2, "a" and 1 the first is
  before the second and the second before the third by their position, and the third before the first by
  value. The order is then the engine's, against `docs/transforms.md:130-133`. SortOrders excepts such
  columns (`OneType`).
* The runtime's validator ignores `values` on a parameter that is no enum, and `items` on one that is no array
  (`manifest.ts:243`, `254`); the schema does not. `schema/src/index.ts:50-51` says the two never disagree and
  `validate.ts:219-220` that they are held in lockstep. A manifest with a malformed leftover is
  reported as a broken guarantee. ValidatorsAgree excepts it (UnusedDeclaration).

Also against a statement of the repository:

* A rejected `prepare()` is kept by the handler because "neither input can change"
  (`handler.ts:160-162`), but a later `use()` changes the registries; PrepareOnce and Install of
  HttpExchange have the behaviour.
* `dispose()` stops at the first source that rejects, and does not see one that is registered
  meanwhile, while `types/runtime.ts:91` says "every registered data source". DisposeIsHonest
  says what holds.
* `checkParameterValue` prunes an object it has validated, so one that is reached first near the
  root and again far below is not measured at the greater depth, against the "at any depth" of
  its comment. `JSON.parse` makes trees, for which ParametersAreChecked claims the limit.
* A config that exists but imports something that does not is reported as "Config file not
  found" (`config.ts:106-117`), although its comment says that only a missing file is.

Seen while modelling, not against any statement:

* Without a query, `prepare()` still projects the declared fields, which nothing fills
  (`execute.ts:122`); ProjectionIsDelivered excepts that path.
* A cancel request whose connection dropped can be read by the server after `cancelBackend` is over (`stray`): the
  protocol gives the client no way to know. CancelTargetsOwnBackend covers what the code controls.
* Cells that are objects all read "[object Object]", so a chart takes two of them for one x
  (`recharts/cartesian.tsx:168-170`). Charts has cells with a type and a text only.
* A statement can start after `dispose()`, on a client its execution had waited for (`source.ts:252-259`), and
  `pool.end()` then waits for it. No comment promises otherwise; it starts before `dispose()` has settled.
* A handler of `execution:complete` that aborts comes too late to change the outcome.
* `LIMIT:n` renders to `LIMIT$1`, one identifier to PostgreSQL. It fails loudly there, so
  ScanIsFaithful leaves out a reference that directly follows a word.

## 6. Not modelled

Parts that are left out entirely:

* **Hooks** (`hooks.ts`). Handlers are told of a snapshot, their errors are contained, and what
  they return is not used; the abort one may cause is in Execution at every step. What is left,
  who is told of an event when handlers subscribe during an `emit`, is one copy of a list.
* **PostgreSQL result mapping** (`normalize.ts`, `types.ts`). A table from type numbers to field
  types, and conversions of one value each: no state, no order, nothing a model would add to
  the table itself.
* **Testing helpers** and **scripts**. Fakes for tests; file copying, packing and publishing
  outside the running system, as a sequence of commands of other programs.
* **Errors** (`errors.ts`). Classes with a code and a message; Execution and HttpExchange have
  the codes.

Details that are left out of what is modelled:

* **Runtime:** `registry.replace()`, which nothing under `packages/` calls.
* **Preparation:** the policy view, which copies compiled parts; the wording and order of issues
  within one error.
* **Manifests:** the limit on the size of the text; the pattern of a metadata name is a
  set of names; formats and patterns the schema's annotations mention. A number is whole or halfway between two; the strings that
  name a day are a constant.
* **Command line:** what is printed beyond the verdicts and the number of entries; `inspect` of
  queries and transforms, which prints the manifest's own members.
* **Charts:** labels beyond whether they are accepted; colours, legends and layout; Recharts.
* **Field types** in Pipeline: declared fields keep the declared type, so the type check of
  stage 5 compares it with itself. Quotients that are not whole, and the comparison shorthand
  (written out), in Expressions. The well-formedness of a transform's own keys.
* **QueryInputs:** holes of sparse arrays, which only in-process callers can pass; `min` and `max` on an array, which
  the code does not apply to its items; formats of dates beyond being well formed and being real dates.
* **SqlScan:** string literals continued across a line end; letters beyond those an
  identifier, an escape string or a dollar tag tells apart.
* **PostgreSQL:** the server is assumed to read a cancel request after the statement it is for
  has started; error listeners, which change no state.
* **HTTP:** headers and status lines beyond what `reconstructError` reads.
* **React:** warnings; React's own scheduling, beyond rendering and retrying.

What could go wrong without a property to say so: a setup that never settles holds every `ready()`
for ever (`runtime.ts:133`), and `pool.connect()` does not end on an abort (`source.ts:177`).
The code gives no way out of either, so there is no promise to check. Without a query the promised
fields are projected from a declaration nothing fills (`execute.ts:122`), and the repository does not
say what should be delivered.

## 7. Plan

Done: the core (PluginRuntime, Execution with its abstract specification, PostgresSource with its own,
HttpExchange with WireProtocol, ReactQuery), the data path (Pipeline, Expressions, SqlScan, QueryInputs), the
edges (Manifests, CommandLine, Charts), and the proofs of section 4. What stays with TLC is listed at
the end of that section.
