------------------------------ MODULE CommandLine ------------------------------
(***************************************************************************)
(* `qspec validate` and `qspec inspect` (packages/cli): several manifests  *)
(* in one process, which share one runtime when a --config names plugins.  *)
(* prepareResource() (packages/core/src/internal/prepare.ts) is its list   *)
(* of checks; the plugins' own validators are in SqlScan, Pipeline and     *)
(* Charts, and here a set of the nodes they object to.                     *)
(***************************************************************************)
EXTENDS Manifests

CONSTANTS
    AnyLanguage,    \* what a source without supportedLanguages supports
    Rejected,       \* the nodes a plugin's validate() reports an issue of
    MaxTransforms,
    Invocations     \* what the command line may be, see CommandLineAssumption

VARIABLES
    invocation, \* the flags, the command, the config module and the files
    stage,      \* "main", "config", "files" or "done"
    runtime,    \* of createQSpec(): registries, queued plugins and whether a setup failed
    stubbed,    \* the sources a stub is queued or installed for
    verdicts,   \* one for each file looked at
    entries,    \* the files in the JSON output of inspect
    exit        \* the exit code

programVars == <<invocation, stage, runtime, stubbed, verdicts, entries, exit>>

Registries == {"resources", "queryLanguages", "sources", "transforms", "presentations"}
NotYet == 3

(* A plugin is what its setup registers, in order, and whether it then      *)
(* throws.                                                                 *)
Registration(registry, name, implementation) ==
    [registry |-> registry, name |-> name, implementation |-> implementation]

TypeOK ==
    /\ invocation \in Invocations
    /\ stage \in {"main", "config", "files", "done"}
    /\ DOMAIN runtime.registries = Registries /\ runtime.failed \in BOOLEAN
    /\ Len(verdicts) <= Len(invocation.paths) /\ Len(entries) <= Len(verdicts)
    /\ exit \in 0 .. NotYet

-----------------------------------------------------------------------------
(* The runtime: registries and the queue of plugins.                       *)

Empty == [name \in {} |-> AnyLanguage]
Kind(requiresQuery, requiresPresentation) ==
    [requiresQuery |-> requiresQuery, requiresPresentation |-> requiresPresentation]

NewRuntime ==
    [registries |-> [r \in Registries |->
        IF r = "resources" THEN [name \in {"Dataset"} |-> Kind(FALSE, FALSE)] ELSE Empty],
     queue |-> <<>>, failed |-> FALSE]

Has(registries, registry, name) == name \in DOMAIN registries[registry]

Extended(registry, name, implementation) ==
    [n \in DOMAIN registry \cup {name} |-> IF n = name THEN implementation ELSE registry[n]]

(* register() throws on a name that is taken.                              *)
Register(state, r) ==
    IF state.failed THEN state
    ELSE IF Has(state.registries, r.registry, r.name) THEN [state EXCEPT !.failed = TRUE]
    ELSE [state EXCEPT !.registries[r.registry] = Extended(@, r.name, r.implementation)]

RegisterAll(state, registrations) ==
    LET after[i \in 0 .. Len(registrations)] ==
            IF i = 0 THEN state ELSE Register(after[i - 1], registrations[i])
    IN after[Len(registrations)]

(* Mutant: the stub is registered without looking.                         *)
Registers_Always(state, plugin) == plugin.registers

(* What a setup registers; a stub never shadows a source that is there.     *)
Registers(state, plugin) ==
    IF plugin.stub /\ \E i \in DOMAIN plugin.registers :
                        Has(state.registries, plugin.registers[i].registry, plugin.registers[i].name)
    THEN <<>> ELSE plugin.registers

Setup(state, plugin) ==
    IF state.failed THEN state
    ELSE [RegisterAll(state, Registers(state, plugin)) EXCEPT !.failed = @ \/ plugin.throws]

(* ready(): a setup that failed fails every later one as well.             *)
Ready(state) ==
    LET after[i \in 0 .. Len(state.queue)] ==
            IF i = 0 THEN [state EXCEPT !.queue = <<>>] ELSE Setup(after[i - 1], state.queue[i])
    IN after[Len(state.queue)]

-----------------------------------------------------------------------------
(* prepareResource(): the first check that fails.                          *)

Known(registries, registry, n) == Is("string", n) /\ Has(registries, registry, n.string)

Checks(manifest, registries) ==
    LET spec == Member(manifest, "spec")
        query == Member(spec, "query")
        presentation == Member(spec, "presentation")
        known(registry, n) == Known(registries, registry, n)
        kind == IF known("resources", Member(manifest, "kind"))
                THEN registries.resources[Member(manifest, "kind").string] ELSE Kind(FALSE, FALSE)
        source == IF known("sources", Member(query, "source"))
                  THEN registries.sources[Member(query, "source").string] ELSE AnyLanguage
        transforms == Items(Member(spec, "transforms"))
        check(fails, error) == [fails |-> fails, error |-> error]
    IN <<check(~known("resources", Member(manifest, "kind")), "UnknownResourceKind"),
         check(query = Absent /\ kind.requiresQuery, "Manifest"),
         check(query # Absent /\ ~known("queryLanguages", Member(query, "language")), "UnknownQueryLanguage"),
         check(query # Absent /\ ~known("sources", Member(query, "source")), "UnknownDataSource"),
         check(query # Absent /\ source # AnyLanguage /\ ~IsOneOf(Member(query, "language"), source), "Manifest"),
         check(query \in Rejected, "Manifest"),
         check(Len(transforms) > MaxTransforms, "Limit"),
         check(\E i \in DOMAIN transforms :
                    ~known("transforms", Member(transforms[i], "type")) \/ transforms[i] \in Rejected,
               "Manifest"),
         check(presentation = Absent /\ kind.requiresPresentation, "Manifest"),
         check(presentation # Absent /\ ~known("presentations", Member(presentation, "type")), "Manifest"),
         check(presentation \in Rejected, "Presentation"),
         check(spec \in Rejected, "Manifest")>>

Prepared(manifest, registries) ==
    \A i \in DOMAIN Checks(manifest, registries) : ~Checks(manifest, registries)[i].fails

PrepareError(manifest, registries) ==
    LET checks == Checks(manifest, registries)
    IN checks[Min({i \in DOMAIN checks : checks[i].fails})].error

-----------------------------------------------------------------------------
(* The program.                                                            *)

Exit(code) == stage' = "done" /\ exit' = code

Start ==
    /\ invocation \in Invocations
    /\ stage = "main" /\ exit = NotYet
    /\ runtime = NewRuntime /\ stubbed = {}
    /\ verdicts = <<>> /\ entries = <<>>

Runs(i) ==
    /\ i.command = "validate" \/ (i.command = "inspect" /\ i.config = Absent)
    /\ i.paths # <<>>

(* parseArgs() and the dispatch; both commands refuse to run on no files.   *)
Main ==
    /\ stage = "main"
    /\ LET i == invocation
       IN CASE i.flag = "unknown" -> Exit(2)
            [] i.flag \in {"help", "version"} -> Exit(0)
            [] i.flag = "none" /\ ~Runs(i) -> Exit(2)
            [] OTHER -> /\ stage' = IF i.config = Absent THEN "files" ELSE "config"
                        /\ UNCHANGED exit
    /\ UNCHANGED <<invocation, runtime, stubbed, verdicts, entries>>

(* extractConfig(): a named export wins over the default one.              *)
Exported(module) == IF module.plugins # Absent THEN module.plugins ELSE Member(module.default, "plugins")

ConfigIsSound(module) ==
    /\ module.loads
    /\ Is("array", Exported(module))
    /\ \A i \in DOMAIN Exported(module).array : Is("plugin", Exported(module).array[i])
    /\ \A i, j \in DOMAIN Exported(module).array :     \* use() refuses a name twice
        Exported(module).array[i].plugin.name = Exported(module).array[j].plugin.name => i = j

(* What the command line and a config module may be.                        *)
IsSequence(s) == s \in Seq({s[k] : k \in DOMAIN s})

ASSUME CommandLineAssumption ==
    \A i \in Invocations :
        /\ i.flag \in {"none", "help", "version", "unknown"} /\ IsSequence(i.paths)
        /\ i.config # Absent /\ ConfigIsSound(i.config) =>
            /\ IsSequence(Exported(i.config).array)
            /\ \A k \in DOMAIN Exported(i.config).array :
                IsSequence(Exported(i.config).array[k].plugin.registers)

LoadConfig ==
    /\ stage = "config"
    /\ IF ConfigIsSound(invocation.config)
       THEN /\ stage' = "files" /\ UNCHANGED exit
            /\ LET plugins == Exported(invocation.config).array
               IN runtime' = [runtime EXCEPT !.queue = [i \in DOMAIN plugins |-> plugins[i].plugin]]
       ELSE Exit(1) /\ UNCHANGED runtime
    /\ UNCHANGED <<invocation, stubbed, verdicts, entries>>

Looking(command) ==
    /\ stage = "files" /\ invocation.command = command
    /\ Len(verdicts) < Len(invocation.paths)

File == invocation.paths[Len(verdicts) + 1]

(* The verdict on a file before its plugins are asked.                      *)
StructuralVerdict(file) ==
    CASE ~file.readable -> "unreadable"
      [] file.readable /\ ~Parses(file.document) -> "unparsable"
      [] OTHER ->
            IF ~ValidateManifestStructure(file.document) THEN "invalid"
            ELSE IF invocation.command = "validate" /\ ~ValidateWithJsonSchema(file.document)
            THEN "mismatch"
            ELSE "valid"

(* A file that is decided without prepare().                                *)
ValidateFile ==
    LET verdict == StructuralVerdict(File)
    IN /\ Looking("validate")
       /\ verdict # "valid" \/ invocation.config = Absent
       /\ verdicts' = Append(verdicts, verdict)
       /\ UNCHANGED <<invocation, stage, runtime, stubbed, entries, exit>>

Stub(source) ==
    [name |-> <<"stub-source", source>>, stub |-> TRUE, throws |-> FALSE,
     registers |-> <<Registration("sources", source, AnyLanguage)>>]

(* The runtime that prepares a manifest: with a stub for its source.        *)
StubSource(state, manifest) ==
    LET source == Member(Member(Member(manifest, "spec"), "query"), "source")
    IN IF source = Absent \/ source.string \in stubbed THEN state
       ELSE [state EXCEPT !.queue = Append(@, Stub(source.string))]

PrepareFile ==
    LET manifest == File.document
        source == Member(Member(Member(manifest, "spec"), "query"), "source")
        ready == Ready(StubSource(runtime, manifest))
    IN /\ Looking("validate") /\ invocation.config # Absent
       /\ StructuralVerdict(File) = "valid"
       /\ stubbed' = IF source = Absent THEN stubbed ELSE stubbed \cup {source.string}
       /\ runtime' = ready
       /\ verdicts' = Append(verdicts,
                        IF ready.failed THEN "Setup"
                        ELSE IF Prepared(manifest, ready.registries) THEN "valid"
                        ELSE PrepareError(manifest, ready.registries))
       /\ UNCHANGED <<invocation, stage, entries, exit>>

InspectFile ==
    LET verdict == StructuralVerdict(File)
    IN /\ Looking("inspect")
       /\ verdicts' = Append(verdicts, verdict)
       /\ entries' = IF verdict = "valid" /\ invocation.json THEN Append(entries, File) ELSE entries
       /\ UNCHANGED <<invocation, stage, runtime, stubbed, exit>>

(* Mutant: the last file decides.                                          *)
Failed_Last == verdicts[Len(verdicts)] # "valid"

Failed == \E i \in DOMAIN verdicts : verdicts[i] # "valid"

Finish ==
    /\ stage = "files" /\ Len(verdicts) = Len(invocation.paths)
    /\ Exit(IF Failed THEN 1 ELSE 0)
    /\ UNCHANGED <<invocation, runtime, stubbed, verdicts, entries>>

Step == Main \/ LoadConfig \/ ValidateFile \/ PrepareFile \/ InspectFile \/ Finish

Program == Start /\ [][Step]_programVars

-----------------------------------------------------------------------------
(* A file gets the verdict it would get alone: what the files before it      *)
(* left in the shared runtime, its stubs and its registries, decides        *)
(* nothing (validate.ts:132-153).                                           *)
Alone(file) ==
    LET source == Member(Member(Member(file.document, "spec"), "query"), "source")
        plugins == Exported(invocation.config).array
        configured == Ready([NewRuntime EXCEPT !.queue = [i \in DOMAIN plugins |-> plugins[i].plugin]])
        stub == Registration("sources", source.string, AnyLanguage)
        registries ==
            IF source = Absent \/ Has(configured.registries, "sources", source.string)
            THEN configured.registries ELSE Register(configured, stub).registries
    IN IF StructuralVerdict(file) # "valid" \/ invocation.config = Absent THEN StructuralVerdict(file)
       ELSE IF configured.failed THEN "Setup"
       ELSE IF Prepared(file.document, registries) THEN "valid"
       ELSE PrepareError(file.document, registries)

VerdictIsItsOwn ==
    \A i \in DOMAIN verdicts : verdicts[i] = Alone(invocation.paths[i])

(* 0 is the exit code of a program that looked at every file it was given    *)
(* and found nothing wrong with any, and of one asked for its help          *)
(* (validate.ts:183-260, bin.ts:55-114).                                    *)
ExitCodeIsTrue ==
    stage = "done" =>
        (exit = 0 <=> \/ invocation.flag \in {"help", "version"}
                      \/ /\ invocation.flag = "none" /\ Runs(invocation)
                         /\ invocation.config # Absent => ConfigIsSound(invocation.config)
                         /\ \A i \in DOMAIN invocation.paths : Alone(invocation.paths[i]) = "valid")

Documents == {file.document : file \in {f \in ToSet(invocation.paths) : f.readable}}

(* Stage 1 is what lets the later stages, and inspect, read a manifest       *)
(* without looking: what it accepts holds nothing that would make one of    *)
(* them throw a TypeError (manifest.ts:400-517, prepare.ts:207-324).        *)
AcceptedCanBeRead ==
    \A n \in Documents : ValidateManifestStructure(n) => ~ReadsWhatIsNotThere(n)

(* A parameter that declares `values` or `items` its type has no use for.   *)
(* The runtime's validator does not look at them, the schema does.          *)
UnusedDeclaration(n) ==
    LET parameters == Member(Member(n, "spec"), "parameters")
    IN \E key \in Keys(parameters) :
        \/ /\ ~IsOneOf(Member(parameters.object[key], "type"), {"enum"})
           /\ Member(parameters.object[key], "values") # Absent
        \/ /\ ~IsOneOf(Member(parameters.object[key], "type"), {"array"})
           /\ Member(parameters.object[key], "items") # Absent

(* A binding whose parameter is not declared, or not a string: the schema    *)
(* cannot express the first and takes the second for a literal.             *)
DanglingBinding(n) ==
    LET spec == Member(n, "spec")
        bindings == Member(Member(spec, "query"), "bindings")
        declared == Keys(Member(spec, "parameters"))
    IN \E key \in Keys(bindings) :
        \/ IsOneOf(bindings.object[key], DOMAIN References)
           /\ References[bindings.object[key].string] \notin declared
        \/ ~(Member(bindings.object[key], "parameter") = Absent
             \/ IsOneOf(Member(bindings.object[key], "parameter"), declared))

(* A parameter whose default is not a value it could be given.              *)
UnfitDefault(n) ==
    LET parameters == Member(Member(n, "spec"), "parameters")
    IN \E key \in Keys(parameters) :
        /\ Member(parameters.object[key], "default") # Absent
        /\ ~Conforms(parameters.object[key], Member(parameters.object[key], "default"))

(* The two validators of the structure agree on every other manifest.  An    *)
(* unfit default is the one thing the schema leaves to the runtime's        *)
(* validator on purpose (parity-table.test.ts:127-151), which finds it, so   *)
(* that `qspec validate` accepts no declaration that prepare() will reject  *)
(* (parameters.ts:258-262, validate.ts:219-222, schema/src/index.ts:48-52). *)
ValidatorsAgree ==
    \A n \in Documents :
        /\ ValidateManifestStructure(n) /\ ~UnusedDeclaration(n) => ValidateWithJsonSchema(n)
        /\ ValidateWithJsonSchema(n) /\ ~DanglingBinding(n) =>
            (ValidateManifestStructure(n) <=> ~UnfitDefault(n))
=============================================================================
