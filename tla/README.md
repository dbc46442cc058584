# zdp-api-contracts: a TLA+ verification project

The repository keeps the API contracts of a platform as YAML under `contracts/`,
and the TypeScript and GitHub workflows that load, validate, compare, export and
release them as an npm package. Its promise to consumers is about *versions*: a
change of the contracts that can break somebody is announced by the version of the
package, and what npm serves is what was checked. This project states that promise
and the parts it stands on, checks them with TLC and proves the most important
ones with TLAPS.

Paths below are relative to the repository root.

## 1. Inventory

| Component | Source | State it keeps | Operations | Module(s) |
| --- | --- | --- | --- | --- |
| Comparer strategies | `scripts/lib/compatibility-{shared,route,schema,calculators,families,access-http}.ts`, `contract-compatibility.ts` | none (pure) | one comparison per contract family, `highestLevel` | CompatStrategies, ContractComparer, ContractEvolution, CalculatorEvolution |
| Typed property comparer | `scripts/lib/compatibility-typed-properties.ts` | none (pure, recursive) | `compareTypedProperties` | TypedProperties |
| Version gate | `scripts/lib/compatibility-semver.ts` | none (pure) | `evaluateApiContractVersionGate` | VersionGate |
| Compatibility check script | `scripts/check-contract-compatibility.ts` | temporary directory, concurrent copies and reads, exit code | `run()` | CompatCheck |
| CI gate and release gate | `.github/workflows/ci.yml`, `release.yml`, `RUNBOOK.md` | main, tags, runs, published versions | choice of the base, comparison, publication | ReleaseLine |
| Release job | `.github/workflows/release.yml`, `RUNBOOK.md` | step of each run, npm registry, what `npm view` sees | the steps of the job, rerun, moved tags, late requests | ReleaseJob, PublishPromise |
| Contract loader, family registry | `src/api-contracts/registry-loader.ts`, `family-registry.ts`, `contract-source.ts` | results of two phases of concurrent reads | `loadApiContracts`, `validateApiContractFamilyRegistry` | ContractLoader |
| Legacy loaders | `src/api-contracts/parser.ts`, `strict-parser.ts` | results of two phases of reads, and a second reading of the same files | `loadApiContracts` | StrictLoader |
| Contract validators | `src/api-contracts/validator.ts`, `registry-validator.ts`, `validation/` | none (pure) | one validator per family | ContractRules, SurfaceRules, FamilyRules, CalculatorRules |
| Contract check CLI, error-code catalog | `src/api-contracts/cli*.ts`, `error-code-catalog.ts`, `openapi-route-catalog.ts` | options, findings so far, what it read at three moments, the report, the exit code | `runApiContractCheckCli` | ContractCheck, ErrorCodes, RouteCatalogCheck |
| OpenAPI builder | `src/api-export-plan/openapi.ts`, `access-decision-http.ts` | none; three readings of the disk | `buildOpenApi31Document` | OpenApiBuild, FamilyContracts |
| Export plan | `src/api-export-plan/plan.ts`, `cli.ts` | none (pure) | `buildApiExportPlan` | ExportPlan |
| Typed schemas | `src/api-export-plan/typed-schema.ts` | none (pure, recursive; one reading) | `loadTypedSchemaRegistry`, `parseTypedSchemaBundle` | TypedSchemas, OpenApiBuild |
| YAML parsers | `src/api-contracts/parsers/` | none | conversion field by field | not modelled |
| Build and smoke scripts | `scripts/*.ts` | none | file copies, child processes | not modelled |
| Declared product protocols | `contracts/apis/**` | lifecycles in YAML, run in other repositories | their lists are held by validators | only those lists, in FamilyRules |

How they interact:

- `compatibility:check` (CompatCheck) copies the contracts of a git ref, calls the
  *loader* twice, passes both results to the *comparer*, and its level with the two
  package versions and the migration document to the *gate*.
- CI runs it with `github.event.before` as base; the release workflow runs it with
  the nearest tag below the tagged commit (ReleaseLine). The same *operators*
  decide in the modules: ReleaseLine and CompatCheck extend VersionGate, and
  MCReleaseLine computes its levels with CompatStrategies.
- The release workflow around that check, with npm as its only partner, is
  ReleaseJob. `compared`/`published` of ReleaseLine are its steps `checks` and
  `publish`, `Acceptable` of ReleaseJob is the outcome of the checks.
- The OpenAPI builder publishes what a schema admits; ContractEvolution judges the
  comparer by that meaning. Comparer and builder read the same typed metadata, one raw
  and one through a strict parser; TypedSchemas puts the two readings side by side.
- The builder validates what the *loader* returned (ContractRules), then reads the
  bundles again for their properties and joins both readings (OpenApiBuild). The *export
  plan* makes its own choice from the same loaded contracts (ExportPlan), and the
  validators of the product families say what neither may show (FamilyContracts).
- The *contract check* runs a load and the validators of ContractRules (by INSTANCE), adds
  the error-code catalog and one OpenAPI document, and reports (ContractCheck).
- Two loaders read the same tree: the registry's, used by every tool, and the strict one
  it took over from, which a test keeps equal to it on the committed tree. They differ in one
  thing: the registry's refuses a file that a link leads out of the root
  (`contract-source.ts:19-25`), the strict one looks at names only and follows the link
  (`parser.ts:323-331`, `strict-parser.ts:279-290`). StrictLoader says that this is all.
- The comparer lets calculators change, and the conformance fixtures keep what an engine
  may answer in bounds; CalculatorEvolution puts both together.

What is hard here, and which property looks after it:

- *sequences*: every comparison sees one step, consumers skip steps
  (`RequestsStillAccepted`, `ResponsesStillUnderstood`, `CallsStillServed`,
  `DirectNoHeavierThanSteps`, `EnginesStillConform`, `MainAnnouncesChanges`,
  `ReleaseAnnouncesChanges`, `PublishedAnnounceChanges`);
- *concurrent reads with partial failure*: `Promise.all` and `Promise.allSettled`
  in the loaders and in the script (`ReportsEveryFailure`, `LeavesNothingBehind`,
  `FailsClosed`, `LoadSettles`, `Terminates`);
- *several parts of one verdict*, some of which throw (`VerdictIsExact` and
  `ReportTellsTheExit` of ContractCheck, `FindingsPointToTheirFile`, `CheckEnds`), from
  arguments in any order (`OptionsAreHonoured`);
- *stale readings*: files and refs that change during a load or a run
  (`ReturnedContractsHang`, `QuietLoadIsAtomic`, `ZeroIsEarned`, `VerdictIsExact` of
  CompatCheck), properties read after the validators (`SecretsAreNotEchoed`,
  `ComponentsHangTogether`, `AuthorityStaysWithTheServer`, `NeverThrows`);
- *one name for two things*: components, places of routes, headers
  (`ReferencesResolve`, `EveryRouteHasItsPlace`, `HeadersDiffer`);
- *two readers of one text* (`SilentReleasesPublishTheSame`, `PublishedComparesEqual`,
  `LoadersAgree`), and *two writers of one surface* (`PlanMatchesDocument`,
  `PlanKeepsMetadata`);
- *an unreliable registry*: lost and late publish requests, lagging `npm view`,
  reruns, moved tags (`PublishedIsVetted`, `SuccessIsAnchored`, `KeepsPromise`,
  `RunsEnd`, `Recovers`).

`PROJECT.json` lists every hazard at its line, including those no property covers
yet and why.

## 2. Modules

```
VersionGate <- CompatStrategies <- TypedProperties <- ContractComparer
ContractComparer <- ContractEvolution <- MCContractEvolution
ContractEvolution, CalculatorRules <- CalculatorEvolution <- MCCalculatorEvolution (with MCContractEvolution)
ContractComparer <- TypedSchemas <- MCTypedSchemas (ComparerProofs extends TypedSchemas)
VersionGate <- ReleaseLine <- MCReleaseLine (with CompatStrategies)
VersionGate <- CompatCheck <- MCCompatCheck
ContractLoader <- StrictLoader <- MCContractLoader
ContractRules <- OpenApiBuild; OpenApiBuild, SurfaceRules <- ExportPlan
ExportPlan, FamilyRules <- FamilyContracts <- MCOpenApiBuild
ErrorCodes, RouteCatalogCheck <- ContractCheck <- MCContractCheck (ContractRules by INSTANCE)
PublishPromise <=(INSTANCE, refinement)= ReleaseJob <- MCReleaseJob
```

Each `<X>Proofs` module extends TLAPS and the module its name begins with; ComparerProofs is
about ContractComparer and TypedSchemas, ContractEvolutionProofs extends it and CalculatorEvolution,
ContractLoaderProofs extends StrictLoader, OpenApiBuildProofs FamilyContracts, and
ReleaseLineProofs has the theorem on VersionGate as well.

**VersionGate.** A version is the triple `parseVersion` returns, `NotSemVer` its
null. `GateDiagnostics` is the set of codes `evaluateApiContractVersionGate`
returns; the twelve or so text rules of a migration document are one value
(`missing`, `incomplete`, `complete`). `Allowance` is no code: it is what a consumer
reads off two versions (equal, same major.minor, same major of at least 1, other),
and the theorems are stated with it.

**CompatStrategies, TypedProperties, ContractComparer.** One operator per comparison function; a
change record is abstracted to its level, so an operator returns the set of levels
its function pushes. Lists that the code turns into Sets or Maps are sets and
functions. Fields that go through the same strategy are one field: `anchor` of a
route, a schema or a bundle stands for all its `compareBreakingScalar` fields,
`allowed` of the route contract for its three allowlists, `requiredItems`,
`allowedItems` and `forbiddenItems` for the sets of the error envelope, webhook and
SDK contracts, `structural` for the families whose every difference is breaking.
TypedProperties also has `Admits`, the values the JSON schema of
`propertyToOpenApiSchema` admits, for a closed reader (the document says
`additionalProperties: false`) and for one that ignores unknown fields. Properties
are trees: the parser of the export plan refuses cycles. `compareProperty` calls itself level
by level, and so the model counts: `PairsAt(base, head)[d]` are the pairs it has reached after
`d` calls, `TypedChanges` what it pushes for all of them and for the depth limit. Written as
recursive functions on the level, comparison and `Admits` can be proved about.

**ContractEvolution.** A consumer is `built` against one contract tree, the service
is at `served`, `worst` is the heaviest level reported in between. `Evolve` is one
compared step, `Rebuild` the consumer catching up. The properties relate `built` and
`served` directly, however many steps lie between. The trees are those that were exported:
`PropertiesAssumption` and `WellFormed` say what the parser of the export plan and the
validators have established before a tree is released (nesting within the limit,
typed-schema.ts:322; required fields among the properties, :451; a property for each listed
field and no other, :264-290: `AcceptedTextsAreWellFormed` proves these three of every text
TypedSchemas accepts; revisions of OIDC clients from 1, oidc-client-registry.ts:100
and :205). `JudgedAssumption` of CalculatorEvolution says the same of the trees it judges:
their calculators passed validateCalculatorCatalog and validateCalculatorConformance.

**ReleaseLine.** `main` is a sequence of commits (version, contracts, bases it has a
migration document for). `Push` starts a CI run and cancels the one in progress
(`cancel-in-progress: true`), `CiPasses`/`CiFails` end it, `Tag` creates a tag,
`Compare(p, b)` is a release run getting past the compatibility step against the
base `b` that `git describe` finds, `Publish` and `Abort` end the run. `chain[p]` is
a history variable: the positions `p` reaches from base to base.

**CompatCheck.** `run()` from `mkdtemp` to the end of its finally block; one task per
listed file (`show`, `mkdir`, `write`), the three reads of the second `Promise.all`,
and every rejection. `git show` resolves the ref anew, so the ref may move between
two files (`Disturb`). `mkdir -p` creates the temporary directory again if it is gone,
which is why the code waits for all copies before the finally block removes it.

**ContractLoader.** `validate`, then concurrent reads of the families, a join, then
concurrent reads of the bundles the catalog just read asks for, a join. `Edit` changes a
file at any time. What a file holds is abstracted to what a loader learns from it: of
its two parts, the family and the schema bundle, which have all their fields in the right
types (`typed`) and which have no unknown ones (`known`), which files its refs name, and
whether it lies within the root once links are resolved (`inside`). `Readable` is
`readContractSource`: a file that is there and inside; any other fails its read. `Picked` is
filter(): the positions of a list that satisfy a condition, in order.

**StrictLoader.** The older loader over the same files: parser.ts reads the family files
one kind after the other and the bundles, then strict-parser.ts reads a list of files again
and looks for unknown fields. `Asserted`, `Permissive` and `WithBundle` are the differences
between its parsers and the registry's. `Possible` says which contents a file can have: only
the catalog has schema refs, and an assertion that does not know the keys of a schema bundle
rejects a file that has them. Both readings of this loader ask only that a file is there
(`TypedFamily`, `TypedBundle`, `AssertionHolds`), not that it is inside, so `LoadersAgree`
says: on a tree nobody edits the registry's load succeeds if and only if the strict one does
with contracts whose files are all inside (`StaysInside`), and then both return the same. One behaviour is
a strict load and after it a registry load of the same tree.

**TypedSchemas.** A property is a function from the keys it has to their values, so a
key can be absent, malformed or out of place; `Raws` are the properties that may be written,
with those inside them, `Texts` the schemas over them. Both readers go level by level, as
TypedProperties does: `RawsAt(properties)[d]` are the properties the parser has come to `d`
levels down, `Diagnostics` the codes it reports for one of them at its depth, `SchemaDiagnostics`
all of a text. What the builder makes of a property is `Published[<<levels, raw>>]`, what the
comparer sees of it `View[<<levels, raw>>]`, where `levels` is how many more that reader may
still go down; `Component` and `Viewed` are the two readings of a whole text. `Release` is a
version the builder accepts and the comparer has compared with the one before; `generated`
stays behind until something was reported.

**ContractRules.** The validators as predicates on one loaded value: unique routes, schema
refs and what must agree across them, idempotency, bodies and statuses, error codes,
echoed secrets, secret fields, header collisions. The flag `valid` of a route or a schema
is the conjunction of the rules on that value alone; `ceremony` of a route is what
`isSingleUsePasskeyLoginRoute` compares with constants.

**OpenApiBuild.** One build: `ReadCatalog`, a `ReadBundle` per file, `Validate`, a
`ReadTyped` per file, `JoinTyped`, `Build`. `first` and `second` are the two readings,
`Edit` changes a bundle file at any time in between. The load is ContractLoader's without
its families; a file is `[contract, typed, service, owner, key, schemas]`. Of the document
it keeps the place of every route, the references, the header and query parameters, and
of a component its fields, required and secret ones.

**ExportPlan, SurfaceRules.** The plan reads no file, so it is an operator: `PlanResult` of
the catalog and bundles OpenApiBuild has read and of the lists of the shared contracts.
SurfaceRules has the validators of these lists; a list is a set, the fixed single values of a
contract one bit.

**FamilyRules, FamilyContracts.** One operator per validator of a product family: what its own
contract file must keep, and what it asks of routes and bundles. The reviewed tables of the
code are the constant `Reviewed`, as the rules relate a table to a list and never depend
on an entry. FamilyContracts says what these rules are for, over the document of OpenApiBuild:
the bundles of access decisions and sessions change under the build, those of the other
families and their contracts are taken from `Rest`.

**ContractCheck, ErrorCodes, RouteCatalogCheck.** `runApiContractCheckCli` from the first
argument to the exit code: the option loop with its look at the next argument, load and
validation, the error codes and the document in one try block, the report in three formats and
the output file. Arguments are records that say how they divide at `=`; findings keep their
part and their file; `comparison` is the set of them that the document gave, empty without a
document. The shape of arguments (`ArgumentsAssumption`) and of loaded files (`FilesTyped`) is
assumed as `splitInlineOption` and the parsers make it, and that `localeCompare` orders the
codes (`CodeOrderAssumption`). ErrorCodes and RouteCatalogCheck are the two pure comparisons.

**CalculatorRules, CalculatorEvolution.** The rules of the calculator catalog and of its
fixtures, on the same value the comparer takes. `Computable` is what an engine has to compute,
`AnswerFits` what it may answer; CalculatorEvolution extends ContractEvolution by trees
that satisfy these rules and compares both sets between `built` and `served`.

**ReleaseJob, PublishPromise.** One run per (tag, commit); the steps of the job in
order, with the `if:` conditions that skip the publish step or the source anchor.
`Accept` is npm taking a version once; `Fails` is a step failing for a reason outside
the commit (network, the 20-minute timeout), and if the publish request was out it
may still land (`LandLate`), also after another run of the same tag has begun. `Views`
is `npm view`: it sees what has propagated, and any error counts as a no, as in the
shell script. PublishPromise is the abstract specification: a version is published
once, from an acceptable commit, and only the commit npm serves is reported. ReleaseJob
implements it under `source <- registry, reported <- Reported`.

Each mutant in a module ("Mutant of X") is X with one plausible slip. It is used by
no action; it documents which slip the property of a run would find, and PROJECT.json
says which.

## 3. Runs

| Run | Shows | Bounds, and why they are enough |
| --- | --- | --- |
| `evolution` | Over every sequence of versions of one surface: requests stay accepted and responses understood until a step is breaking, calls stay served, a patch changes no message, a direct comparison is no heavier than the steps, and engines of reviewed calculators stay right | One surface varied at a time (the level of a tree is the maximum over surfaces). Schemas: every scalar type, format, enum (none, one, two values), nullability, objects with two fields, one level of nested objects and arrays, fields required/optional/absent, as request and response; the comparer treats fields independently, and each strategy distinguishes at most two old and two new values. Other surfaces: sets over two items give every kept/lost/new pattern; revisions 0..3. Calculators: one exact and one with decimals, an optional or required extra input or output of each kind, with the fixtures the validators accept |
| `release_line_open` | Tags on any commit in any order, overlapping releases: a stretch of passed CI runs, and a chain of bases, announces its accumulated change | 3 commits, 2 contracts (a feature one way, breaking back), 4 versions with every bump: a chain needs two links, a stretch two steps |
| `release_line_orderly` | With tags that follow main on green commits, any two published versions announce what separates them | 3 commits, 3 contracts, 0.x versions and one that is no SemVer, with and without migration documents |
| `release_line_preceding` | *violation*: the base is the nearest tag, published or not | 4 commits are the least that show it; two contracts that break each other |
| `contract_loader` | Every error path of a strict and of a registry load, every order of the reads, an edit in between; on a tree nobody edits both loaders agree but for links out of the root | 3 families (the catalog, one that is a bundle as well, one whose parser lets unknown fields pass), 4 files of 9 contents (one for each defect, refs of every kind, a right family and a right bundle behind a link that leads outside), 11 registries (one per kind of mistake), 1 edit: between two readings of one file is the case that matters. The loads run one after the other, as they share only the files |
| `compat_check` | Every failure and interleaving of the script: it cleans up, fails closed, and left alone its verdict is exact | 2 safe files and 1 refused, 9 commits (one for each way out), 1 disturbance |
| `typed_schemas` | Every text of a schema after every other, over any number of releases: the published component changes only if something was reported, and what was published compares as unchanged with itself | 188 texts, 54 of them accepted: each key of a property present, absent, malformed or out of place, enums of every kind with and without null, nesting to one level beyond a limit of 2 (64 in the code: parser and comparer count levels alike, which does not depend on the number) |
| `openapi_build` | Every order of the readings with an edit at any moment: the build returns, places, references, components and headers hang together, no secret is echoed, what a family withholds stays withheld, and the export plan of the same contracts names the same operations and messages | 2 bundle files (one can take a name from the other), 16 and 6 contents (one for each defect), 11 catalogs (one for each rule across routes), 1 edit: between the readings of one file is the case that matters. 19 shapes of the shared contracts (each list with a name more or less), 8 worlds of the other families (as reviewed, one that withholds more, and one flaw each); a few entries stand for each reviewed table |
| `contract_check` | Every kind of mistake in arguments, contracts, error codes and document, an edit meanwhile, a report that cannot be written: the options are the caller's, the verdict exact, report and exit code agree | 9 argument lists that check and 12 that do not, 2 roots, 2 services, 3 routes, 3 codes; one mistake in one place at the start, one more by an edit (each part of the verdict is a union over places); statuses on both sides of 400 and 599 |
| `release_job_open` | Three commits under one tag moved at will, any reruns, 2 faults: gates hold, PublishPromise is implemented, every run ends | 3 commits: two acceptable, one not, so two successive rival runs and one vetoed. 2 faults: one loses a request, one hides it from `npm view`; `max_attempts` 2 instead of 60, as the loop has no memory but its counter |
| `release_job_runbook` | Two releases, one tag possibly on the wrong commit, handled as RUNBOOK.md says: a version that reached npm is finally reported | the same bounds |
| `enum_values` | *violation*: reviewed calculators with an enumeration value no fixture uses are accepted | the calculator trees of `evolution` |

`CHECK_DEADLOCK FALSE` stands where the system really stops: a load, a script or a
check that has ended, a build that has returned, a history at its bound with everything released, a release everybody is
done with. Every bound is a named constant (`MaxDepth`, `MaxCommits`,
`MaxDisturbances`, `MaxEdits`, `MaxAttempts`, `MaxFaults`).

Fairness. ContractLoader, StrictLoader (each load), CompatCheck and ContractCheck: weak fairness of the program's own step
(the event loop runs what is ready; reads, child processes and file operations settle,
successfully or not), none of edits or disturbances. ReleaseJob: weak fairness of each
run's own steps (GitHub starts what is queued, steps end, the job has a timeout), none
of pushes, reruns, faults, propagation or late requests. `RecoverySpec` adds what
RUNBOOK.md asks of people (a failed run is run again) and that npm finally shows
what it accepted; only `Recovers` uses it. ReleaseLine, ContractEvolution, TypedSchemas
and OpenApiBuild state safety only.

### Findings

1. `release_line_preceding`: release.yml names its step "Check compatibility against
   preceding release" but compares with the nearest *tag*, published or not. The run: 1.0.0
   with one route is published. The second commit replaces that route, a breaking change, at
   the same version; the next push cancels its CI. The third (1.0.1) changes no contract, so
   CI passes it against the second; it is tagged, but its release is never compared or
   published (against 1.0.0 no patch could pass), and RUNBOOK.md forbids deleting the tag. The
   fourth (1.0.2), without a change again, is compared with that tag, passes, and is published
   as a patch of 1.0.0, which it breaks. `PublishedAnnounceChanges` therefore assumes that the
   tags between two published versions were compared.
2. `enum_values`: calculator-conformance.ts means to ask that every value of an enumeration
   has a successful fixture (lines 125-139, with its own message), but the loop leaves every
   input whose `unit_policy` is not `enumerated` at line 105, and no enum input of the
   catalog has another policy than `none`. No value is checked. The run: a reviewed calculator
   `age` with an optional enum input `mode`, which allows one value; its only successful fixture
   gives `birth` alone, so that value is in none, and the validators accept the catalog.

Worth a remark, without a run:

- RUNBOOK.md's recovery table says a rerun takes the existing-version path when only
  propagation is late; before `npm view` sees the version it takes the publish path and npm
  refuses the second request. The run fails and can be run again; `SuccessIsAnchored` and
  `Recovers` hold all the same.
- The validators of credit purchase, customer policy and referral look at a named schema and
  at named routes, but only the one of access decisions asks that its route uses that
  schema. `AuthorityStaysWithTheServer` therefore speaks of the components and not of all
  the routes that could have been meant.
- plan.ts:154-157 demands idempotency-key metadata of all mutating methods, though two
  passkey routes are mutating and without a key.

## 4. Proofs

| Theorem | Property | From |
| --- | --- | --- |
| ComparerProofs!ContractSteps | for any three trees, two steps that are not breaking have reported whatever the direct comparison of their ends reports | one lemma for each comparison function, over `SetDeltaSteps` and `KeyedSteps`; `TypedSteps` by levels |
| ContractEvolutionProofs!LevelTriangle, DirectHolds | `DirectNoHeavierThanSteps` for any number of steps, and the lemma that LevelAssumption of ReleaseLine quotes | `ContractSteps`, `ContractWithItself` |
| ContractEvolutionProofs!TypeCorrect, CallsHold, RequestsHold, ResponsesHold, PatchesHold | `TypeOK`, `CallsStillServed`, `RequestsStillAccepted`, `ResponsesStillUnderstood`, `PatchesChangeNoMessage` | `DirectHolds`: the ends are not breaking against each other, and so are their parts; `MatchesFollow` for values |
| ContractEvolutionProofs!EnginesHold | `EnginesStillConform` | the same, and what the calculator rules keep of a reviewed calculator |
| ComparerProofs!SilentReleasesHold, ReleasedComparesEqual | `SilentReleasesPublishTheSame`, `PublishedComparesEqual` of TypedSchemas, for any texts, any depth limit and any number of releases | `ReleasesAccepted`; `PairsPublishTheSame` from the deepest level up, `PairsAreViews` |
| ComparerProofs!ReadersAgree | of every accepted text, at every depth, the document says of a property what the comparer sees of it, but for the null it adds to a nullable enumeration; this is why `Admits` may be taken of what the comparer sees | `ViewIs`, `PublishedEquation`, `CleanRaws` |
| ContractEvolutionProofs!AcceptedTextsAreWellFormed | `NestsWithin` and `ListsItsFields`, which ContractEvolution assumes of its schemas, hold of all texts TypedSchemas accepts, as the comparer sees them | `AcceptedRaws`, `ViewIs` |
| ReleaseLineProofs!GateSound | the gate passes only versions that announce the level, with the document of a breaking change | `AllowanceMonotone`, case split on the bump |
| ReleaseLineProofs!TypeCorrect, MainLineAnnounced, ReleasesAnnounced, PublishedAnnounced | `TypeOK`, `MainAnnouncesChanges`, `ReleaseAnnouncesChanges`, `PublishedAnnounceChanges` | `AnnouncesTransitive`, and invariants over neighbours, chains and tags |
| ContractLoaderProofs!ValidRegistryIsComplete, CompletenessHolds, ExpansionIsLast | a registry without diagnostics is exactly the required sequence; `NeverIncomplete` (the exception that is never thrown) and `ExpansionFollowsFamilies` (no bundle is read before all families are), which no run repeats | `LoaderInv` |
| ContractLoaderProofs!ReturnedHold, EveryFailureReported, QuietLoadsAtomic | `ReturnedContractsHang`, `ReportsEveryFailure`, `QuietLoadIsAtomic` | `LoadInv`, and `PickedIsFilter` on lists |
| ContractLoaderProofs!TypeCorrect | `TypeOK` of ContractLoader: among the types, that a load has an outcome exactly when it has settled | `LoaderInv`, `ReadingInv`, `OtherTypes` |
| ContractLoaderProofs!LoadersAgreed | `LoadersAgree` of StrictLoader | `LoadInv` with `StrictInv`, `SameDemands` and `ContractsInside` |
| CompatCheckProofs!TypeCorrect, NothingLeft, PassIsEarned, FaultsFailClosed, UndisturbedIsExact | `TypeOK`, `LeavesNothingBehind`, `ZeroIsEarned`, `FailsClosed`, `VerdictIsExact` | `CheckInv`, and `QuietInv` for the last |
| ContractCheckProofs!ReportAgreesWithExit, FindingsArePlaced | `ReportTellsTheExit`, `FindingsPointToTheirFile` | `CheckInv` of ContractCheckProofs |
| ContractCheckProofs!OptionsHold, VerdictExact | `OptionsAreHonoured`, `VerdictIsExact` | one invariant for each option; `CodesExact`, `RoutesExact` and `ComparisonExact` on the pure comparisons |
| OpenApiBuildProofs!TypeCorrect, BuildReturns, RoutesKeepPlaces, ReferencesStand, ComponentsStand, SecretsStayHidden, OperationHeadersDiffer | `TypeOK`, `NeverThrows`, `EveryRouteHasItsPlace`, `ReferencesResolve`, `ComponentsHangTogether`, `SecretsAreNotEchoed`, `HeadersDiffer` | `IInv` of OpenApiBuildProofs |
| OpenApiBuildProofs!PlanMatches, PlanKeeps, AuthorityStays | `PlanMatchesDocument`, `PlanKeepsMetadata` of ExportPlan, `AuthorityStaysWithTheServer` of FamilyContracts | `IInv`, and the rules of the families |
| ReleaseJobProofs!PublishedVetted, SuccessAnchored, JobKeepsPromise | `PublishedIsVetted`, `SuccessIsAnchored`, `KeepsPromise` | `JobInv` |
| ReleaseJobProofs!TypeCorrect | `TypeOK` of ReleaseJob: `npm view` sees only what is on npm, no run polls more than `max_attempts` times | `AttemptsInv`: a run that is still to poll has an attempt left |

Assumptions are the named `ASSUME`s on the constants, each evaluated by TLC in a passing
run. Most say what shape the inputs have. `LevelAssumption` of ReleaseLine is about the code:
a direct comparison is no heavier than the heavier of two steps. `LevelTriangle` proves it
of the comparer, for all well-formed trees of any size, so that the theorems of ReleaseLine
hold for the gate and the comparer this repository has.

Induction. The library's induction theorems take an operator as parameter, which the
provers cannot instantiate. What they can use is that a set of numbers that is not empty has
a least member (`LeastNumber`, from `WFMin` and `NatLessThanWellFounded`), and from it that
a set with 0 and with the successor of each member has every number (`Counting`). So the
proofs count levels of nesting, arguments and positions of a list, and show of each recursive
function, by counting up to its argument, that it satisfies its equation
(`PairsAtEquation`, `PickedIsFilter`, `ViewEquation`, `PublishedEquation`). Operators declared
RECURSIVE stay out of reach; the modules have none.

Why the inductive invariants are what they are:

- *ContractEvolution*. Nothing is inductive about a step alone: two steps without a breaking
  level could add up. `ContractSteps` says they do not, for all comparison functions and at
  every level of nesting at once, so `LevelTriangle` follows and with it an invariant on the
  ends: `built` against `served` compares no heavier than `worst`. From there on the number of
  steps no longer matters. What the consumer sent or expects is then related to what the
  service takes or gives by one lemma for each comparison function (`RouteStep`,
  `RequestValue`, `ResponseValue`), carried down the levels by `MatchesFollow`.
- *TypedSchemas*. The step invariant is small (`ReleasesAccepted`: only texts the parser accepts
  are ever released); the work is in one step. What no diagnostic means for the readers of one
  property is `Clean` (`CleanRaws`): the key of a list or a flag is absent or well formed, items
  belong to arrays, the keys of objects to objects. By counting down, the comparer meets no
  property the parser did not come to (`PairsAreViews`), and since nothing is left one level
  below the parser's limit (`AcceptedRaws`), the comparer's own limit is never met. A pair of
  properties the comparer is silent about agrees in everything that is published of it
  (`UnreportedHeads`), and what is inside both is paired again one level down, so counting up from
  the deepest level, both are published alike (`PairsPublishTheSame`). The fields of the whole
  schema follow in `UnreportedComponent`.
- *ReleaseLine*. The announcement relation is transitive (`AnnouncesTransitive`:
  allowances do not shrink along increasing versions, levels do not grow by
  `LevelAssumption`), so neighbours suffice. CI compares neighbours, and
  `StepMainAnnounces` extends a stretch by its last commit (only the tip may be
  running: `CiOfTip`). `ChainsAnnounced` covers every position, published or not,
  because a base need not be published; orderly tags make the chain of a release
  contain every tag before it.
- *ContractLoader*. `LoaderInv` carries the registry's validity and the parsed families
  into the bundle phase. That `assertCompleteSingletonContracts` never throws rests on
  `ValidRegistryIsComplete`: order, duplicates and missing keys together pin down the
  sequence. `ReadingInv` adds what has been read so far, from where the list of bundles
  comes, and that without edits each reading is the disk's; the outcome is decided at the
  three steps that settle a load and nothing moves after them.
- *StrictLoader*. `StrictInv` follows the strict load in the same way to its verdict on the
  files (`StrictlyRight`), which an edit voids. `SameDemands` shows that what the registry's
  load demands (`Right`) is this and that every file is inside (`DiskInside`), which
  `ContractsInside` carries over to the contracts: an unknown field in a family whose parser
  lets it pass is found by its assertion, as `Permissive` files are `Asserted`; one in a bundle
  that shares its file with a family, by that family's assertion (`Possible`).
- *CompatCheck*. `TasksInv` says tasks are active only while `run()` waits for them, so
  none survives the finally block; `FaultsInv` follows a fault from the rejected copy
  to the exit code or the level. `QuietInv` is about a run without faults, moves of the
  ref or edits: each copy is that of the ref or the tree, each reading that of its copy,
  the level that of both readings, whatever order the tasks took.
- *ContractCheck*. `CheckInv` says that both streams are silent until the last step,
  what has been decided at each step on the way there, and that the findings collected
  so far name the file they were read from. For the options, each value an option sets is what
  the last of the arguments read so far gave it (`SetAsRead`), and the index never stops
  inside an option. For the verdict, that neighbours are in order puts all codes in order,
  and a silent route comparison means that both sides list the same signatures.
- *OpenApiBuild*. `IInv` carries each verdict to the moment the document is made:
  `Validated` the validators' on the first reading, `Joined` the typed parser's on the
  second one against the first, `Sourced` both for a document that was built. The rest is
  about constants: ids are unique in a valid bundle, so looking a schema up finds it
  (`SchemaFound`); the properties of a typed schema are exactly the listed fields
  (`SchemaChecked`), so what the validators checked of the lists holds of the properties
  read later, and this is why an edit in between does no harm; names and places are
  unique (`NameStands`, `PlaceStands`). Assumed are the shape of the inputs, that the
  metadata header names of a service differ (`parseMetadataHeaders` checks it) and that
  lower case keeps the allowed methods apart. The plan chooses among the same routes by
  other conditions; on a validated catalog both choices come out the same (`PlanMatches`).
  `AuthorityStays` needs no invariant beyond `IInv`: the families' rules on bundles hold of the
  first reading, and the published fields are those the first reading lists.
- *ReleaseJob*. `GatesInv` ties each step to the gates before it, and a request without
  a job to the gates its job had passed (a late request must not publish what was not
  checked); `AnchorInv` adds that npm never changes what it serves. For the
  refinement every step either leaves `registry` and `Reported` alone, publishes a
  vetted version or reports the served one.

`TypeOK` of a module is a theorem and no property of a run. Every safety invariant and every
action property of a passing run is a theorem as well.

Only model-checked: liveness under fairness (`LoadSettles`, `Terminates`, `CheckEnds`, `RunsEnd`,
`Recovers`), which is beyond the prover.

## 5. Not modelled, and limits

- What the comparer does not look at cannot show up as a level: `noContentSuccessStatuses`
  of the route contract, `routeDefinitionRequiredFields` and forbidden values of the
  catalog, statuses of bundles, the error envelope's schema version, the error-code
  catalog. The evolution properties say nothing about changes of those.
- Typing a request schema that was untyped is reported as a feature although it rejects
  values that were accepted before. The properties take the reading that a consumer of
  an untyped schema relies on its fields only (`Sendable`).
- Text rules of migration documents, option parsing, printing, the `pull_request` trigger
  of CI, the consumer matrix, GitHub environments, npm dist-tags and provenance.
- OpenApiBuild: families and catalog are read once, so only bundle files change; package.json
  is readable or not, and its version is not looked at. Of the access decision HTTP profile only the request headers are
  modelled. Lists are sets, as parsers or validators refuse repetitions; an order the
  builder fixes by sorting is left out.
- TypedSchemas: a cycle of YAML aliases is a text of unbounded depth, which finite texts
  do not have. Order and repetition in `enum` and `required` are left out.
- ReleaseJob: a rerun of a run that succeeded is not modelled.
- YAML parsers: they take one field after the other, without state or order. What they decide,
  whether a part of a file is typed and known, is an input of the loaders. One of them (of
  abuse challenges) admits keys it never reads; the strict loader's list does not.
- StrictLoader: `LoadersAgree` speaks of trees nobody edits. After an edit between its two
  readings the strict loader may return contracts with unknown fields.
- Both loaders: resolving a path and reading the file are one step, so a link that changes
  between the two is not seen. A root that cannot be resolved is not modelled, and names
  with ':', which the strict loader refuses, cannot occur: the registry's paths have none and
  the pattern of schema refs excludes them.
- CompatCheck: when the base ref moves during the run, files of two commits are compared as
  one tree. `ZeroIsEarned` then says only that a comparison took place and was accepted;
  what the mixture is worth is left open. CI passes a commit and the release workflow a tag.
- FamilyRules: single values (versions, owners, flags, named policies) are one bit of their
  contract. The rules on the OIDC families are modelled, but no property rests on them alone.
- ContractCheck: the verdict counts every part, the list of findings does not: what a later
  part throws replaces the findings of the parts before it (`cli.ts:93-98`). Wording, columns
  and rule ids of a report are left out; the fields a parser demands of an error-code entry
  are one bit.
- The command line of the export plan, which prints what `buildApiExportPlan` returned.
- The scripts that build and smoke-test the package: one bit per commit (`Acceptable`).
- The lifecycles declared in `contracts/apis/**` run in other repositories: there is no code
  here whose steps could be modelled.
- `git` ancestry is a line: `main` has no merges in ReleaseLine.

## 6. Plan

Done: all modules above and the theorems of section 4.

Next, in this order:

1. The dist-tag `latest` in ReleaseJob, where releases of several versions overlap.
2. `Admits` said of the document's schemas as well as of what the comparer sees of them, with
   `ReadersAgree` as the lemma that both admit the same.
3. The command line of the export plan.
