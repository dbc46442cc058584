--------------------------- MODULE ContractLoader ---------------------------
(***************************************************************************)
(* loadApiContracts of src/api-contracts/registry-loader.ts: check the     *)
(* family registry, read every family's file, discover the schema bundles  *)
(* from the catalog just read, read those.  The reads of one phase run     *)
(* concurrently and settle in any order; the files may be edited while the *)
(* load runs.                                                              *)
(*                                                                         *)
(* What a file holds is abstracted to what a loader learns from it: which  *)
(* of its parts, a family and a schema bundle, have every field they need  *)
(* (typed) and which have no unknown ones (known), for the catalog, the    *)
(* files its schema refs name, and whether the file the path leads to, all *)
(* links resolved, lies within the root (inside).  A family whose parser   *)
(* looks at the schema bundle of its file as well has a known part only if *)
(* the bundle has.  Missing is a file nobody can read.                     *)
(***************************************************************************)
EXTENDS Integers, Sequences

CONSTANTS
  Keys,            \* API_CONTRACT_FAMILY_KEYS, a sequence
  CatalogKey,      \* the key "apiCatalog"
  ValidNames,      \* names that match the registry's pattern
  PathOrder,       \* the paths under contracts/, in the order of localeCompare
  RequiredBundles, \* REQUIRED_API_SCHEMA_BUNDLE_SOURCE_PATHS, as a set
  Registries,      \* registries a caller may pass
  BadRef,          \* a schema ref of another form than the loader accepts
  Missing,
  Unread,          \* a file a phase has still to read
  Contents,        \* what files may hold
  MaxEdits         \* bound on the edits during one load

ContractPaths == {PathOrder[i] : i \in DOMAIN PathOrder}

Parts == {"family", "bundle"}

Content == [typed : SUBSET Parts, known : SUBSET Parts, refs : SUBSET (ContractPaths \cup {BadRef}),
            inside : BOOLEAN]

ASSUME KeysAssumption ==
  /\ Keys \in Seq({Keys[i] : i \in DOMAIN Keys})
  /\ \A i, j \in DOMAIN Keys : Keys[i] = Keys[j] => i = j
  /\ CatalogKey \in {Keys[i] : i \in DOMAIN Keys}

ASSUME FilesAssumption ==
  /\ PathOrder \in Seq({PathOrder[i] : i \in DOMAIN PathOrder})
  /\ \A i, j \in DOMAIN PathOrder : PathOrder[i] = PathOrder[j] => i = j
  /\ RequiredBundles # {} /\ RequiredBundles \subseteq ContractPaths
  /\ Missing \notin Content /\ BadRef \notin ContractPaths
  /\ Unread \notin Content /\ Unread # Missing
  /\ Contents \subseteq Content \cup {Missing}
  /\ MaxEdits \in Nat

\* The keys of a registry are family keys: its type says so.
Registration(r) == r.key \in {Keys[i] : i \in DOMAIN Keys}

ASSUME RegistriesAssumption ==
  \A R \in Registries : /\ R \in Seq({R[i] : i \in DOMAIN R})
                        /\ \A i \in DOMAIN R : Registration(R[i])

VARIABLES
  registry,   \* the registrations this load was called with
  disk,       \* disk[path]: what the file holds now
  edits,      \* edits made since the load began
  phase,      \* "validate", "families", "bundles" or "settled"
  families,   \* families[i]: what registration i read, Unread before that
  files,      \* the schema bundle files, in reading order
  bundles,    \* bundles[j]: what files[j] held when it was read
  outcome     \* what the load returned or threw

vars == <<registry, disk, edits, phase, families, files, bundles, outcome>>

Pending == [kind |-> "pending"]

-----------------------------------------------------------------------------
(* validateApiContractFamilyRegistry *)

Repeats(R, i, field) == \E j \in 1 .. i - 1 : R[j][field] = R[i][field]

\* The codes reported for registration i.
RegistrationDiagnostics(R, i) ==
  {c \in {"ORDER_INVALID"} : i \in DOMAIN Keys /\ R[i].key # Keys[i]}
  \cup {c \in {"KEY_DUPLICATE"} : Repeats(R, i, "key")}
  \cup {c \in {"NAME_INVALID"} : R[i].name \notin ValidNames}
  \cup {c \in {"NAME_DUPLICATE"} : Repeats(R, i, "name")}
  \cup {c \in {"SOURCE_DUPLICATE"} : Repeats(R, i, "sourcePath")}
  \cup {c \in {"EXPORT_TARGET_DUPLICATE"} :
          \E j, k \in DOMAIN R[i].exportTargets :
            j # k /\ R[i].exportTargets[j] = R[i].exportTargets[k]}
  \cup {c \in {"SOURCE_INVALID"} : R[i].sourcePath \notin ContractPaths}

MissingKeys(R) ==
  {Keys[k] : k \in {k \in DOMAIN Keys : \A i \in DOMAIN R : R[i].key # Keys[k]}}

RegistryValid(R) ==
  /\ \A i \in DOMAIN R : RegistrationDiagnostics(R, i) = {}
  /\ MissingKeys(R) = {}

-----------------------------------------------------------------------------
(* What the results of a phase add up to *)

\* readContractSource resolves the links on the way and refuses what lies outside.
Readable(content) == content # Missing /\ content.inside

\* A family file and a bundle file that can be read and parsed.
FamilyOk(content) == Readable(content) /\ "family" \in content.typed \cap content.known
BundleOk(content) == Readable(content) /\ "bundle" \in content.typed \cap content.known

\* throwContractLoadFailures: does any result throw, and the positions that
\* failed, in order.
FamiliesFail(R, read) == \E i \in DOMAIN R : ~ FamilyOk(read[i])

\* Mutant of BundlesFail: a bundle that does not parse is let through.
BundlesMissing(list, read) == \E j \in DOMAIN list : ~ Readable(read[j])

BundlesFail(list, read) == \E j \in DOMAIN list : ~ BundleOk(read[j])

\* filter(): the members of S among 1 .. n, in order.
Picked(n, S) ==
  LET picked[k \in 0 .. n] ==
        IF k = 0 THEN <<>> ELSE IF k \in S THEN Append(picked[k - 1], k) ELSE picked[k - 1]
  IN picked[n]

\* Mutant of FamilyFailures: the first failure hides the others.
FirstFamilyFailure(R, read) ==
  SubSeq(Picked(Len(R), {i \in DOMAIN R : ~ FamilyOk(read[i])}), 1, 1)

FamilyFailures(R, read) == Picked(Len(R), {i \in DOMAIN R : ~ FamilyOk(read[i])})

BundleFailures(list, read) == Picked(Len(list), {j \in DOMAIN list : ~ BundleOk(read[j])})

\* loadedFamilies: a later registration of a key replaces an earlier one.
FamilyValue(R, read, key) ==
  read[CHOOSE i \in DOMAIN R : /\ R[i].key = key
                               /\ \A j \in DOMAIN R : R[j].key = key => j <= i]

LoadedFamilies(R, read) == [key \in {R[i].key : i \in DOMAIN R} |-> FamilyValue(R, read, key)]

InPathOrder(paths) ==
  LET places == Picked(Len(PathOrder), {n \in DOMAIN PathOrder : PathOrder[n] \in paths}) IN
  [j \in DOMAIN places |-> PathOrder[places[j]]]

\* Mutant of BundlePaths: only the bundles the catalog refers to.
ReferencedBundlePaths(catalog) == InPathOrder(catalog.refs)

\* listApiSchemaBundleSourcePaths
BundlePaths(catalog) == InPathOrder(RequiredBundles \cup catalog.refs)

Complete(loaded) == \A k \in DOMAIN Keys : Keys[k] \in DOMAIN loaded

Loaded(R, readFamilies, list, readBundles) ==
  [kind |-> "loaded", families |-> LoadedFamilies(R, readFamilies),
   bundles |-> [j \in DOMAIN list |-> <<list[j], readBundles[j]>>]]

Failed(failures) == [kind |-> "failed", failures |-> failures]

-----------------------------------------------------------------------------

Init ==
  /\ registry \in Registries
  /\ disk \in [ContractPaths -> Contents]
  /\ edits = 0
  /\ phase = "validate"
  /\ families = <<>>
  /\ files = <<>>
  /\ bundles = <<>>
  /\ outcome = Pending

\* An invalid registry throws before any file is read.
Validate ==
  /\ phase = "validate"
  /\ IF RegistryValid(registry)
     THEN /\ phase' = "families"
          /\ families' = [i \in DOMAIN registry |-> Unread]
          /\ UNCHANGED outcome
     ELSE /\ phase' = "settled"
          /\ outcome' = [kind |-> "registry"]
          /\ UNCHANGED families
  /\ UNCHANGED <<registry, disk, edits, files, bundles>>

\* Mutant of ReadFamily: the load of a missing file never settles.
ReadFamilyHangs(i) ==
  /\ phase = "families"
  /\ families[i] = Unread
  /\ disk[registry[i].sourcePath] # Missing
  /\ families' = [families EXCEPT ![i] = disk[registry[i].sourcePath]]
  /\ UNCHANGED <<registry, disk, edits, phase, files, bundles, outcome>>

\* loadRegisteredFamily: read and parse, or a failure that is kept for later.
ReadFamily(i) ==
  /\ phase = "families"
  /\ families[i] = Unread
  /\ families' = [families EXCEPT ![i] = disk[registry[i].sourcePath]]
  /\ UNCHANGED <<registry, disk, edits, phase, files, bundles, outcome>>

\* Promise.all of the family loads resolves; the code up to the next await.
JoinFamilies ==
  LET loaded   == LoadedFamilies(registry, families)
      catalog  == loaded[CatalogKey]
  IN
  /\ phase = "families"
  /\ \A i \in DOMAIN registry : families[i] # Unread
  /\ IF FamiliesFail(registry, families)
     THEN /\ outcome' = Failed(FamilyFailures(registry, families))
          /\ phase' = "settled"
          /\ UNCHANGED <<files, bundles>>
     ELSE IF ~ Complete(loaded)
     THEN /\ outcome' = [kind |-> "incomplete"]
          /\ phase' = "settled"
          /\ UNCHANGED <<files, bundles>>
     ELSE IF BadRef \in catalog.refs
     THEN /\ outcome' = [kind |-> "badRef"]
          /\ phase' = "settled"
          /\ UNCHANGED <<files, bundles>>
     ELSE /\ phase' = "bundles"
          /\ files' = BundlePaths(catalog)
          /\ bundles' = [j \in DOMAIN files' |-> Unread]
          /\ UNCHANGED outcome
  /\ UNCHANGED <<registry, disk, edits, families>>

ReadBundle(j) ==
  /\ phase = "bundles"
  /\ bundles[j] = Unread
  /\ bundles' = [bundles EXCEPT ![j] = disk[files[j]]]
  /\ UNCHANGED <<registry, disk, edits, phase, families, files, outcome>>

JoinBundles ==
  /\ phase = "bundles"
  /\ \A j \in DOMAIN files : bundles[j] # Unread
  /\ outcome' = IF BundlesFail(files, bundles) THEN Failed(BundleFailures(files, bundles))
                ELSE Loaded(registry, families, files, bundles)
  /\ phase' = "settled"
  /\ UNCHANGED <<registry, disk, edits, families, files, bundles>>

\* Somebody saves or removes a file, or turns a link, while the load runs.
Edit(path, content) ==
  /\ phase # "settled"
  /\ edits < MaxEdits
  /\ disk[path] # content
  /\ disk' = [disk EXCEPT ![path] = content]
  /\ edits' = edits + 1
  /\ UNCHANGED <<registry, phase, families, files, bundles, outcome>>

Load ==
  \/ Validate \/ JoinFamilies \/ JoinBundles
  \/ \E i \in DOMAIN families : ReadFamily(i)
  \/ \E j \in DOMAIN bundles : ReadBundle(j)

Next == Load \/ \E path \in ContractPaths, content \in Contents : Edit(path, content)

\* The event loop runs what is ready and every read settles.
Spec == Init /\ [][Next]_vars /\ WF_vars(Load)

-----------------------------------------------------------------------------

Outcomes == {"pending", "registry", "failed", "incomplete", "badRef", "loaded"}

TypeOK ==
  /\ registry \in Registries
  /\ disk \in [ContractPaths -> Contents]
  /\ edits \in 0 .. MaxEdits
  /\ phase \in {"validate", "families", "bundles", "settled"}
  /\ families = <<>> \/ families \in [DOMAIN registry -> Contents \cup {Unread}]
  /\ \A j \in DOMAIN files : files[j] \in ContractPaths
  /\ bundles \in [DOMAIN files -> Contents \cup {Unread}]
  /\ outcome.kind \in Outcomes
  /\ phase = "settled" <=> outcome # Pending

\* The schema files a loaded set of families asks for.
Wanted(loaded) == RequiredBundles \cup loaded[CatalogKey].refs

\* The loader's anchor: registry integrity and complete singleton loading
\* precede schema expansion.  While bundle files are read the registry is valid
\* and every family of the required sequence was read and parsed.
ExpansionFollowsFamilies ==
  phase = "bundles" =>
    /\ RegistryValid(registry)
    /\ DOMAIN families = DOMAIN Keys
    /\ \A i \in DOMAIN Keys : registry[i].key = Keys[i] /\ FamilyOk(families[i])

\* Whatever is edited meanwhile, contracts that are returned hold every family
\* and exactly the bundles their own catalog asks for, each of them parsed, in
\* path order.
ReturnedContractsHang ==
  outcome.kind = "loaded" =>
    /\ DOMAIN outcome.families = {Keys[k] : k \in DOMAIN Keys}
    /\ \A key \in DOMAIN outcome.families : FamilyOk(outcome.families[key])
    /\ outcome.bundles # <<>>
    /\ {outcome.bundles[j][1] : j \in DOMAIN outcome.bundles} = Wanted(outcome.families)
    /\ \A j \in DOMAIN outcome.bundles : BundleOk(outcome.bundles[j][2])
    /\ \A j, k \in DOMAIN outcome.bundles :
         j < k => \E m, n \in DOMAIN PathOrder : /\ m < n
                                                 /\ PathOrder[m] = outcome.bundles[j][1]
                                                 /\ PathOrder[n] = outcome.bundles[k][1]

\* A load that fails reports every file of the phase that failed, in order,
\* and no other: no failure hides another one.
ReportsEveryFailure ==
  outcome.kind = "failed" =>
    LET failed == {outcome.failures[n] : n \in DOMAIN outcome.failures} IN
    /\ \A m, n \in DOMAIN outcome.failures : m < n => outcome.failures[m] < outcome.failures[n]
    /\ \A i \in DOMAIN registry : families[i] # Unread
    /\ IF files = <<>> THEN failed = {i \in DOMAIN registry : ~ FamilyOk(families[i])}
       ELSE failed = {j \in DOMAIN files : ~ BundleOk(bundles[j])}

\* While nobody edits, a load is atomic: it succeeds exactly when the registry
\* and every file it stands on are right, and returns what the files hold.
QuietLoadIsAtomic ==
  (phase = "settled" /\ edits = 0) =>
    LET paths   == {registry[i].sourcePath : i \in DOMAIN registry}
        catalog == {i \in DOMAIN registry : registry[i].key = CatalogKey}
        refs    == UNION {disk[registry[i].sourcePath].refs : i \in catalog}
    IN
    IF ~ RegistryValid(registry) THEN outcome.kind = "registry"
    ELSE IF \E path \in paths : ~ FamilyOk(disk[path]) THEN outcome.kind = "failed"
    ELSE IF BadRef \in refs THEN outcome.kind = "badRef"
    ELSE IF \E path \in RequiredBundles \cup refs : ~ BundleOk(disk[path])
    THEN outcome.kind = "failed"
    ELSE /\ outcome.kind = "loaded"
         /\ \A i \in DOMAIN registry : outcome.families[registry[i].key] = disk[registry[i].sourcePath]
         /\ \A j \in DOMAIN outcome.bundles : outcome.bundles[j][2] = disk[outcome.bundles[j][1]]

\* assertCompleteSingletonContracts never has to throw.
NeverIncomplete == outcome.kind # "incomplete"

\* Every load settles, whatever fails on the way.
LoadSettles == <>(phase = "settled")
=============================================================================
