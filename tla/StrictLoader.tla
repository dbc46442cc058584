---------------------------- MODULE StrictLoader ----------------------------
(***************************************************************************)
(* loadApiContracts of src/api-contracts/strict-parser.ts, the loader the  *)
(* family registry took over from: it lets parser.ts read and parse        *)
(* everything, and then reads files again to look for unknown fields.      *)
(*                                                                         *)
(* The strict load runs first and the registry's after it.  They share the *)
(* files and nothing else, so running them side by side would add nothing. *)
(* A caller with registrations of its own has no strict load.              *)
(*                                                                         *)
(* Unlike the registry's loader, this one looks at the name of a file only *)
(* and follows its links wherever they lead: both of its readings take a   *)
(* file outside the root as any other.                                     *)
(***************************************************************************)
EXTENDS ContractLoader

CONSTANTS
  Committed,   \* API_CONTRACT_FAMILY_REGISTRY; parser.ts has the same files
  Asserted,    \* the family files the strict loader reads again
  Permissive,  \* those of them whose own parser lets unknown fields pass
  WithBundle   \* those whose parser and assertion look at the schema bundle as well

ASSUME StrictAssumption ==
  /\ RegistryValid(Committed) /\ Committed \in Registries
  /\ Permissive \subseteq Asserted /\ WithBundle \subseteq Asserted
  /\ Asserted \subseteq {Committed[i].sourcePath : i \in DOMAIN Committed}

VARIABLES
  stage,      \* "families", "bundles", "assertions" or "settled"
  singletons, \* what was read of each family, in the order of Committed
  schemas,    \* schemas[path]: what was read of a schema bundle file
  asserted,   \* the files whose assertion held
  contracts   \* what the strict load returned or threw

strictVars == <<stage, singletons, schemas, asserted, contracts>>

\* What a file can be: see Content.  No file but the catalog has schema refs, and an
\* assertion that does not look at a schema bundle rejects a file that has one.
Possible(path, content) ==
  content # Missing =>
    /\ content.refs # {} =>
         \E i \in DOMAIN Committed : Committed[i].sourcePath = path /\ Committed[i].key = CatalogKey
    /\ path \in Asserted /\ "family" \in content.known =>
         IF path \in WithBundle THEN "bundle" \in content.known ELSE "bundle" \notin content.typed

\* Does parser.ts accept what it read?  The file may lie outside the root.
TypedFamily(i, content) ==
  /\ content # Missing /\ "family" \in content.typed
  /\ Committed[i].sourcePath \in Permissive \/ "family" \in content.known

TypedBundle(content) == content # Missing /\ "bundle" \in content.typed

\* The schema bundle files, in reading order.
BundleFiles == BundlePaths(FamilyValue(Committed, singletons, CatalogKey))

\* Mutant of AssertionFiles: the bundles are forgotten.
FamilyAssertionFiles == Asserted

AssertionFiles == Asserted \cup {BundleFiles[j] : j \in DOMAIN BundleFiles}

\* A family's assertion takes the place of its bundle's; it too follows links outside.
AssertionHolds(path, content) ==
  content # Missing /\ (IF path \in Asserted THEN "family" ELSE "bundle") \in content.known

-----------------------------------------------------------------------------

StrictInit ==
  /\ Init /\ \A path \in ContractPaths : Possible(path, disk[path])
  /\ stage = IF registry = Committed THEN "families" ELSE "settled"
  /\ singletons = [i \in DOMAIN Committed |-> Unread]
  /\ schemas = <<>>
  /\ asserted = {}
  /\ contracts = Pending

\* The load returns or throws; what it has read is forgotten.
Conclude(result) ==
  /\ stage' = "settled" /\ contracts' = result
  /\ singletons' = <<>> /\ schemas' = <<>> /\ asserted' = {}

ReadSingleton(i) ==
  /\ stage = "families" /\ singletons[i] = Unread
  /\ singletons' = [singletons EXCEPT ![i] = disk[Committed[i].sourcePath]]
  /\ UNCHANGED <<stage, schemas, asserted, contracts>>

\* Every failure is reported; a malformed schema ref throws by itself.
JoinSingletons ==
  LET failures == Picked(Len(Committed), {i \in DOMAIN Committed : ~ TypedFamily(i, singletons[i])}) IN
  /\ stage = "families" /\ \A i \in DOMAIN Committed : singletons[i] # Unread
  /\ \/ failures # <<>> /\ Conclude(Failed(failures))
     \/ /\ failures = <<>> /\ BadRef \in FamilyValue(Committed, singletons, CatalogKey).refs
        /\ Conclude([kind |-> "badRef"])
     \/ /\ failures = <<>> /\ BadRef \notin FamilyValue(Committed, singletons, CatalogKey).refs
        /\ stage' = "bundles"
        /\ schemas' = [path \in {BundleFiles[j] : j \in DOMAIN BundleFiles} |-> Unread]
        /\ UNCHANGED <<singletons, asserted, contracts>>

ReadSchemas(path) ==
  /\ stage = "bundles" /\ schemas[path] = Unread
  /\ schemas' = [schemas EXCEPT ![path] = disk[path]]
  /\ UNCHANGED <<stage, singletons, asserted, contracts>>

JoinSchemas ==
  LET failures == Picked(Len(BundleFiles),
                         {j \in DOMAIN BundleFiles : ~ TypedBundle(schemas[BundleFiles[j]])})
  IN
  /\ stage = "bundles" /\ \A path \in DOMAIN schemas : schemas[path] # Unread
  /\ \/ failures # <<>> /\ Conclude(Failed(failures))
     \/ failures = <<>> /\ stage' = "assertions" /\ UNCHANGED <<singletons, schemas, asserted, contracts>>

\* readAndAssertSource: the first failure rejects the load at once.
AssertKnown(path) ==
  /\ stage = "assertions" /\ path \in AssertionFiles \ asserted
  /\ \/ /\ AssertionHolds(path, disk[path])
        /\ asserted' = asserted \cup {path}
        /\ UNCHANGED <<stage, singletons, schemas, contracts>>
     \/ ~ AssertionHolds(path, disk[path]) /\ Conclude([kind |-> "rejected"])

JoinAssertions ==
  /\ stage = "assertions" /\ asserted = AssertionFiles
  /\ Conclude(Loaded(Committed, singletons, BundleFiles,
                     [j \in DOMAIN BundleFiles |-> schemas[BundleFiles[j]]]))

StrictLoad ==
  \/ JoinSingletons \/ JoinSchemas \/ JoinAssertions
  \/ \E i \in DOMAIN singletons : ReadSingleton(i)
  \/ \E path \in ContractPaths : (path \in DOMAIN schemas /\ ReadSchemas(path)) \/ AssertKnown(path)

FirstLoad  == StrictLoad /\ UNCHANGED vars
SecondLoad == stage = "settled" /\ Load /\ UNCHANGED strictVars

BothNext ==
  \/ FirstLoad \/ SecondLoad
  \/ \E path \in ContractPaths, content \in Contents :
       /\ stage # "settled" \/ phase # "validate"   \* a load reads on without a pause
       /\ Possible(path, content) /\ Edit(path, content)
       /\ UNCHANGED strictVars

\* The event loop of each load, as in ContractLoader.
BothSpec ==
  StrictInit /\ [][BothNext]_<<vars, strictVars>> /\ WF_<<vars, strictVars>>(FirstLoad)
             /\ WF_<<vars, strictVars>>(SecondLoad)

\* Every file of these contracts lies within the root.
StaysInside(loaded) ==
  /\ \A key \in DOMAIN loaded.families : loaded.families[key].inside
  /\ \A j \in DOMAIN loaded.bundles : loaded.bundles[j][2].inside

\* tests/api-contract-family-registry.test.ts:108, "loads the same committed
\* contract graph as the strict loader", and :62, "rejects links to
\* repository-external families", for every tree nobody edits meanwhile: the
\* loader that looks for unknown fields in the text it parses accepts what the
\* loader that looks for them in a reading of its own accepts, unless a link
\* led that one out of the root, and what both return is the same.
LoadersAgree ==
  (phase = "settled" /\ edits = 0 /\ registry = Committed) =>
    /\ outcome.kind = "loaded" <=> (contracts.kind = "loaded" /\ StaysInside(contracts))
    /\ outcome.kind = "loaded" => outcome = contracts
=============================================================================
