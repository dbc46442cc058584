------------------------ MODULE ContractLoaderProofs ------------------------
(***************************************************************************)
(* What a valid registry guarantees, for every list of family keys, every  *)
(* registry and every content of the files.                                *)
(***************************************************************************)
EXTENDS StrictLoader, WellFoundedInduction, TLAPS

\* The registry diagnostics leave one registry shape: the required keys, all
\* of them, in their order, and nothing after them.
THEOREM ValidRegistryIsComplete ==
  ASSUME NEW R \in Registries, RegistryValid(R)
  PROVE  /\ DOMAIN R = DOMAIN Keys
         /\ \A i \in DOMAIN Keys : R[i].key = Keys[i]
<1> DEFINE n == Len(R)
           k == Len(Keys)
<1>1. /\ n \in Nat /\ DOMAIN R = 1 .. n
      /\ k \in Nat /\ DOMAIN Keys = 1 .. k
  BY RegistriesAssumption, KeysAssumption
<1>2. \A i \in DOMAIN R : i \in DOMAIN Keys => R[i].key = Keys[i]
  BY DEF RegistryValid, RegistrationDiagnostics
<1>3. \A i \in DOMAIN R : ~ Repeats(R, i, "key")
  BY DEF RegistryValid, RegistrationDiagnostics
<1>4. \A j \in DOMAIN Keys : \E i \in DOMAIN R : R[i].key = Keys[j]
  BY DEF RegistryValid, MissingKeys
<1>5. k <= n
  <2> SUFFICES ASSUME n < k PROVE FALSE
    BY <1>1
  <2>1. k \in DOMAIN Keys /\ 1 .. n \subseteq 1 .. k
    BY <1>1
  <2>2. PICK i \in DOMAIN R : R[i].key = Keys[k]
    BY <1>4, <2>1
  <2>3. i \in DOMAIN Keys /\ Keys[i] = Keys[k] /\ i # k
    BY <1>1, <1>2, <2>1, <2>2
  <2> QED BY <2>1, <2>3, KeysAssumption
<1>6. n <= k
  <2> SUFFICES ASSUME k < n PROVE FALSE
    BY <1>1
  <2>1. n \in DOMAIN R
    BY <1>1
  <2>2. PICK j \in DOMAIN Keys : R[n].key = Keys[j]
    BY <2>1, RegistriesAssumption DEF Registration
  <2>3. j \in 1 .. n - 1 /\ j \in DOMAIN R /\ R[j].key = R[n].key
    BY <1>1, <1>2, <2>2
  <2>4. Repeats(R, n, "key")
    BY <2>3 DEF Repeats
  <2> QED BY <1>3, <2>1, <2>4
<1>7. n = k
  <2>1. n \in Nat /\ k \in Nat
    BY <1>1
  <2> HIDE DEF n, k
  <2> QED BY <2>1, <1>5, <1>6
<1> QED BY <1>1, <1>2, <1>7

\* Past validation the registry is valid, and in the bundle phase every
\* registration's file was read and parsed.
LoaderInv ==
  /\ registry \in Registries
  /\ phase \in {"validate", "families", "bundles", "settled"}
  /\ phase \in {"families", "bundles"} => RegistryValid(registry)
  /\ phase \in {"families", "bundles"} => DOMAIN families = DOMAIN registry
  /\ phase = "bundles" => \A i \in DOMAIN registry : FamilyOk(families[i])
  /\ outcome.kind # "incomplete"

LEMMA ValidRegistryLoadsAll ==
  ASSUME NEW R \in Registries, RegistryValid(R), NEW read
  PROVE  Complete(LoadedFamilies(R, read))
<1>1. \A j \in DOMAIN Keys : Keys[j] \in {R[i].key : i \in DOMAIN R}
  BY ValidRegistryIsComplete
<1> QED BY <1>1 DEF Complete, LoadedFamilies

LEMMA StepLoaderInv == LoaderInv /\ [Next]_vars => LoaderInv'
<1> SUFFICES ASSUME LoaderInv, [Next]_vars PROVE LoaderInv'
  OBVIOUS
<1>1. CASE Validate
  BY <1>1 DEF LoaderInv, Validate
<1>2. CASE JoinFamilies
  <2>1. Complete(LoadedFamilies(registry, families))
    BY <1>2, ValidRegistryLoadsAll DEF LoaderInv, JoinFamilies
  <2>2. CASE FamiliesFail(registry, families)
    BY <1>2, <2>2 DEF LoaderInv, JoinFamilies, Failed
  <2>3. CASE ~ FamiliesFail(registry, families)
    BY <1>2, <2>1, <2>3 DEF LoaderInv, JoinFamilies, FamiliesFail
  <2> QED BY <2>2, <2>3
<1>3. CASE JoinBundles
  BY <1>3 DEF LoaderInv, JoinBundles, Failed, Loaded
<1>4. ASSUME NEW i \in DOMAIN families, ReadFamily(i) PROVE LoaderInv'
  BY <1>4 DEF LoaderInv, ReadFamily
<1>5. ASSUME NEW j \in DOMAIN bundles, ReadBundle(j) PROVE LoaderInv'
  BY <1>5 DEF LoaderInv, ReadBundle
<1>6. ASSUME NEW path \in ContractPaths, NEW content \in Contents, Edit(path, content)
      PROVE  LoaderInv'
  BY <1>6 DEF LoaderInv, Edit
<1>7. CASE UNCHANGED vars
  BY <1>7 DEF LoaderInv, vars
<1> QED BY <1>1, <1>2, <1>3, <1>4, <1>5, <1>6, <1>7 DEF Next, Load

LEMMA LoaderInvariant == Init /\ [][Next]_vars => []LoaderInv
<1>1. Init => LoaderInv
  BY DEF Init, LoaderInv, Pending
<1> QED BY <1>1, StepLoaderInv, PTL

\* assertCompleteSingletonContracts is unreachable: the registry check that
\* precedes it is strong enough, whatever the files hold.
THEOREM CompletenessHolds == Spec => []NeverIncomplete
<1>1. LoaderInv => NeverIncomplete
  BY DEF LoaderInv, NeverIncomplete
<1> QED BY <1>1, LoaderInvariant, PTL DEF Spec

\* The loader's documented invariant: registry integrity and complete
\* singleton loading precede schema expansion.
THEOREM ExpansionIsLast == Spec => []ExpansionFollowsFamilies
<1>1. LoaderInv => ExpansionFollowsFamilies
  BY ValidRegistryIsComplete DEF LoaderInv, ExpansionFollowsFamilies
<1> QED BY <1>1, LoaderInvariant, PTL DEF Spec

-----------------------------------------------------------------------------
(* Lists in order.  The library's theorems on induction take operators as     *)
(* parameters, which the provers cannot instantiate; counting up to a number  *)
(* takes a set instead.                                                       *)

LessPairs == {pair \in Nat \X Nat : pair[1] < pair[2]}

LEMMA LeastNumber ==
  ASSUME NEW S \in SUBSET Nat, S # {}
  PROVE  \E least \in S : \A n \in S : least <= n
<1>1. LessPairs = OpToRel(<, Nat)
  BY DEF LessPairs, OpToRel
<1>2. PICK least \in S : \A n \in S : <<n, least>> \notin LessPairs
  BY <1>1, WFMin, NatLessThanWellFounded
<1>3. ASSUME NEW n \in S PROVE least <= n
  <2>1. <<n, least>> \in Nat \X Nat /\ ~ (n < least)
    BY <1>2 DEF LessPairs
  <2> QED BY <2>1
<1> QED BY <1>3

LEMMA Counting ==
  ASSUME NEW N \in Nat, NEW S, 0 \in S, \A d \in 0 .. N - 1 : d \in S => d + 1 \in S
  PROVE  \A d \in 0 .. N : d \in S
<1> DEFINE Lacking == {d \in 0 .. N : d \notin S}
<1>1. SUFFICES ASSUME Lacking # {} PROVE FALSE
  OBVIOUS
<1>2. PICK least \in Lacking : \A d \in Lacking : least <= d
  <2>1. Lacking \in SUBSET Nat
    OBVIOUS
  <2> QED BY <1>1, <2>1, LeastNumber
<1>3. least # 0 /\ least - 1 \in 0 .. N - 1 /\ least - 1 \notin Lacking
  BY <1>2
<1> QED BY <1>2, <1>3

\* A list of the members of S in ascending order.
Ascending(list) == \A l, m \in DOMAIN list : l < m => list[l] < list[m]

Lists(list, S) ==
  /\ list \in Seq(Nat)
  /\ {list[m] : m \in DOMAIN list} = S
  /\ Ascending(list)

LEMMA NothingListed == Lists(<<>>, {})
<1>1. <<>> \in Seq(Nat) /\ DOMAIN <<>> = {}
  OBVIOUS
<1> QED BY <1>1 DEF Lists, Ascending

LEMMA OneMoreListed ==
  ASSUME NEW list, NEW S, Lists(list, S), NEW k \in Nat, \A n \in S : n < k
  PROVE  Lists(Append(list, k), S \cup {k})
<1>1. /\ list \in Seq(Nat) /\ Len(list) \in Nat /\ DOMAIN list = 1 .. Len(list)
      /\ \A l \in DOMAIN list : list[l] \in Nat /\ list[l] \in S /\ list[l] < k
  BY DEF Lists
<1> DEFINE more == Append(list, k)
<1>2. more \in Seq(Nat)
  BY <1>1
<1>3. Len(more) = Len(list) + 1
  BY <1>1
<1>4. DOMAIN more = 1 .. Len(list) + 1
  BY <1>1, <1>2, <1>3
<1>5. \A l \in DOMAIN list : more[l] = list[l]
  BY <1>1
<1>6. more[Len(list) + 1] = k
  BY <1>1
<1> HIDE DEF more
<1>7. {more[l] : l \in DOMAIN more} = S \cup {k}
  <2>1. S = {list[l] : l \in DOMAIN list}
    BY DEF Lists
  <2>2. DOMAIN more = DOMAIN list \cup {Len(list) + 1}
    BY <1>1, <1>4
  <2> QED BY <1>5, <1>6, <2>1, <2>2
<1>8. Ascending(more)
  <2> SUFFICES ASSUME NEW l \in DOMAIN more, NEW m \in DOMAIN more, l < m
               PROVE  more[l] < more[m]
    BY DEF Ascending
  <2>1. l \in DOMAIN list /\ more[l] = list[l]
    BY <1>1, <1>4, <1>5
  <2>2. CASE m \in DOMAIN list
    BY <1>5, <2>1, <2>2 DEF Lists, Ascending
  <2>3. CASE m \notin DOMAIN list
    <3>1. m = Len(list) + 1
      BY <1>1, <1>4, <2>3
    <3> QED BY <1>1, <1>6, <2>1, <3>1
  <2> QED BY <2>2, <2>3
<1>9. Lists(more, S \cup {k})
  BY <1>2, <1>7, <1>8 DEF Lists
<1> QED BY <1>9 DEF more

LEMMA PickedIsFilter ==
  ASSUME NEW n \in Nat, NEW S
  PROVE  Lists(Picked(n, S), S \cap 1 .. n)
<1> DEFINE Add(list, k) == Append(list, k)
           Value(a, k) == IF k = 0 THEN <<>> ELSE IF k \in S THEN Add(a[k - 1], k) ELSE a[k - 1]
           Defines(a, m) == a = [k \in 0 .. m |-> Value(a, k)]
           Reached == {m \in 0 .. n : \E a : Defines(a, m)}
<1>1. Picked(n, S) = (CHOOSE a : Defines(a, n))[n]
  BY Zenon DEF Picked
<1>2. \A list, k : Add(list, k) = Append(list, k)
  OBVIOUS
<1> HIDE DEF Add
<1>3. 0 \in Reached
  <2>1. Defines([k \in 0 .. 0 |-> <<>>], 0)
    OBVIOUS
  <2> HIDE DEF Defines
  <2> QED BY <2>1
<1>4. ASSUME NEW m \in 0 .. n - 1, m \in Reached PROVE m + 1 \in Reached
  <2>1. PICK a : Defines(a, m)
    BY <1>4
  <2> DEFINE b == [k \in 0 .. m + 1 |-> IF k = m + 1 THEN Value(a, m + 1) ELSE a[k]]
  <2>2. ASSUME NEW k \in 0 .. m + 1 PROVE b[k] = Value(b, k)
    <3>1. CASE k = 0
      BY <2>1, <3>1
    <3>2. CASE k # 0
      <4>1. b[k - 1] = a[k - 1]
        BY <3>2
      <4>2. Value(b, k) = Value(a, k)
        BY <4>1, <3>2
      <4>3. b[k] = Value(a, k)
        BY <2>1, <3>2
      <4> QED BY <4>2, <4>3
    <3> QED BY <3>1, <3>2
  <2>3. Defines(b, m + 1)
    BY <2>2
  <2> HIDE DEF Defines
  <2> QED BY <2>3
<1>5. n \in Reached
  <2> HIDE DEF Reached
  <2> QED BY <1>3, <1>4, Counting
<1>6. PICK picked : Defines(picked, n) /\ Picked(n, S) = picked[n]
  <2> HIDE DEF Defines
  <2> QED BY <1>1, <1>5
<1> DEFINE Right == {m \in 0 .. n : Lists(picked[m], S \cap 1 .. m)}
<1>7. 0 \in Right
  <2>1. picked[0] = <<>> /\ S \cap 1 .. 0 = {}
    BY <1>6
  <2> QED BY <2>1, NothingListed
<1>8. ASSUME NEW m \in 0 .. n - 1, m \in Right PROVE m + 1 \in Right
  <2> DEFINE k == m + 1
  <2>1. picked[k] = IF k \in S THEN Add(picked[m], k) ELSE picked[m]
    BY <1>6
  <2>2. Lists(picked[m], S \cap 1 .. m)
    BY <1>8
  <2>3. CASE k \notin S
    <3>1. S \cap 1 .. k = S \cap 1 .. m
      BY <2>3
    <3> QED BY <2>1, <2>2, <2>3, <3>1
  <2>4. CASE k \in S
    <3>1. S \cap 1 .. k = (S \cap 1 .. m) \cup {k}
      BY <2>4
    <3>2. Lists(Append(picked[m], k), (S \cap 1 .. m) \cup {k})
      <4>1. k \in Nat /\ \A l \in S \cap 1 .. m : l < k
        OBVIOUS
      <4> HIDE DEF k
      <4> QED BY <2>2, <4>1, OneMoreListed, Zenon
    <3>3. picked[k] = Append(picked[m], k)
      BY <1>2, <2>1, <2>4, Zenon
    <3>4. Lists(picked[k], S \cap 1 .. k)
      BY <3>1, <3>2, <3>3, Zenon
    <3> QED BY <3>4
  <2> QED BY <2>3, <2>4
<1>9. n \in Right
  <2> HIDE DEF Right
  <2> QED BY <1>7, <1>8, Counting
<1> QED BY <1>6, <1>9

-----------------------------------------------------------------------------
(* Files and families *)

\* A list of files in the order of their paths.
InOrder(list) ==
  \A j, k \in DOMAIN list : j < k => \E m, n \in DOMAIN PathOrder : /\ m < n
                                                                    /\ PathOrder[m] = list[j]
                                                                    /\ PathOrder[n] = list[k]

LEMMA PathsListed ==
  ASSUME NEW paths \in SUBSET ContractPaths, NEW list, list = InPathOrder(paths)
  PROVE  /\ {list[j] : j \in DOMAIN list} = paths
         /\ InOrder(list)
         /\ list \in Seq(ContractPaths)
<1> DEFINE chosen == {n \in DOMAIN PathOrder : PathOrder[n] \in paths}
           places == Picked(Len(PathOrder), chosen)
<1>1. /\ Len(PathOrder) \in Nat /\ DOMAIN PathOrder = 1 .. Len(PathOrder)
      /\ chosen \cap 1 .. Len(PathOrder) = chosen
  BY FilesAssumption
<1>2. Lists(places, chosen)
  BY <1>1, PickedIsFilter
<1>3. /\ \A j \in DOMAIN places : places[j] \in chosen
      /\ \A n \in chosen : \E j \in DOMAIN places : places[j] = n
      /\ \A j, k \in DOMAIN places : j < k => places[j] < places[k]
      /\ Len(places) \in Nat /\ DOMAIN places = 1 .. Len(places)
  <2> HIDE DEF places, chosen
  <2> QED BY <1>2 DEF Lists, Ascending
<1>4. list = [j \in DOMAIN places |-> PathOrder[places[j]]]
  BY DEF InPathOrder
<1> HIDE DEF places
<1>5. DOMAIN list = DOMAIN places /\ \A j \in DOMAIN places : list[j] = PathOrder[places[j]]
  BY <1>4
<1>6. {list[j] : j \in DOMAIN list} = paths
  <2>1. ASSUME NEW path \in paths PROVE \E j \in DOMAIN list : list[j] = path
    <3>1. PICK n \in DOMAIN PathOrder : PathOrder[n] = path
      BY DEF ContractPaths
    <3> QED BY <1>3, <1>5, <3>1
  <2> QED BY <1>3, <1>5, <2>1
<1>7. InOrder(list)
  BY <1>3, <1>5 DEF InOrder
<1>8. list \in Seq(ContractPaths)
  <2>1. \A j \in 1 .. Len(places) : PathOrder[places[j]] \in ContractPaths
    BY <1>3 DEF ContractPaths
  <2> HIDE DEF ContractPaths
  <2> QED BY <1>3, <1>4, <2>1
<1> QED BY <1>6, <1>7, <1>8

LEMMA OwnFile ==
  ASSUME NEW R \in Registries, RegistryValid(R), NEW read, NEW i \in DOMAIN R
  PROVE  FamilyValue(R, read, R[i].key) = read[i]
<1>1. DOMAIN R = DOMAIN Keys /\ \A j \in DOMAIN R : R[j].key = Keys[j]
  BY ValidRegistryIsComplete
<1>2. \A j \in DOMAIN R : R[j].key = R[i].key => j = i
  BY <1>1, KeysAssumption
<1>3. \A j \in DOMAIN R : j \in Nat
  BY RegistriesAssumption
<1>4. (CHOOSE j \in DOMAIN R : /\ R[j].key = R[i].key
                               /\ \A k \in DOMAIN R : R[k].key = R[i].key => k <= j) = i
  BY <1>2, <1>3
<1> QED BY <1>4 DEF FamilyValue

\* What a valid registry loads: a value for every key, its own file's.
LEMMA EveryKeyLoaded ==
  ASSUME NEW R \in Registries, RegistryValid(R), NEW read
  PROVE  /\ DOMAIN LoadedFamilies(R, read) = {Keys[k] : k \in DOMAIN Keys}
         /\ \A i \in DOMAIN R : LoadedFamilies(R, read)[R[i].key] = read[i]
         /\ \A key \in {Keys[k] : k \in DOMAIN Keys} : \E i \in DOMAIN R : R[i].key = key
         /\ LoadedFamilies(R, read)[CatalogKey] = FamilyValue(R, read, CatalogKey)
         /\ \A i \in DOMAIN R : R[i].sourcePath \in ContractPaths
<1>1. DOMAIN R = DOMAIN Keys /\ \A j \in DOMAIN R : R[j].key = Keys[j]
  BY ValidRegistryIsComplete
<1>2. {R[i].key : i \in DOMAIN R} = {Keys[k] : k \in DOMAIN Keys}
  BY <1>1
<1>3. \A i \in DOMAIN R : LoadedFamilies(R, read)[R[i].key] = read[i]
  BY OwnFile DEF LoadedFamilies
<1>4. LoadedFamilies(R, read)[CatalogKey] = FamilyValue(R, read, CatalogKey)
  BY <1>2, KeysAssumption DEF LoadedFamilies
<1>5. \A i \in DOMAIN R : R[i].sourcePath \in ContractPaths
  BY DEF RegistryValid, RegistrationDiagnostics
<1> QED BY <1>1, <1>2, <1>3, <1>4, <1>5 DEF LoadedFamilies

\* The place of the catalog among the families.
LEMMA CatalogRegistered ==
  ASSUME NEW R \in Registries, RegistryValid(R)
  PROVE  \E c \in DOMAIN R :
           /\ {i \in DOMAIN R : R[i].key = CatalogKey} = {c}
           /\ \A read : FamilyValue(R, read, CatalogKey) = read[c]
<1>1. PICK c \in DOMAIN R : R[c].key = CatalogKey
  BY EveryKeyLoaded, KeysAssumption
<1>2. \A i \in DOMAIN R : R[i].key = CatalogKey => i = c
  BY <1>1, ValidRegistryIsComplete, KeysAssumption
<1>3. \A read : FamilyValue(R, read, CatalogKey) = read[c]
  BY <1>1, OwnFile
<1> QED BY <1>1, <1>2, <1>3

LEMMA RefsAreFiles ==
  ASSUME NEW catalog \in Contents, catalog # Missing, BadRef \notin catalog.refs
  PROVE  RequiredBundles \cup catalog.refs \in SUBSET ContractPaths
<1>1. catalog \in Content
  BY FilesAssumption
<1>2. catalog.refs \subseteq ContractPaths \cup {BadRef}
  BY <1>1 DEF Content
<1> QED BY <1>2, FilesAssumption

-----------------------------------------------------------------------------
(* The load, from the first read to its outcome *)

\* What a phase has read, when nobody edits.
OnDisk(R) == [i \in DOMAIN R |-> disk[R[i].sourcePath]]
BundlesOnDisk(list) == [j \in DOMAIN list |-> disk[list[j]]]

Catalog == FamilyValue(registry, families, CatalogKey)

\* While the load runs: what it has read so far, and what the bundle phase
\* rests on.
ReadingInv ==
  /\ disk \in [ContractPaths -> Contents]
  /\ edits \in Nat
  /\ phase # "settled" => outcome = Pending
  /\ phase \in {"families", "bundles"} =>
       /\ families \in [DOMAIN registry -> Contents \cup {Unread}]
       /\ edits = 0 => \A i \in DOMAIN registry : families[i] \in {Unread, disk[registry[i].sourcePath]}
  /\ phase \in {"validate", "families"} => files = <<>>
  /\ phase = "bundles" =>
       /\ \A i \in DOMAIN registry : families[i] # Unread
       /\ BadRef \notin Catalog.refs
       /\ files = BundlePaths(Catalog)
       /\ bundles \in [DOMAIN files -> Contents \cup {Unread}]
       /\ edits = 0 => \A j \in DOMAIN files : bundles[j] \in {Unread, disk[files[j]]}

\* What an undisturbed load that returned has returned.
ReturnsTheDisk ==
  (phase = "settled" /\ edits = 0 /\ outcome.kind = "loaded") =>
    LET list == BundlePaths(FamilyValue(registry, OnDisk(registry), CatalogKey)) IN
    outcome = Loaded(registry, OnDisk(registry), list, BundlesOnDisk(list))

OutcomeInv ==
  ReturnedContractsHang /\ ReportsEveryFailure /\ QuietLoadIsAtomic /\ ReturnsTheDisk

\* The catalog of the bundle phase, and the bundles it asks for.
LEMMA BundlesAsked ==
  ASSUME LoaderInv, ReadingInv, phase = "bundles"
  PROVE  /\ {files[j] : j \in DOMAIN files} = RequiredBundles \cup Catalog.refs
         /\ RequiredBundles \cup Catalog.refs \in SUBSET ContractPaths
         /\ InOrder(files) /\ files # <<>>
         /\ files \in Seq(ContractPaths)
         /\ Catalog \in Contents
<1>1. registry \in Registries /\ RegistryValid(registry)
  BY DEF LoaderInv
<1>2. PICK c \in DOMAIN registry : Catalog = families[c]
  BY <1>1, CatalogRegistered DEF Catalog
<1>3. Catalog \in Contents /\ FamilyOk(Catalog) /\ BadRef \notin Catalog.refs
  BY <1>2 DEF ReadingInv, LoaderInv
<1>4. RequiredBundles \cup Catalog.refs \in SUBSET ContractPaths
  BY <1>3, RefsAreFiles DEF FamilyOk, Readable
<1>5. files = InPathOrder(RequiredBundles \cup Catalog.refs)
  BY DEF ReadingInv, BundlePaths
<1>6. /\ {files[j] : j \in DOMAIN files} = RequiredBundles \cup Catalog.refs
      /\ InOrder(files)
      /\ files \in Seq(ContractPaths)
  <2> DEFINE paths == RequiredBundles \cup Catalog.refs
  <2> HIDE DEF paths
  <2>1. paths \in SUBSET ContractPaths /\ files = InPathOrder(paths)
    BY <1>4, <1>5 DEF paths
  <2>2. /\ {files[j] : j \in DOMAIN files} = paths
        /\ InOrder(files)
        /\ files \in Seq(ContractPaths)
    BY <2>1, PathsListed
  <2> QED BY <2>2 DEF paths
<1>7. files # <<>>
  <2>1. PICK path \in RequiredBundles : TRUE
    BY FilesAssumption
  <2>2. PICK j \in DOMAIN files : files[j] = path
    BY <1>6, <2>1
  <2> QED BY <2>2
<1> QED BY <1>3, <1>4, <1>6, <1>7

LEMMA StepReading ==
  ASSUME LoaderInv, LoaderInv', ReadingInv, [Next]_vars
  PROVE  ReadingInv'
<1>1. CASE Validate
  BY <1>1 DEF LoaderInv, ReadingInv, Validate
<1>2. CASE JoinFamilies
  <2>1. CASE phase' = "settled"
    BY <1>2, <2>1 DEF ReadingInv, JoinFamilies
  <2>2. CASE phase' # "settled"
    <3>1. /\ phase = "families" /\ phase' = "bundles"
          /\ \A i \in DOMAIN registry : families[i] # Unread
          /\ BadRef \notin LoadedFamilies(registry, families)[CatalogKey].refs
          /\ files' = BundlePaths(LoadedFamilies(registry, families)[CatalogKey])
          /\ bundles' = [j \in DOMAIN files' |-> Unread]
          /\ UNCHANGED <<outcome, registry, disk, edits, families>>
      BY <1>2, <2>2 DEF JoinFamilies
    <3>2. LoadedFamilies(registry, families)[CatalogKey] = Catalog
      BY <3>1, EveryKeyLoaded DEF LoaderInv, Catalog
    <3>3. Catalog' = Catalog
      BY <3>1 DEF Catalog
    <3> QED BY <3>1, <3>2, <3>3 DEF ReadingInv
  <2> QED BY <2>1, <2>2
<1>3. CASE JoinBundles
  BY <1>3 DEF ReadingInv, JoinBundles
<1>4. ASSUME NEW i \in DOMAIN families, ReadFamily(i) PROVE ReadingInv'
  <2>1. /\ phase = "families" /\ families[i] = Unread
        /\ families' = [families EXCEPT ![i] = disk[registry[i].sourcePath]]
        /\ UNCHANGED <<registry, disk, edits, phase, files, bundles, outcome>>
    BY <1>4 DEF ReadFamily
  <2>2. families \in [DOMAIN registry -> Contents \cup {Unread}]
    BY <2>1 DEF ReadingInv
  <2>3. disk[registry[i].sourcePath] \in Contents
    BY <2>1, <2>2, EveryKeyLoaded DEF LoaderInv, ReadingInv
  <2>4. families' \in [DOMAIN registry -> Contents \cup {Unread}]
    BY <2>1, <2>2, <2>3
  <2>5. edits = 0 => \A k \in DOMAIN registry : families'[k] \in {Unread, disk[registry[k].sourcePath]}
    BY <2>1, <2>2 DEF ReadingInv
  <2> QED BY <2>1, <2>4, <2>5 DEF ReadingInv
<1>5. ASSUME NEW j \in DOMAIN bundles, ReadBundle(j) PROVE ReadingInv'
  <2>1. /\ phase = "bundles" /\ bundles[j] = Unread
        /\ bundles' = [bundles EXCEPT ![j] = disk[files[j]]]
        /\ UNCHANGED <<registry, disk, edits, phase, families, files, outcome>>
    BY <1>5 DEF ReadBundle
  <2>2. bundles \in [DOMAIN files -> Contents \cup {Unread}]
    BY <2>1 DEF ReadingInv
  <2>3. disk[files[j]] \in Contents
    <3>1. files[j] \in ContractPaths
      BY <2>1, <2>2, BundlesAsked
    <3> QED BY <3>1 DEF ReadingInv
  <2>4. bundles' \in [DOMAIN files -> Contents \cup {Unread}]
    BY <2>1, <2>2, <2>3
  <2>5. edits = 0 => \A k \in DOMAIN files : bundles'[k] \in {Unread, disk[files[k]]}
    BY <2>1, <2>2 DEF ReadingInv
  <2>6. Catalog' = Catalog
    BY <2>1 DEF Catalog
  <2> QED BY <2>1, <2>4, <2>5, <2>6 DEF ReadingInv
<1>6. ASSUME NEW path \in ContractPaths, NEW content \in Contents, Edit(path, content)
      PROVE  ReadingInv'
  <2>1. /\ disk' = [disk EXCEPT ![path] = content] /\ edits' = edits + 1
        /\ UNCHANGED <<registry, phase, families, files, bundles, outcome>>
    BY <1>6 DEF Edit
  <2>2. disk' \in [ContractPaths -> Contents]
    BY <2>1 DEF ReadingInv
  <2>3. edits' \in Nat /\ edits' # 0
    BY <2>1 DEF ReadingInv
  <2>4. Catalog' = Catalog
    BY <2>1 DEF Catalog
  <2> QED BY <2>1, <2>2, <2>3, <2>4 DEF ReadingInv
<1>7. CASE UNCHANGED vars
  BY <1>7 DEF ReadingInv, vars, Catalog
<1> QED BY <1>1, <1>2, <1>3, <1>4, <1>5, <1>6, <1>7 DEF Next, Load

LEMMA NothingMovesOnceSettled ==
  ASSUME phase = "settled", [Next]_vars
  PROVE  UNCHANGED vars
<1>1. CASE Load
  BY <1>1 DEF Load, Validate, JoinFamilies, JoinBundles, ReadFamily, ReadBundle
<1>2. ASSUME NEW path \in ContractPaths, NEW content \in Contents, Edit(path, content)
      PROVE  FALSE
  BY <1>2 DEF Edit
<1> QED BY <1>1, <1>2 DEF Next, vars

\* The parts of QuietLoadIsAtomic that the files decide.
LEMMA QuietCatalog ==
  ASSUME NEW R \in Registries, RegistryValid(R), NEW read,
         \A i \in DOMAIN R : read[i] = disk[R[i].sourcePath]
  PROVE  /\ UNION {disk[R[i].sourcePath].refs : i \in {i \in DOMAIN R : R[i].key = CatalogKey}}
              = FamilyValue(R, read, CatalogKey).refs
         /\ (\E path \in {R[i].sourcePath : i \in DOMAIN R} : ~ FamilyOk(disk[path]))
              <=> FamiliesFail(R, read)
<1>1. PICK c \in DOMAIN R : /\ {i \in DOMAIN R : R[i].key = CatalogKey} = {c}
                            /\ FamilyValue(R, read, CatalogKey) = read[c]
  BY CatalogRegistered
<1>2. UNION {disk[R[i].sourcePath].refs : i \in {c}} = read[c].refs
  BY <1>1
<1>3. (\E path \in {R[i].sourcePath : i \in DOMAIN R} : ~ FamilyOk(disk[path]))
        <=> FamiliesFail(R, read)
  BY DEF FamiliesFail
<1> QED BY <1>1, <1>2, <1>3

LEMMA FailedFamiliesListed ==
  ASSUME LoaderInv, ReadingInv, phase = "families"
  PROVE  Lists(FamilyFailures(registry, families),
               {i \in DOMAIN registry : ~ FamilyOk(families[i])})
<1> DEFINE wrong == {i \in DOMAIN registry : ~ FamilyOk(families[i])}
<1>1. Len(registry) \in Nat /\ DOMAIN registry = 1 .. Len(registry)
  BY RegistriesAssumption DEF LoaderInv
<1>2. wrong \cap 1 .. Len(registry) = wrong
  BY <1>1
<1>3. Lists(Picked(Len(registry), wrong), wrong)
  <2> HIDE DEF wrong
  <2> QED BY <1>1, <1>2, PickedIsFilter
<1> QED BY <1>3 DEF FamilyFailures

LEMMA FailedBundlesListed ==
  ASSUME LoaderInv, ReadingInv, phase = "bundles"
  PROVE  Lists(BundleFailures(files, bundles), {j \in DOMAIN files : ~ BundleOk(bundles[j])})
<1> DEFINE wrong == {j \in DOMAIN files : ~ BundleOk(bundles[j])}
<1>1. files \in Seq(ContractPaths)
  BY BundlesAsked
<1>2. Len(files) \in Nat /\ DOMAIN files = 1 .. Len(files)
  BY <1>1
<1>3. wrong \cap 1 .. Len(files) = wrong
  BY <1>2
<1>4. Lists(Picked(Len(files), wrong), wrong)
  <2> HIDE DEF wrong
  <2> QED BY <1>2, <1>3, PickedIsFilter
<1> QED BY <1>4 DEF BundleFailures

LEMMA SettlesAfterFamilies ==
  ASSUME LoaderInv, LoaderInv', ReadingInv, JoinFamilies, phase' = "settled"
  PROVE  OutcomeInv'
<1>1. /\ phase = "families" /\ files = <<>>
      /\ registry \in Registries /\ RegistryValid(registry)
      /\ \A i \in DOMAIN registry : families[i] # Unread
      /\ edits = 0 => \A i \in DOMAIN registry : families[i] = disk[registry[i].sourcePath]
      /\ UNCHANGED <<registry, disk, edits, families, files>>
  BY DEF LoaderInv, ReadingInv, JoinFamilies
<1>2. LoadedFamilies(registry, families)[CatalogKey] = Catalog
  BY <1>1, EveryKeyLoaded DEF Catalog
<1>3. CASE FamiliesFail(registry, families)
  <2> DEFINE failures == FamilyFailures(registry, families)
             wrong    == {i \in DOMAIN registry : ~ FamilyOk(families[i])}
  <2>1. outcome' = Failed(failures)
    BY <1>3 DEF JoinFamilies
  <2>2. Lists(failures, wrong)
    BY <1>1, FailedFamiliesListed
  <2> HIDE DEF failures
  <2>3. outcome'.kind = "failed" /\ outcome'.failures = failures
    BY <2>1 DEF Failed
  <2>4. ReportsEveryFailure'
    BY <1>1, <2>2, <2>3 DEF ReportsEveryFailure, Lists, Ascending
  <2>5. QuietLoadIsAtomic'
    BY <1>1, <1>3, <2>3, QuietCatalog DEF QuietLoadIsAtomic
  <2> QED BY <2>3, <2>4, <2>5 DEF OutcomeInv, ReturnedContractsHang, ReturnsTheDisk
<1>4. CASE ~ FamiliesFail(registry, families)
  <2>1. outcome' = [kind |-> "badRef"] /\ BadRef \in Catalog.refs
    <3>1. outcome'.kind # "incomplete"
      BY DEF LoaderInv
    <3>2. Complete(LoadedFamilies(registry, families))
      BY <1>1, ValidRegistryLoadsAll
    <3> QED BY <1>1, <1>2, <1>4, <3>2 DEF JoinFamilies
  <2>2. outcome'.kind = "badRef"
    BY <2>1
  <2>3. QuietLoadIsAtomic'
    BY <1>1, <1>4, <2>1, <2>2, QuietCatalog DEF QuietLoadIsAtomic, Catalog
  <2> QED BY <2>2, <2>3 DEF OutcomeInv, ReturnedContractsHang, ReportsEveryFailure, ReturnsTheDisk
<1> QED BY <1>3, <1>4

LEMMA SettlesAfterBundles ==
  ASSUME LoaderInv, ReadingInv, JoinBundles
  PROVE  OutcomeInv'
<1>1. /\ phase = "bundles" /\ phase' = "settled"
      /\ registry \in Registries /\ RegistryValid(registry)
      /\ families \in [DOMAIN registry -> Contents \cup {Unread}]
      /\ \A i \in DOMAIN registry : families[i] # Unread /\ FamilyOk(families[i])
      /\ BadRef \notin Catalog.refs /\ files = BundlePaths(Catalog)
      /\ bundles \in [DOMAIN files -> Contents \cup {Unread}]
      /\ \A j \in DOMAIN files : bundles[j] # Unread
      /\ UNCHANGED <<registry, disk, edits, families, files, bundles>>
  BY DEF LoaderInv, ReadingInv, JoinBundles
<1>2. /\ {files[j] : j \in DOMAIN files} = RequiredBundles \cup Catalog.refs
      /\ InOrder(files) /\ files # <<>>
  BY <1>1, BundlesAsked
<1>3. edits = 0 => /\ families = OnDisk(registry)
                   /\ bundles = BundlesOnDisk(files)
  <2> SUFFICES ASSUME edits = 0 PROVE families = OnDisk(registry) /\ bundles = BundlesOnDisk(files)
    OBVIOUS
  <2>1. \A i \in DOMAIN registry : families[i] = disk[registry[i].sourcePath]
    BY <1>1 DEF ReadingInv
  <2>2. \A j \in DOMAIN files : bundles[j] = disk[files[j]]
    BY <1>1 DEF ReadingInv
  <2> QED BY <1>1, <2>1, <2>2 DEF OnDisk, BundlesOnDisk
<1>4. ~ FamiliesFail(registry, families)
  BY <1>1 DEF FamiliesFail
<1>5. edits = 0 =>
        LET refs == UNION {disk[registry[i].sourcePath].refs :
                             i \in {i \in DOMAIN registry : registry[i].key = CatalogKey}}
        IN /\ ~ \E path \in {registry[i].sourcePath : i \in DOMAIN registry} : ~ FamilyOk(disk[path])
           /\ BadRef \notin refs
           /\ (\E path \in RequiredBundles \cup refs : ~ BundleOk(disk[path]))
                <=> BundlesFail(files, bundles)
  <2> SUFFICES ASSUME edits = 0
               PROVE  LET refs == UNION {disk[registry[i].sourcePath].refs :
                                     i \in {i \in DOMAIN registry : registry[i].key = CatalogKey}}
                      IN /\ ~ \E path \in {registry[i].sourcePath : i \in DOMAIN registry} :
                                ~ FamilyOk(disk[path])
                         /\ BadRef \notin refs
                         /\ (\E path \in RequiredBundles \cup refs : ~ BundleOk(disk[path]))
                              <=> BundlesFail(files, bundles)
    OBVIOUS
  <2>1. \A i \in DOMAIN registry : families[i] = disk[registry[i].sourcePath]
    BY <1>3 DEF OnDisk
  <2>2. \A j \in DOMAIN files : bundles[j] = disk[files[j]]
    BY <1>3 DEF BundlesOnDisk
  <2>3. (\E path \in RequiredBundles \cup Catalog.refs : ~ BundleOk(disk[path]))
          <=> BundlesFail(files, bundles)
    BY <1>2, <2>2 DEF BundlesFail
  <2> QED BY <1>1, <1>4, <2>1, <2>3, QuietCatalog DEF Catalog
<1>6. CASE BundlesFail(files, bundles)
  <2> DEFINE failures == BundleFailures(files, bundles)
             wrong    == {j \in DOMAIN files : ~ BundleOk(bundles[j])}
  <2>1. outcome' = Failed(failures)
    BY <1>6 DEF JoinBundles
  <2>2. Lists(failures, wrong)
    BY <1>1, FailedBundlesListed
  <2> HIDE DEF failures
  <2>3. outcome'.kind = "failed" /\ outcome'.failures = failures
    BY <2>1 DEF Failed
  <2>4. ReportsEveryFailure'
    BY <1>1, <1>2, <2>2, <2>3 DEF ReportsEveryFailure, Lists, Ascending
  <2>5. QuietLoadIsAtomic'
    BY <1>1, <1>5, <1>6, <2>3 DEF QuietLoadIsAtomic
  <2> QED BY <2>3, <2>4, <2>5 DEF OutcomeInv, ReturnedContractsHang, ReturnsTheDisk
<1>7. CASE ~ BundlesFail(files, bundles)
  <2> DEFINE loaded == LoadedFamilies(registry, families)
             pairs  == [j \in DOMAIN files |-> <<files[j], bundles[j]>>]
  <2>1. outcome' = Loaded(registry, families, files, bundles)
    BY <1>7 DEF JoinBundles
  <2>2. outcome'.kind = "loaded" /\ outcome'.families = loaded /\ outcome'.bundles = pairs
    BY <2>1 DEF Loaded
  <2>3. /\ DOMAIN loaded = {Keys[k] : k \in DOMAIN Keys}
        /\ \A i \in DOMAIN registry : loaded[registry[i].key] = families[i]
        /\ \A key \in DOMAIN loaded : FamilyOk(loaded[key])
        /\ loaded[CatalogKey] = Catalog
    <3>1. /\ DOMAIN loaded = {Keys[k] : k \in DOMAIN Keys}
          /\ \A i \in DOMAIN registry : loaded[registry[i].key] = families[i]
          /\ \A key \in {Keys[k] : k \in DOMAIN Keys} : \E i \in DOMAIN registry : registry[i].key = key
          /\ loaded[CatalogKey] = Catalog
      <4>1. registry \in Registries /\ RegistryValid(registry)
        BY <1>1
      <4>2. \A i \in DOMAIN registry : loaded[registry[i].key] = families[i]
        <5>1. ASSUME NEW i \in DOMAIN registry
              PROVE  /\ loaded[registry[i].key] = FamilyValue(registry, families, registry[i].key)
                     /\ FamilyValue(registry, families, registry[i].key) = families[i]
          <6>1. FamilyValue(registry, families, registry[i].key) = families[i]
            BY <4>1, OwnFile, Zenon
          <6>2. loaded[registry[i].key] = FamilyValue(registry, families, registry[i].key)
            BY DEF LoadedFamilies
          <6> QED BY <6>1, <6>2
        <5> QED BY <5>1
      <4>3. loaded[CatalogKey] = Catalog
        BY <4>1, EveryKeyLoaded, Zenon DEF Catalog
      <4>4. DOMAIN loaded = {Keys[k] : k \in DOMAIN Keys}
        BY <4>1, EveryKeyLoaded
      <4>5. \A key \in {Keys[k] : k \in DOMAIN Keys} : \E i \in DOMAIN registry : registry[i].key = key
        BY <4>1, EveryKeyLoaded
      <4> QED BY <4>2, <4>3, <4>4, <4>5
    <3> QED BY <1>1, <3>1
  <2>4. /\ DOMAIN pairs = DOMAIN files
        /\ \A j \in DOMAIN files : pairs[j][1] = files[j] /\ pairs[j][2] = bundles[j]
        /\ pairs # <<>>
    <3>1. DOMAIN files # {}
      BY <1>2, FilesAssumption
    <3> QED BY <3>1
  <2> HIDE DEF loaded, pairs
  <2>5. ReturnedContractsHang'
    <3>1. {pairs[j][1] : j \in DOMAIN pairs} = RequiredBundles \cup loaded[CatalogKey].refs
      BY <1>2, <2>3, <2>4
    <3>2. \A j \in DOMAIN pairs : BundleOk(pairs[j][2])
      BY <1>7, <2>4 DEF BundlesFail
    <3>3. \A j, k \in DOMAIN pairs :
            j < k => \E m, n \in DOMAIN PathOrder : /\ m < n
                                                    /\ PathOrder[m] = pairs[j][1]
                                                    /\ PathOrder[n] = pairs[k][1]
      BY <1>2, <2>4 DEF InOrder
    <3> QED BY <2>2, <2>3, <2>4, <3>1, <3>2, <3>3 DEF ReturnedContractsHang, Wanted
  <2>6. QuietLoadIsAtomic'
    <3>1. SUFFICES ASSUME edits = 0
                   PROVE  /\ \A i \in DOMAIN registry : loaded[registry[i].key] = disk[registry[i].sourcePath]
                          /\ \A j \in DOMAIN pairs : pairs[j][2] = disk[pairs[j][1]]
      BY <1>1, <1>5, <1>7, <2>2 DEF QuietLoadIsAtomic
    <3> QED BY <1>3, <2>3, <2>4, <3>1 DEF OnDisk, BundlesOnDisk
  <2>7. ReturnsTheDisk'
    <3> SUFFICES ASSUME edits = 0
                 PROVE  ReturnsTheDisk'
      BY <1>1 DEF ReturnsTheDisk
    <3>1. OnDisk(registry)' = families /\ BundlesOnDisk(files)' = bundles
      BY <1>1, <1>3 DEF OnDisk, BundlesOnDisk
    <3>2. files = BundlePaths(FamilyValue(registry, families, CatalogKey))
      BY <1>1 DEF Catalog
    <3> QED BY <1>1, <1>3, <2>1, <3>1, <3>2 DEF ReturnsTheDisk, OnDisk, BundlesOnDisk
  <2>8. ReportsEveryFailure'
    BY <2>2 DEF ReportsEveryFailure
  <2> QED BY <2>5, <2>6, <2>7, <2>8 DEF OutcomeInv
<1> QED BY <1>6, <1>7

LEMMA StepOutcome ==
  ASSUME LoaderInv, LoaderInv', ReadingInv, ReadingInv', OutcomeInv, [Next]_vars
  PROVE  OutcomeInv'
<1>1. CASE phase = "settled"
  <2>1. UNCHANGED vars
    BY <1>1, NothingMovesOnceSettled
  <2>2. /\ ReturnedContractsHang' = ReturnedContractsHang
        /\ ReportsEveryFailure' = ReportsEveryFailure
    BY <2>1 DEF vars, ReturnedContractsHang, ReportsEveryFailure
  <2>3. QuietLoadIsAtomic' = QuietLoadIsAtomic
    BY <2>1 DEF vars, QuietLoadIsAtomic
  <2>4. ReturnsTheDisk' = ReturnsTheDisk
    BY <2>1 DEF vars, ReturnsTheDisk, OnDisk, BundlesOnDisk
  <2> QED BY <2>2, <2>3, <2>4 DEF OutcomeInv
<1>2. CASE phase' # "settled"
  <2>1. outcome'.kind = "pending"
    BY <1>2 DEF ReadingInv, Pending
  <2> QED BY <1>2, <2>1 DEF OutcomeInv, ReturnedContractsHang, ReportsEveryFailure,
                            QuietLoadIsAtomic, ReturnsTheDisk
<1>3. CASE phase # "settled" /\ phase' = "settled"
  <2>1. CASE Validate
    <3>1. outcome' = [kind |-> "registry"] /\ registry' = registry /\ ~ RegistryValid(registry)
      BY <1>3, <2>1 DEF Validate
    <3>2. outcome'.kind = "registry"
      BY <3>1
    <3> QED BY <3>1, <3>2 DEF OutcomeInv, ReturnedContractsHang, ReportsEveryFailure,
                              QuietLoadIsAtomic, ReturnsTheDisk
  <2>2. CASE JoinFamilies
    BY <1>3, <2>2, SettlesAfterFamilies
  <2>3. CASE JoinBundles
    BY <2>3, SettlesAfterBundles
  <2>4. CASE Validate \/ JoinFamilies \/ JoinBundles
    BY <2>1, <2>2, <2>3, <2>4
  <2> QED BY <1>3, <2>4 DEF Next, Load, ReadFamily, ReadBundle, Edit, vars
<1> QED BY <1>1, <1>2, <1>3

LoadInv == LoaderInv /\ ReadingInv /\ OutcomeInv

LEMMA LoadInvariant == Init /\ [][Next]_vars => []LoadInv
<1>1. Init => LoadInv
  BY FilesAssumption DEF Init, LoadInv, LoaderInv, ReadingInv, OutcomeInv, ReturnedContractsHang,
         ReportsEveryFailure, QuietLoadIsAtomic, ReturnsTheDisk, Pending
<1>2. LoadInv /\ [Next]_vars => LoadInv'
  <2> SUFFICES ASSUME LoadInv, [Next]_vars PROVE LoadInv'
    OBVIOUS
  <2>1. LoaderInv'
    BY StepLoaderInv DEF LoadInv
  <2>2. ReadingInv'
    BY <2>1, StepReading DEF LoadInv
  <2>3. OutcomeInv'
    BY <2>1, <2>2, StepOutcome DEF LoadInv
  <2> QED BY <2>1, <2>2, <2>3 DEF LoadInv
<1> QED BY <1>1, <1>2, PTL

\* Whatever is edited while a load runs, the contracts it returns hang
\* together: every family, parsed, and the bundles their own catalog asks for,
\* parsed and in path order.
THEOREM ReturnedHold == Spec => []ReturnedContractsHang
<1>1. LoadInv => ReturnedContractsHang
  BY DEF LoadInv, OutcomeInv
<1> QED BY <1>1, LoadInvariant, PTL DEF Spec

\* throwContractLoadFailures: a load that fails lists every file of the phase
\* that failed, once each and in order, whatever order the reads settled in.
THEOREM EveryFailureReported == Spec => []ReportsEveryFailure
<1>1. LoadInv => ReportsEveryFailure
  BY DEF LoadInv, OutcomeInv
<1> QED BY <1>1, LoadInvariant, PTL DEF Spec

\* A load nobody edits under is a function of the registry and of the files,
\* for every registry and all files.
THEOREM QuietLoadsAtomic == Spec => []QuietLoadIsAtomic
<1>1. LoadInv => QuietLoadIsAtomic
  BY DEF LoadInv, OutcomeInv
<1> QED BY <1>1, LoadInvariant, PTL DEF Spec

-----------------------------------------------------------------------------
(* Types *)

LEMMA NoBundles == <<>> \in [DOMAIN <<>> -> Contents \cup {Unread}]
<1>1. DOMAIN <<>> = {}
  OBVIOUS
<1>2. <<>> = [j \in DOMAIN <<>> |-> <<>>[j]]
  OBVIOUS
<1> QED BY <1>1, <1>2

\* What ReadingInv leaves open: the lists before they are used, and everything
\* once the load has settled.
OtherTypes ==
  /\ edits \in 0 .. MaxEdits
  /\ phase = "validate" => families = <<>>
  /\ phase \in {"validate", "families"} => bundles = <<>>
  /\ phase = "settled" =>
       /\ families = <<>> \/ families \in [DOMAIN registry -> Contents \cup {Unread}]
       /\ \A j \in DOMAIN files : files[j] \in ContractPaths
       /\ bundles \in [DOMAIN files -> Contents \cup {Unread}]
       /\ outcome.kind \in Outcomes \ {"pending"}

LEMMA FilesTyped ==
  ASSUME LoaderInv, ReadingInv, OtherTypes
  PROVE  /\ \A j \in DOMAIN files : files[j] \in ContractPaths
         /\ bundles \in [DOMAIN files -> Contents \cup {Unread}]
         /\ families = <<>> \/ families \in [DOMAIN registry -> Contents \cup {Unread}]
<1>1. CASE phase \in {"validate", "families"}
  <2>1. files = <<>> /\ bundles = <<>>
    BY <1>1 DEF ReadingInv, OtherTypes
  <2>2. DOMAIN <<>> = {}
    OBVIOUS
  <2> QED BY <1>1, <2>1, <2>2, NoBundles DEF ReadingInv, OtherTypes
<1>2. CASE phase = "bundles"
  BY <1>2, BundlesAsked DEF ReadingInv
<1>3. CASE phase = "settled"
  BY <1>3 DEF OtherTypes
<1> QED BY <1>1, <1>2, <1>3 DEF LoaderInv

LEMMA StepOtherTypes ==
  ASSUME LoaderInv, ReadingInv, OtherTypes, [Next]_vars
  PROVE  OtherTypes'
<1>1. CASE phase = "settled"
  <2>1. UNCHANGED vars
    BY <1>1, NothingMovesOnceSettled
  <2> QED BY <2>1 DEF vars, OtherTypes
<1>2. CASE phase # "settled" /\ Validate
  BY <1>2, FilesTyped DEF Validate, OtherTypes, Outcomes
<1>3. CASE phase # "settled" /\ JoinFamilies
  <2>1. CASE phase' = "settled"
    <3>1. UNCHANGED <<registry, edits, families, files, bundles>>
      BY <1>3, <2>1 DEF JoinFamilies
    <3>2. outcome'.kind \in Outcomes \ {"pending"}
      BY <1>3, <2>1 DEF JoinFamilies, Failed, Outcomes
    <3> QED BY <2>1, <3>1, <3>2, FilesTyped DEF OtherTypes
  <2>2. CASE phase' # "settled"
    BY <1>3, <2>2 DEF JoinFamilies, OtherTypes
  <2> QED BY <2>1, <2>2
<1>4. CASE phase # "settled" /\ JoinBundles
  <2>1. UNCHANGED <<registry, edits, families, files, bundles>> /\ phase' = "settled"
    BY <1>4 DEF JoinBundles
  <2>2. outcome'.kind \in {"failed", "loaded"}
    BY <1>4 DEF JoinBundles, Failed, Loaded
  <2> QED BY <2>1, <2>2, FilesTyped DEF OtherTypes, Outcomes
<1>5. ASSUME NEW i \in DOMAIN families, ReadFamily(i) PROVE OtherTypes'
  BY <1>5 DEF ReadFamily, OtherTypes
<1>6. ASSUME NEW j \in DOMAIN bundles, ReadBundle(j) PROVE OtherTypes'
  BY <1>6 DEF ReadBundle, OtherTypes
<1>7. ASSUME NEW path \in ContractPaths, NEW content \in Contents, Edit(path, content) PROVE OtherTypes'
  <2>1. edits + 1 \in 0 .. MaxEdits
    BY <1>7, FilesAssumption DEF Edit, OtherTypes
  <2> QED BY <1>7, <2>1 DEF Edit, OtherTypes
<1>8. CASE UNCHANGED vars
  BY <1>8 DEF vars, OtherTypes
<1> QED BY <1>1, <1>2, <1>3, <1>4, <1>5, <1>6, <1>7, <1>8 DEF Next, Load

\* The variables of a load have their types; it has an outcome exactly when it
\* has settled, whatever order the reads settled in and whatever was edited.
THEOREM TypeCorrect == Spec => []TypeOK
<1>1. Init => OtherTypes
  BY FilesAssumption DEF Init, OtherTypes
<1>2. LoaderInv /\ ReadingInv /\ OtherTypes => TypeOK
  <2> SUFFICES ASSUME LoaderInv, ReadingInv, OtherTypes PROVE TypeOK
    OBVIOUS
  <2>1. outcome.kind \in Outcomes /\ (phase = "settled" <=> outcome # Pending)
    <3>1. CASE phase = "settled"
      BY <3>1 DEF OtherTypes, Pending
    <3>2. CASE phase # "settled"
      BY <3>2 DEF ReadingInv, Pending, Outcomes
    <3> QED BY <3>1, <3>2
  <2> QED BY <2>1, FilesTyped DEF LoaderInv, ReadingInv, OtherTypes, TypeOK
<1>3. LoadInv => LoaderInv /\ ReadingInv
  BY DEF LoadInv
<1>4. LoaderInv /\ ReadingInv /\ OtherTypes /\ [Next]_vars => OtherTypes'
  BY StepOtherTypes
<1> QED BY <1>1, <1>2, <1>3, <1>4, LoadInvariant, PTL DEF Spec

-----------------------------------------------------------------------------
(* The strict loader, and what the two agree on *)

\* What the strict load has read so far.
StrictReading ==
  /\ stage \in {"families", "bundles", "assertions", "settled"}
  /\ stage # "settled" =>
       /\ contracts = Pending /\ phase = "validate" /\ registry = Committed
       /\ singletons \in [DOMAIN Committed -> Contents \cup {Unread}]
       /\ edits = 0 => \A i \in DOMAIN Committed :
                         singletons[i] \in {Unread, disk[Committed[i].sourcePath]}
  /\ stage \in {"families", "bundles"} => asserted = {}
  /\ stage \in {"bundles", "assertions"} =>
       /\ \A i \in DOMAIN Committed : singletons[i] # Unread /\ TypedFamily(i, singletons[i])
       /\ BadRef \notin FamilyValue(Committed, singletons, CatalogKey).refs
       /\ DOMAIN schemas = {BundleFiles[j] : j \in DOMAIN BundleFiles}
       /\ edits = 0 => \A path \in DOMAIN schemas : schemas[path] \in {Unread, disk[path]}
  /\ stage = "assertions" =>
       /\ \A path \in DOMAIN schemas : schemas[path] # Unread /\ TypedBundle(schemas[path])
       /\ edits = 0 => \A path \in asserted : AssertionHolds(path, disk[path])

\* A file that can be what it is stays so.
QuietDisk == edits = 0 => \A path \in ContractPaths : Possible(path, disk[path])

DiskCatalog == FamilyValue(Committed, OnDisk(Committed), CatalogKey)

DiskContracts ==
  Loaded(Committed, OnDisk(Committed), BundlePaths(DiskCatalog), BundlesOnDisk(BundlePaths(DiskCatalog)))

\* What the strict load demands of files nobody edits, and what the
\* registry's load demands of them.
StrictlyRight ==
  /\ \A i \in DOMAIN Committed : TypedFamily(i, disk[Committed[i].sourcePath])
  /\ BadRef \notin DiskCatalog.refs
  /\ \A path \in RequiredBundles \cup DiskCatalog.refs : TypedBundle(disk[path])
  /\ \A path \in Asserted \cup RequiredBundles \cup DiskCatalog.refs : AssertionHolds(path, disk[path])

Right ==
  /\ \A i \in DOMAIN Committed : FamilyOk(disk[Committed[i].sourcePath])
  /\ BadRef \notin DiskCatalog.refs
  /\ \A path \in RequiredBundles \cup DiskCatalog.refs : BundleOk(disk[path])

StrictVerdict ==
  (stage = "settled" /\ edits = 0 /\ registry = Committed) =>
    /\ contracts.kind = "loaded" <=> StrictlyRight
    /\ contracts.kind = "loaded" => contracts = DiskContracts

StrictInv == StrictReading /\ QuietDisk /\ StrictVerdict

\* The links of the files a load reads stay within the root.
DiskInside ==
  /\ \A i \in DOMAIN Committed : disk[Committed[i].sourcePath].inside
  /\ \A path \in RequiredBundles \cup DiskCatalog.refs : disk[path].inside

\* What a file may hold makes the two demands one, but for the links.
LEMMA SameDemands ==
  ASSUME disk \in [ContractPaths -> Contents], \A path \in ContractPaths : Possible(path, disk[path])
  PROVE  Right <=> StrictlyRight /\ DiskInside
<1>1. /\ Committed \in Registries /\ RegistryValid(Committed)
      /\ \A i \in DOMAIN Committed : Committed[i].sourcePath \in ContractPaths
      /\ Asserted \subseteq {Committed[i].sourcePath : i \in DOMAIN Committed}
      /\ Permissive \subseteq Asserted
  BY StrictAssumption, EveryKeyLoaded
<1>2. PICK c \in DOMAIN Committed : DiskCatalog = disk[Committed[c].sourcePath]
  BY <1>1, CatalogRegistered DEF DiskCatalog, OnDisk
<1>3. DiskCatalog # Missing /\ BadRef \notin DiskCatalog.refs
        => RequiredBundles \cup DiskCatalog.refs \in SUBSET ContractPaths
  BY <1>1, <1>2, RefsAreFiles
<1>4. ASSUME Right PROVE StrictlyRight /\ DiskInside
  <2>1. \A i \in DOMAIN Committed : TypedFamily(i, disk[Committed[i].sourcePath])
    BY <1>4 DEF Right, FamilyOk, Readable, TypedFamily
  <2>2. \A path \in RequiredBundles \cup DiskCatalog.refs : TypedBundle(disk[path])
    BY <1>4 DEF Right, BundleOk, Readable, TypedBundle
  <2>3. \A path \in Asserted : AssertionHolds(path, disk[path])
    BY <1>1, <1>4 DEF Right, FamilyOk, Readable, AssertionHolds
  <2>4. \A path \in RequiredBundles \cup DiskCatalog.refs :
          path \notin Asserted => AssertionHolds(path, disk[path])
    BY <1>4 DEF Right, BundleOk, Readable, AssertionHolds
  <2>5. DiskInside
    BY <1>4 DEF Right, FamilyOk, BundleOk, Readable, DiskInside
  <2> QED BY <1>4, <2>1, <2>2, <2>3, <2>4, <2>5 DEF Right, StrictlyRight
<1>5. ASSUME StrictlyRight, DiskInside PROVE Right
  <2>1. ASSUME NEW i \in DOMAIN Committed PROVE FamilyOk(disk[Committed[i].sourcePath])
    <3>1. TypedFamily(i, disk[Committed[i].sourcePath])
      BY <1>5 DEF StrictlyRight
    <3>2. Committed[i].sourcePath \in Asserted => "family" \in disk[Committed[i].sourcePath].known
      BY <1>5 DEF StrictlyRight, AssertionHolds
    <3>3. disk[Committed[i].sourcePath].inside
      BY <1>5 DEF DiskInside
    <3> QED BY <1>1, <3>1, <3>2, <3>3 DEF TypedFamily, FamilyOk, Readable
  <2>2. ASSUME NEW path \in RequiredBundles \cup DiskCatalog.refs PROVE BundleOk(disk[path])
    <3>1. /\ TypedBundle(disk[path]) /\ AssertionHolds(path, disk[path])
          /\ disk[path].inside
      BY <1>5 DEF StrictlyRight, DiskInside
    <3>2. path \in ContractPaths
      BY <1>2, <1>3, <1>5, <2>1 DEF StrictlyRight, FamilyOk, Readable
    <3>3. CASE path \notin Asserted
      BY <3>1, <3>3 DEF TypedBundle, AssertionHolds, BundleOk, Readable
    <3>4. CASE path \in Asserted
      <4>1. "bundle" \in disk[path].known
        BY <3>1, <3>2, <3>4 DEF TypedBundle, AssertionHolds, Possible
      <4> QED BY <3>1, <4>1 DEF TypedBundle, BundleOk, Readable
    <3> QED BY <3>3, <3>4
  <2> QED BY <1>5, <2>1, <2>2 DEF Right, StrictlyRight
<1> QED BY <1>4, <1>5

LEMMA NothingPicked ==
  ASSUME NEW n \in Nat, NEW S \in SUBSET (1 .. n)
  PROVE  Picked(n, S) = <<>> <=> S = {}
<1> DEFINE list == Picked(n, S)
<1>1. Lists(list, S \cap 1 .. n) /\ S \cap 1 .. n = S
  BY PickedIsFilter
<1> HIDE DEF list
<1>2. list \in Seq(Nat) /\ {list[m] : m \in DOMAIN list} = S
  BY <1>1 DEF Lists
<1>3. ASSUME S = {} PROVE list = <<>>
  <2>1. Len(list) = 0
    <3>1. Len(list) \in Nat /\ DOMAIN list = 1 .. Len(list) /\ 1 \notin DOMAIN list
      BY <1>2, <1>3
    <3> QED BY <3>1
  <2> QED BY <1>2, <2>1
<1>4. ASSUME list = <<>> PROVE S = {}
  BY <1>2, <1>4
<1> QED BY <1>3, <1>4 DEF list

\* The bundle files of a strict load whose families were read.
LEMMA StrictBundles ==
  ASSUME NEW read \in [DOMAIN Committed -> Contents \cup {Unread}],
         \A i \in DOMAIN Committed : read[i] # Unread /\ TypedFamily(i, read[i]),
         BadRef \notin FamilyValue(Committed, read, CatalogKey).refs
  PROVE  LET catalog == FamilyValue(Committed, read, CatalogKey) IN
         /\ {BundlePaths(catalog)[j] : j \in DOMAIN BundlePaths(catalog)} = RequiredBundles \cup catalog.refs
         /\ RequiredBundles \cup catalog.refs \in SUBSET ContractPaths
         /\ BundlePaths(catalog) \in Seq(ContractPaths)
<1> DEFINE catalog == FamilyValue(Committed, read, CatalogKey)
<1>1. PICK c \in DOMAIN Committed : catalog = read[c]
  BY StrictAssumption, CatalogRegistered
<1>2. catalog \in Contents /\ catalog # Missing /\ BadRef \notin catalog.refs
  BY <1>1 DEF TypedFamily
<1> HIDE DEF catalog
<1>3. RequiredBundles \cup catalog.refs \in SUBSET ContractPaths
  BY <1>2, RefsAreFiles
<1>4. BundlePaths(catalog) = InPathOrder(RequiredBundles \cup catalog.refs)
  BY DEF BundlePaths
<1>5. /\ {BundlePaths(catalog)[j] : j \in DOMAIN BundlePaths(catalog)} = RequiredBundles \cup catalog.refs
      /\ BundlePaths(catalog) \in Seq(ContractPaths)
  <2> DEFINE paths == RequiredBundles \cup catalog.refs
             list  == BundlePaths(catalog)
  <2> HIDE DEF paths, list
  <2>1. paths \in SUBSET ContractPaths /\ list = InPathOrder(paths)
    BY <1>3, <1>4 DEF paths, list
  <2>2. {list[j] : j \in DOMAIN list} = paths /\ list \in Seq(ContractPaths)
    BY <2>1, PathsListed
  <2> QED BY <2>2 DEF paths, list
<1> QED BY <1>3, <1>5 DEF catalog

\* Contracts the strict loader made of the disk stay inside when its files do.
LEMMA ContractsInside ==
  ASSUME disk \in [ContractPaths -> Contents], StrictlyRight
  PROVE  StaysInside(DiskContracts) <=> DiskInside
<1> DEFINE list   == BundlePaths(DiskCatalog)
           loaded == LoadedFamilies(Committed, OnDisk(Committed))
<1>1. Committed \in Registries /\ RegistryValid(Committed)
  BY StrictAssumption
<1>2. /\ DOMAIN loaded = {Keys[k] : k \in DOMAIN Keys}
      /\ \A i \in DOMAIN Committed : loaded[Committed[i].key] = OnDisk(Committed)[i]
      /\ \A key \in {Keys[k] : k \in DOMAIN Keys} : \E i \in DOMAIN Committed : Committed[i].key = key
      /\ \A i \in DOMAIN Committed : Committed[i].sourcePath \in ContractPaths
  <2> DEFINE read == OnDisk(Committed)
  <2> HIDE DEF read
  <2>1. DOMAIN LoadedFamilies(Committed, read) = {Keys[k] : k \in DOMAIN Keys}
    <3>1. DOMAIN Committed = DOMAIN Keys /\ \A j \in DOMAIN Committed : Committed[j].key = Keys[j]
      BY <1>1, ValidRegistryIsComplete
    <3>2. {Committed[i].key : i \in DOMAIN Committed} = {Keys[k] : k \in DOMAIN Keys}
      BY <3>1
    <3> QED BY <3>2 DEF LoadedFamilies
  <2>2. \A i \in DOMAIN Committed : LoadedFamilies(Committed, read)[Committed[i].key] = read[i]
    BY <1>1, OwnFile DEF LoadedFamilies
  <2>3. /\ \A key \in {Keys[k] : k \in DOMAIN Keys} : \E i \in DOMAIN Committed : Committed[i].key = key
        /\ \A i \in DOMAIN Committed : Committed[i].sourcePath \in ContractPaths
    BY <1>1, EveryKeyLoaded
  <2> QED BY <2>1, <2>2, <2>3 DEF read
<1>3. \A i \in DOMAIN Committed : Committed[i].key \in {Keys[k] : k \in DOMAIN Keys}
  BY <1>1, RegistriesAssumption DEF Registration
<1>4. \A i \in DOMAIN Committed : OnDisk(Committed)[i] = disk[Committed[i].sourcePath]
  BY DEF OnDisk
<1> HIDE DEF loaded
<1>5. (\A key \in DOMAIN loaded : loaded[key].inside)
        <=> \A i \in DOMAIN Committed : disk[Committed[i].sourcePath].inside
  <2>1. ASSUME \A key \in DOMAIN loaded : loaded[key].inside, NEW i \in DOMAIN Committed
        PROVE  disk[Committed[i].sourcePath].inside
    <3>1. Committed[i].key \in DOMAIN loaded /\ loaded[Committed[i].key] = disk[Committed[i].sourcePath]
      BY <1>3, <1>2, <1>4
    <3> QED BY <2>1, <3>1
  <2>2. ASSUME \A i \in DOMAIN Committed : disk[Committed[i].sourcePath].inside, NEW key \in DOMAIN loaded
        PROVE  loaded[key].inside
    <3>1. PICK i \in DOMAIN Committed : Committed[i].key = key
      BY <1>2
    <3>2. loaded[key] = disk[Committed[i].sourcePath]
      BY <1>2, <1>4, <3>1
    <3> QED BY <2>2, <3>2
  <2> QED BY <2>1, <2>2
<1>6. PICK c \in DOMAIN Committed : DiskCatalog = disk[Committed[c].sourcePath]
  BY <1>1, <1>4, CatalogRegistered DEF DiskCatalog
<1>7. DiskCatalog \in Contents /\ DiskCatalog # Missing /\ BadRef \notin DiskCatalog.refs
  BY <1>2, <1>6 DEF StrictlyRight, TypedFamily
<1>8. {list[j] : j \in DOMAIN list} = RequiredBundles \cup DiskCatalog.refs
  <2>1. \A i \in DOMAIN Committed : OnDisk(Committed)[i] # Unread /\ TypedFamily(i, OnDisk(Committed)[i])
    BY <1>2, <1>4, FilesAssumption DEF StrictlyRight
  <2>2. OnDisk(Committed) \in [DOMAIN Committed -> Contents \cup {Unread}]
    BY <1>2 DEF OnDisk
  <2>3. BadRef \notin FamilyValue(Committed, OnDisk(Committed), CatalogKey).refs
    BY <1>7 DEF DiskCatalog
  <2> QED BY <2>1, <2>2, <2>3, StrictBundles DEF DiskCatalog
<1> HIDE DEF list
<1>9. (\A j \in DOMAIN list : disk[list[j]].inside)
        <=> \A path \in RequiredBundles \cup DiskCatalog.refs : disk[path].inside
  BY <1>8
<1>10. /\ DiskContracts.families = loaded
       /\ DOMAIN DiskContracts.bundles = DOMAIN list
       /\ \A j \in DOMAIN list : DiskContracts.bundles[j][2] = disk[list[j]]
  BY DEF DiskContracts, Loaded, BundlesOnDisk, list, loaded
<1> QED BY <1>5, <1>9, <1>10 DEF StaysInside, DiskInside

\* Steps that leave the strict load and its files alone.
LEMMA StrictUnmoved ==
  ASSUME StrictInv, UNCHANGED <<registry, disk, edits, stage, singletons, schemas, asserted, contracts>>,
         stage # "settled" => phase' = phase
  PROVE  StrictInv'
<1>1. StrictReading'
  BY DEF StrictInv, StrictReading, BundleFiles
<1>2. QuietDisk'
  BY DEF StrictInv, QuietDisk
<1>3. OnDisk(Committed)' = OnDisk(Committed)
  BY DEF OnDisk
<1>4. DiskCatalog' = DiskCatalog
  BY <1>3 DEF DiskCatalog
<1>5. BundlesOnDisk(BundlePaths(DiskCatalog))' = BundlesOnDisk(BundlePaths(DiskCatalog))
  BY <1>4 DEF BundlesOnDisk
<1>6. DiskContracts' = DiskContracts
  BY <1>3, <1>4, <1>5 DEF DiskContracts
<1>7. StrictlyRight' = StrictlyRight
  BY <1>4 DEF StrictlyRight
<1>8. StrictVerdict'
  BY <1>6, <1>7 DEF StrictInv, StrictVerdict
<1> QED BY <1>1, <1>2, <1>8 DEF StrictInv

LEMMA StrictEdited ==
  ASSUME LoadInv, StrictInv, NEW path \in ContractPaths, NEW content \in Contents,
         Edit(path, content), UNCHANGED strictVars
  PROVE  StrictInv'
<1>1. /\ edits' = edits + 1 /\ edits \in Nat
      /\ UNCHANGED <<registry, phase, stage, singletons, schemas, asserted, contracts>>
  BY DEF Edit, strictVars, LoadInv, ReadingInv
<1>2. edits' # 0
  BY <1>1
<1> QED BY <1>1, <1>2 DEF StrictInv, StrictReading, QuietDisk, StrictVerdict, BundleFiles

\* While nobody edits, what a strict load has read of every family is the disk's.
LEMMA StrictFamiliesRead ==
  ASSUME StrictReading, stage # "settled", edits = 0,
         \A i \in DOMAIN Committed : singletons[i] # Unread
  PROVE  /\ singletons = OnDisk(Committed)
         /\ DiskCatalog = FamilyValue(Committed, singletons, CatalogKey)
         /\ \A i \in DOMAIN Committed : singletons[i] = disk[Committed[i].sourcePath]
<1>1. \A i \in DOMAIN Committed : singletons[i] = disk[Committed[i].sourcePath]
  BY DEF StrictReading
<1>2. singletons = OnDisk(Committed)
  BY <1>1 DEF StrictReading, OnDisk
<1> QED BY <1>1, <1>2 DEF DiskCatalog

\* A strict load that throws leaves only the verdict to show.
LEMMA Throws ==
  ASSUME LoadInv, StrictInv, UNCHANGED vars, NEW result, Conclude(result), result.kind # "loaded",
         edits = 0 => ~ StrictlyRight
  PROVE  StrictInv'
<1>1. /\ stage' = "settled" /\ contracts' = result
      /\ UNCHANGED <<registry, disk, edits, phase>>
  BY DEF Conclude, vars
<1>2. OnDisk(Committed)' = OnDisk(Committed)
  BY <1>1 DEF OnDisk
<1>3. DiskCatalog' = DiskCatalog
  BY <1>2 DEF DiskCatalog
<1>4. StrictlyRight' = StrictlyRight
  BY <1>1, <1>3 DEF StrictlyRight
<1>5. StrictVerdict'
  BY <1>1, <1>4 DEF StrictVerdict
<1>6. StrictReading' /\ QuietDisk'
  BY <1>1 DEF StrictInv, StrictReading, QuietDisk
<1> QED BY <1>5, <1>6 DEF StrictInv

LEMMA StepReadSingleton ==
  ASSUME LoadInv, StrictInv, UNCHANGED vars, NEW i \in DOMAIN singletons, ReadSingleton(i)
  PROVE  StrictInv'
<1>1. /\ stage = "families" /\ singletons' = [singletons EXCEPT ![i] = disk[Committed[i].sourcePath]]
      /\ UNCHANGED <<registry, disk, edits, phase, stage, schemas, asserted, contracts>>
  BY DEF ReadSingleton, vars
<1>2. singletons \in [DOMAIN Committed -> Contents \cup {Unread}]
  BY <1>1 DEF StrictInv, StrictReading
<1>3. disk[Committed[i].sourcePath] \in Contents
  BY <1>2, EveryKeyLoaded, StrictAssumption DEF LoadInv, ReadingInv
<1>4. singletons' \in [DOMAIN Committed -> Contents \cup {Unread}]
  BY <1>1, <1>2, <1>3
<1>5. edits = 0 => \A k \in DOMAIN Committed :
                     singletons'[k] \in {Unread, disk[Committed[k].sourcePath]}
  BY <1>1, <1>2 DEF StrictInv, StrictReading
<1>6. StrictReading'
  BY <1>1, <1>4, <1>5 DEF StrictInv, StrictReading
<1>7. QuietDisk' /\ StrictVerdict'
  BY <1>1 DEF StrictInv, QuietDisk, StrictVerdict
<1> QED BY <1>6, <1>7 DEF StrictInv

LEMMA StepJoinSingletons ==
  ASSUME LoadInv, StrictInv, UNCHANGED vars, JoinSingletons
  PROVE  StrictInv'
<1> DEFINE wrong    == {i \in DOMAIN Committed : ~ TypedFamily(i, singletons[i])}
           failures == Picked(Len(Committed), wrong)
<1>1. /\ stage = "families" /\ \A i \in DOMAIN Committed : singletons[i] # Unread
      /\ \/ failures # <<>> /\ Conclude(Failed(failures))
         \/ /\ failures = <<>> /\ BadRef \in FamilyValue(Committed, singletons, CatalogKey).refs
            /\ Conclude([kind |-> "badRef"])
         \/ /\ failures = <<>> /\ BadRef \notin FamilyValue(Committed, singletons, CatalogKey).refs
            /\ stage' = "bundles"
            /\ schemas' = [path \in {BundleFiles[j] : j \in DOMAIN BundleFiles} |-> Unread]
            /\ UNCHANGED <<singletons, asserted, contracts>>
  BY DEF JoinSingletons
<1>2. failures = <<>> <=> wrong = {}
  <2>1. Len(Committed) \in Nat /\ DOMAIN Committed = 1 .. Len(Committed)
    BY StrictAssumption, RegistriesAssumption
  <2>2. wrong \in SUBSET (1 .. Len(Committed))
    BY <2>1
  <2> HIDE DEF wrong
  <2> QED BY <2>1, <2>2, NothingPicked
<1>3. StrictReading
  BY DEF StrictInv
<1> HIDE DEF failures
<1>4. CASE failures # <<>> /\ Conclude(Failed(failures))
  <2>1. edits = 0 => ~ StrictlyRight
    BY <1>1, <1>2, <1>3, <1>4, StrictFamiliesRead DEF StrictlyRight
  <2>2. Failed(failures).kind # "loaded"
    BY DEF Failed
  <2> QED BY <1>4, <2>1, <2>2, Throws
<1>5. CASE BadRef \in FamilyValue(Committed, singletons, CatalogKey).refs /\ Conclude([kind |-> "badRef"])
  <2>1. edits = 0 => ~ StrictlyRight
    BY <1>1, <1>3, <1>5, StrictFamiliesRead DEF StrictlyRight
  <2>2. [kind |-> "badRef"].kind # "loaded"
    OBVIOUS
  <2> QED BY <1>5, <2>1, <2>2, Throws
<1>6. CASE /\ failures = <<>> /\ BadRef \notin FamilyValue(Committed, singletons, CatalogKey).refs
           /\ stage' = "bundles"
           /\ schemas' = [path \in {BundleFiles[j] : j \in DOMAIN BundleFiles} |-> Unread]
           /\ UNCHANGED <<singletons, asserted, contracts>>
  <2>1. BundleFiles' = BundleFiles
    BY <1>6 DEF BundleFiles
  <2>2. \A i \in DOMAIN Committed : singletons[i] # Unread /\ TypedFamily(i, singletons[i])
    BY <1>1, <1>2, <1>6
  <2>3. UNCHANGED <<registry, disk, edits, phase>>
    BY DEF vars
  <2>4. StrictReading'
    BY <1>1, <1>3, <1>6, <2>1, <2>2, <2>3 DEF StrictReading
  <2>5. QuietDisk' /\ StrictVerdict'
    BY <1>6, <2>3 DEF StrictInv, QuietDisk, StrictVerdict
  <2> QED BY <2>4, <2>5 DEF StrictInv
<1> QED BY <1>1, <1>4, <1>5, <1>6

\* Past the families: the bundle files, and what the disk makes of them.
LEMMA BundlesOfStrict ==
  ASSUME StrictReading, stage \in {"bundles", "assertions"}
  PROVE  LET catalog == FamilyValue(Committed, singletons, CatalogKey) IN
         /\ DOMAIN schemas = RequiredBundles \cup catalog.refs
         /\ {BundleFiles[j] : j \in DOMAIN BundleFiles} = DOMAIN schemas
         /\ DOMAIN schemas \in SUBSET ContractPaths
         /\ BundleFiles \in Seq(ContractPaths)
         /\ edits = 0 => /\ DiskCatalog = catalog
                         /\ singletons = OnDisk(Committed)
                         /\ BundleFiles = BundlePaths(DiskCatalog)
<1> DEFINE catalog == FamilyValue(Committed, singletons, CatalogKey)
<1>1. /\ singletons \in [DOMAIN Committed -> Contents \cup {Unread}]
      /\ \A i \in DOMAIN Committed : singletons[i] # Unread /\ TypedFamily(i, singletons[i])
      /\ BadRef \notin catalog.refs
      /\ DOMAIN schemas = {BundleFiles[j] : j \in DOMAIN BundleFiles}
  BY DEF StrictReading
<1>2. /\ {BundleFiles[j] : j \in DOMAIN BundleFiles} = RequiredBundles \cup catalog.refs
      /\ RequiredBundles \cup catalog.refs \in SUBSET ContractPaths
      /\ BundleFiles \in Seq(ContractPaths)
  BY <1>1, StrictBundles DEF BundleFiles
<1>3. edits = 0 => DiskCatalog = catalog /\ singletons = OnDisk(Committed)
  BY <1>1, StrictFamiliesRead
<1>4. edits = 0 => BundleFiles = BundlePaths(DiskCatalog)
  BY <1>3 DEF BundleFiles
<1> QED BY <1>1, <1>2, <1>3, <1>4

LEMMA StepReadSchemas ==
  ASSUME LoadInv, StrictInv, UNCHANGED vars, NEW path \in DOMAIN schemas, ReadSchemas(path)
  PROVE  StrictInv'
<1>1. /\ stage = "bundles" /\ schemas' = [schemas EXCEPT ![path] = disk[path]]
      /\ UNCHANGED <<registry, disk, edits, phase, stage, singletons, asserted, contracts>>
  BY DEF ReadSchemas, vars
<1>2. DOMAIN schemas' = DOMAIN schemas
  BY <1>1
<1>3. edits = 0 => \A p \in DOMAIN schemas : schemas'[p] \in {Unread, disk[p]}
  BY <1>1 DEF StrictInv, StrictReading
<1>4. BundleFiles' = BundleFiles
  BY <1>1 DEF BundleFiles
<1>5. StrictReading'
  BY <1>1, <1>2, <1>3, <1>4 DEF StrictInv, StrictReading
<1>6. QuietDisk' /\ StrictVerdict'
  BY <1>1 DEF StrictInv, QuietDisk, StrictVerdict
<1> QED BY <1>5, <1>6 DEF StrictInv

LEMMA StepJoinSchemas ==
  ASSUME LoadInv, StrictInv, UNCHANGED vars, JoinSchemas
  PROVE  StrictInv'
<1> DEFINE wrong    == {j \in DOMAIN BundleFiles : ~ TypedBundle(schemas[BundleFiles[j]])}
           failures == Picked(Len(BundleFiles), wrong)
<1>1. /\ stage = "bundles" /\ \A path \in DOMAIN schemas : schemas[path] # Unread
      /\ \/ failures # <<>> /\ Conclude(Failed(failures))
         \/ /\ failures = <<>> /\ stage' = "assertions"
            /\ UNCHANGED <<singletons, schemas, asserted, contracts>>
  BY DEF JoinSchemas
<1>2. /\ StrictReading
      /\ DOMAIN schemas = RequiredBundles \cup FamilyValue(Committed, singletons, CatalogKey).refs
      /\ \A j \in DOMAIN BundleFiles : BundleFiles[j] \in DOMAIN schemas
      /\ \A path \in DOMAIN schemas : \E j \in DOMAIN BundleFiles : BundleFiles[j] = path
      /\ BundleFiles \in Seq(ContractPaths)
      /\ edits = 0 => DiskCatalog = FamilyValue(Committed, singletons, CatalogKey)
  <2>1. StrictReading
    BY DEF StrictInv
  <2> QED BY <1>1, <2>1, BundlesOfStrict
<1>3. failures = <<>> <=> wrong = {}
  <2>1. Len(BundleFiles) \in Nat /\ DOMAIN BundleFiles = 1 .. Len(BundleFiles)
    BY <1>2
  <2>2. wrong \in SUBSET (1 .. Len(BundleFiles))
    BY <2>1
  <2> HIDE DEF wrong
  <2> QED BY <2>1, <2>2, NothingPicked
<1> HIDE DEF failures
<1>4. CASE failures # <<>> /\ Conclude(Failed(failures))
  <2>1. PICK j \in DOMAIN BundleFiles : ~ TypedBundle(schemas[BundleFiles[j]])
    BY <1>3, <1>4
  <2>2. edits = 0 => ~ TypedBundle(disk[BundleFiles[j]])
    BY <1>1, <1>2, <2>1 DEF StrictReading
  <2>3. edits = 0 => ~ StrictlyRight
    BY <1>2, <2>2 DEF StrictlyRight
  <2>4. Failed(failures).kind # "loaded"
    BY DEF Failed
  <2> QED BY <1>4, <2>3, <2>4, Throws
<1>5. CASE /\ failures = <<>> /\ stage' = "assertions"
           /\ UNCHANGED <<singletons, schemas, asserted, contracts>>
  <2>1. BundleFiles' = BundleFiles
    BY <1>5 DEF BundleFiles
  <2>2. \A path \in DOMAIN schemas : schemas[path] # Unread /\ TypedBundle(schemas[path])
    BY <1>1, <1>2, <1>3, <1>5
  <2>3. UNCHANGED <<registry, disk, edits, phase>>
    BY DEF vars
  <2>4. asserted = {}
    BY <1>1 DEF StrictInv, StrictReading
  <2>5. StrictReading'
    BY <1>1, <1>2, <1>5, <2>1, <2>2, <2>3, <2>4 DEF StrictReading
  <2>6. QuietDisk' /\ StrictVerdict'
    BY <1>5, <2>3 DEF StrictInv, QuietDisk, StrictVerdict
  <2> QED BY <2>5, <2>6 DEF StrictInv
<1> QED BY <1>1, <1>4, <1>5

LEMMA StepAssertKnown ==
  ASSUME LoadInv, StrictInv, UNCHANGED vars, NEW path \in ContractPaths, AssertKnown(path)
  PROVE  StrictInv'
<1>1. /\ stage = "assertions" /\ path \in AssertionFiles
      /\ UNCHANGED <<registry, disk, edits, phase>>
  BY DEF AssertKnown, vars
<1>2. CASE /\ AssertionHolds(path, disk[path]) /\ asserted' = asserted \cup {path}
           /\ UNCHANGED <<stage, singletons, schemas, contracts>>
  <2>1. BundleFiles' = BundleFiles
    BY <1>2 DEF BundleFiles
  <2>2. StrictReading'
    BY <1>1, <1>2, <2>1 DEF StrictInv, StrictReading
  <2>3. QuietDisk' /\ StrictVerdict'
    BY <1>1, <1>2 DEF StrictInv, QuietDisk, StrictVerdict
  <2> QED BY <2>2, <2>3 DEF StrictInv
<1>3. CASE ~ AssertionHolds(path, disk[path]) /\ Conclude([kind |-> "rejected"])
  <2>1. edits = 0 => AssertionFiles = Asserted \cup RequiredBundles \cup DiskCatalog.refs
    BY <1>1, BundlesOfStrict DEF StrictInv, AssertionFiles
  <2>2. edits = 0 => ~ StrictlyRight
    BY <1>1, <1>3, <2>1 DEF StrictlyRight
  <2>3. [kind |-> "rejected"].kind # "loaded"
    OBVIOUS
  <2> QED BY <1>3, <2>2, <2>3, Throws
<1> QED BY <1>2, <1>3 DEF AssertKnown

LEMMA StepJoinAssertions ==
  ASSUME LoadInv, StrictInv, UNCHANGED vars, JoinAssertions
  PROVE  StrictInv'
<1> DEFINE read   == [j \in DOMAIN BundleFiles |-> schemas[BundleFiles[j]]]
           result == Loaded(Committed, singletons, BundleFiles, read)
<1>1. /\ stage = "assertions" /\ asserted = AssertionFiles
      /\ stage' = "settled" /\ contracts' = result
      /\ UNCHANGED <<registry, disk, edits, phase>>
  BY DEF JoinAssertions, Conclude, vars
<1>2. StrictReading' /\ QuietDisk'
  BY <1>1 DEF StrictInv, StrictReading, QuietDisk
<1>3. ASSUME edits = 0 PROVE StrictlyRight /\ result = DiskContracts /\ result.kind = "loaded"
  <2>1. /\ StrictReading
        /\ DiskCatalog = FamilyValue(Committed, singletons, CatalogKey)
        /\ DOMAIN schemas = RequiredBundles \cup DiskCatalog.refs
        /\ {BundleFiles[j] : j \in DOMAIN BundleFiles} = DOMAIN schemas
        /\ singletons = OnDisk(Committed)
        /\ BundleFiles = BundlePaths(DiskCatalog)
    BY <1>1, <1>3, BundlesOfStrict DEF StrictInv
  <2>2. \A i \in DOMAIN Committed : TypedFamily(i, disk[Committed[i].sourcePath])
    BY <1>1, <2>1 DEF StrictReading, OnDisk
  <2>3. \A path \in DOMAIN schemas : schemas[path] = disk[path] /\ TypedBundle(disk[path])
    BY <1>1, <1>3, <2>1 DEF StrictReading
  <2>4. \A path \in Asserted \cup RequiredBundles \cup DiskCatalog.refs : AssertionHolds(path, disk[path])
    BY <1>1, <1>3, <2>1 DEF StrictReading, AssertionFiles
  <2>5. BadRef \notin DiskCatalog.refs
    BY <1>1, <2>1 DEF StrictReading
  <2>6. StrictlyRight
    BY <2>1, <2>2, <2>3, <2>4, <2>5 DEF StrictlyRight
  <2>7. read = BundlesOnDisk(BundleFiles)
    BY <2>1, <2>3 DEF BundlesOnDisk
  <2>8. result = DiskContracts
    BY <2>1, <2>7 DEF DiskContracts
  <2>9. result.kind = "loaded"
    BY DEF Loaded
  <2> QED BY <2>6, <2>8, <2>9
<1> HIDE DEF result
<1>4. OnDisk(Committed)' = OnDisk(Committed)
  BY <1>1 DEF OnDisk
<1>5. DiskCatalog' = DiskCatalog
  BY <1>4 DEF DiskCatalog
<1>6. BundlesOnDisk(BundlePaths(DiskCatalog))' = BundlesOnDisk(BundlePaths(DiskCatalog))
  BY <1>1, <1>5 DEF BundlesOnDisk
<1>7. DiskContracts' = DiskContracts
  BY <1>4, <1>5, <1>6 DEF DiskContracts
<1>8. StrictlyRight' = StrictlyRight
  BY <1>1, <1>5 DEF StrictlyRight
<1>9. StrictVerdict'
  BY <1>1, <1>3, <1>7, <1>8 DEF StrictVerdict
<1> QED BY <1>2, <1>9 DEF StrictInv

LEMMA StepStrict ==
  ASSUME LoadInv, StrictInv, [BothNext]_<<vars, strictVars>>
  PROVE  StrictInv'
<1>1. CASE FirstLoad
  <2>1. StrictLoad /\ UNCHANGED vars
    BY <1>1 DEF FirstLoad
  <2> QED BY <2>1, StepReadSingleton, StepJoinSingletons, StepReadSchemas, StepJoinSchemas,
             StepAssertKnown, StepJoinAssertions DEF StrictLoad
<1>2. CASE SecondLoad
  <2>1. UNCHANGED <<registry, disk, edits>>
    BY <1>2 DEF SecondLoad, Load, Validate, JoinFamilies, JoinBundles, ReadFamily, ReadBundle
  <2> QED BY <1>2, <2>1, StrictUnmoved DEF SecondLoad, strictVars
<1>3. ASSUME NEW path \in ContractPaths, NEW content \in Contents,
             Edit(path, content), UNCHANGED strictVars
      PROVE  StrictInv'
  BY <1>3, StrictEdited
<1>4. CASE UNCHANGED <<vars, strictVars>>
  BY <1>4, StrictUnmoved DEF vars, strictVars
<1> QED BY <1>1, <1>2, <1>3, <1>4 DEF BothNext

LEMMA BothInvariant == BothSpec => [](LoadInv /\ StrictInv)
<1>1. StrictInit => Init /\ StrictInv
  <2> SUFFICES ASSUME StrictInit PROVE Init /\ StrictInv
    OBVIOUS
  <2>1. /\ Init /\ \A path \in ContractPaths : Possible(path, disk[path])
        /\ stage = IF registry = Committed THEN "families" ELSE "settled"
        /\ singletons = [i \in DOMAIN Committed |-> Unread]
        /\ asserted = {} /\ contracts = Pending
    BY DEF StrictInit
  <2>2. StrictReading
    BY <2>1 DEF StrictReading, Init
  <2> QED BY <2>1, <2>2 DEF StrictInv, QuietDisk, StrictVerdict
<1>2. [BothNext]_<<vars, strictVars>> => [Next]_vars
  BY DEF BothNext, FirstLoad, SecondLoad, Next, vars, strictVars
<1>3. LoadInv /\ StrictInv /\ [BothNext]_<<vars, strictVars>> => StrictInv'
  BY StepStrict
<1> QED BY <1>1, <1>2, <1>3, LoadInvariant, PTL DEF BothSpec

\* tests/api-contract-family-registry.test.ts:108 and :62 for every committed registry
\* and every tree nobody edits meanwhile: the registry's loader accepts what the strict
\* one accepts unless a link leads out of the root, and both return the same contracts.
THEOREM LoadersAgreed == BothSpec => []LoadersAgree
<1>1. LoadInv /\ StrictInv => LoadersAgree
  <2> SUFFICES ASSUME LoadInv, StrictInv, phase = "settled", edits = 0, registry = Committed
               PROVE  /\ outcome.kind = "loaded" <=> (contracts.kind = "loaded" /\ StaysInside(contracts))
                      /\ outcome.kind = "loaded" => outcome = contracts
    BY DEF LoadersAgree
  <2>1. stage = "settled"
    BY DEF StrictInv, StrictReading
  <2>2. /\ contracts.kind = "loaded" <=> StrictlyRight
        /\ contracts.kind = "loaded" => contracts = DiskContracts
    BY <2>1 DEF StrictInv, StrictVerdict
  <2>3. Right <=> StrictlyRight /\ DiskInside
    BY SameDemands DEF LoadInv, ReadingInv, StrictInv, QuietDisk
  <2>6. StrictlyRight => (StaysInside(DiskContracts) <=> DiskInside)
    BY ContractsInside DEF LoadInv, ReadingInv
  <2>4. outcome.kind = "loaded" => outcome = DiskContracts
    BY DEF LoadInv, OutcomeInv, ReturnsTheDisk, DiskContracts, DiskCatalog
  <2>5. outcome.kind = "loaded" <=> Right
    <3>1. /\ Committed \in Registries /\ RegistryValid(Committed)
          /\ \A i \in DOMAIN Committed : OnDisk(Committed)[i] = disk[Committed[i].sourcePath]
      BY StrictAssumption DEF OnDisk
    <3>2. UNION {disk[Committed[i].sourcePath].refs : i \in {i \in DOMAIN Committed : Committed[i].key = CatalogKey}}
            = DiskCatalog.refs
      BY <3>1, QuietCatalog DEF DiskCatalog
    <3>3. QuietLoadIsAtomic
      BY DEF LoadInv, OutcomeInv
    <3> QED BY <3>1, <3>2, <3>3 DEF QuietLoadIsAtomic, Right
  <2>7. outcome.kind = "loaded" <=> (contracts.kind = "loaded" /\ StaysInside(contracts))
    BY <2>2, <2>3, <2>5, <2>6
  <2>8. outcome.kind = "loaded" => outcome = contracts
    BY <2>2, <2>3, <2>4, <2>5
  <2> QED BY <2>7, <2>8
<1> QED BY <1>1, BothInvariant, PTL
=============================================================================
