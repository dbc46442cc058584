------------------------- MODULE OpenApiBuildProofs -------------------------
(***************************************************************************)
(* The build never throws, its components hang together and no response    *)
(* shows what is secret in its request, for any catalog and files, any     *)
(* order of the readings and any edits between them.                       *)
(*                                                                         *)
(* The invariant carries what each phase has established to the moment the *)
(* document is built: the validators' verdict on the first reading, the    *)
(* typed parser's verdict on the second one against the first.             *)
(***************************************************************************)
EXTENDS FamilyContracts, TLAPS

\* From the validators on, the first reading is complete and valid.
Checked ==
  phase \in {"typed", "manifest"} =>
    /\ catalog # Unreadable
    /\ \A f \in DOMAIN first : first[f] \in Contents[f] \ {Unreadable}
    /\ ContractsValid(catalog, first)
    /\ DOMAIN second = DOMAIN first

\* Before that, the second one has not begun.
Unstarted ==
  /\ phase \in {"catalog", "bundles"} => second = <<>>
  /\ phase = "bundles" => catalog # Unreadable

\* From the join on, the second one agrees with it.
Joined ==
  phase = "manifest" => \A f \in DOMAIN first : TypedOk(first[f], second[f])

\* What a document was built from; Edit is all that could still happen, and the
\* build does not look at the files any more.
Sourced ==
  Built =>
    /\ phase = "settled"
    /\ catalog # Unreadable
    /\ \A f \in DOMAIN first : first[f] \in Contents[f] \ {Unreadable}
    /\ ContractsValid(catalog, first)
    /\ DOMAIN second = DOMAIN first
    /\ \A f \in DOMAIN first : TypedOk(first[f], second[f])
    /\ ~ NamesConflict(first)
    /\ outcome.document = Document(catalog, options.restricted, first, second)

IInv == TypeOK /\ Unstarted /\ Checked /\ Joined /\ Sourced /\ NeverThrows

USE DEF Files

\* The files a readable catalog asks for are files of the model.
LEMMA BundleFilesExist ==
  ASSUME NEW routes \in Catalogs \ {Unreadable}
  PROVE  BundleFiles(routes) \subseteq Files
BY ContentsAssumption, CatalogsAssumption DEF BundleFiles

\* What a valid route refers to is there.
LEMMA ValidRefsExist ==
  ASSUME NEW routes \in Catalogs \ {Unreadable}, NEW bundles,
         ContractsValid(routes, bundles), NEW n \in DOMAIN routes
  PROVE  /\ routes[n].request \in Refs(bundles)
         /\ routes[n].response \in Refs(bundles) \cup {None}
<1>1. /\ routes[n].request \in Files \X STRING
      /\ routes[n].response \in (Files \X STRING) \cup {None}
  BY CatalogsAssumption
<1>2. RouteValid(routes[n], bundles)
  BY DEF ContractsValid
<1>3. Resolves(bundles, routes[n].request)
  BY <1>2 DEF RouteValid, SchemaRefValid
<1>4. routes[n].response # None => Resolves(bundles, routes[n].response)
  BY <1>2 DEF RouteValid, SchemaRefValid
<1>5. ASSUME NEW ref \in Files \X STRING, Resolves(bundles, ref)
      PROVE  ref \in Refs(bundles)
  <2>1. ref \in {ref[1]} \X Ids(bundles[ref[1]])
    BY <1>5 DEF Resolves
  <2> QED BY <2>1, <1>5 DEF Refs, Resolves
<1> QED BY <1>1, <1>3, <1>4, <1>5

\* So requireContext finds it.
LEMMA ValidNeverMisses ==
  ASSUME NEW routes \in Catalogs \ {Unreadable}, NEW bundles, NEW restricted,
         ContractsValid(routes, bundles)
  PROVE  ~ MissesContext(routes, Exported(routes, restricted), bundles)
BY ValidRefsExist DEF MissesContext, Exported

LEMMA InitHolds == Init => IInv
<1> SUFFICES ASSUME Init PROVE IInv
  OBVIOUS
<1>1. TypeOK
  BY ContentsAssumption DEF Init, TypeOK, Pending
<1>2. Unstarted /\ Checked /\ Joined /\ Sourced /\ NeverThrows
  BY DEF Init, Unstarted, Checked, Joined, Sourced, Built, NeverThrows, Pending
<1> QED BY <1>1, <1>2 DEF IInv

\* A build that returns here or fails leaves nothing to establish.
LEMMA Returns ==
  ASSUME IInv, NEW kind, kind \notin {"pending", "threw", "document"},
         phase # "settled", phase' = "settled", outcome' = [kind |-> kind],
         UNCHANGED <<options, disk, catalog, first, second, edits>>
  PROVE  IInv'
BY DEF IInv, TypeOK, Unstarted, Checked, Joined, Sourced, Built, NeverThrows, Pending

LEMMA ReadCatalogKeeps == IInv /\ ReadCatalog => IInv'
<1> SUFFICES ASSUME IInv, ReadCatalog PROVE IInv'
  OBVIOUS
<1>1. CASE catalog = Unreadable
  <2>1. /\ phase # "settled"
        /\ phase' = "settled" /\ outcome' = [kind |-> "load failed"]
        /\ UNCHANGED <<options, disk, catalog, first, second, edits>>
    BY <1>1 DEF ReadCatalog, Settle
  <2>2. "load failed" \notin {"pending", "threw", "document"}
    OBVIOUS
  <2> QED BY <2>1, <2>2, Returns
<1>2. CASE catalog # Unreadable
  <2>1. BundleFiles(catalog) \subseteq Files
    BY <1>2, BundleFilesExist DEF IInv, TypeOK
  <2>2. TypeOK'
    BY <1>2, <2>1 DEF ReadCatalog, IInv, TypeOK, Unstarted
  <2>3. (Unstarted /\ Checked /\ Joined /\ Sourced /\ NeverThrows)'
    BY <1>2 DEF ReadCatalog, IInv, Unstarted, Checked, Joined, Sourced, Built, NeverThrows
  <2> QED BY <2>2, <2>3 DEF IInv
<1> QED BY <1>1, <1>2

LEMMA ReadBundleKeeps ==
  ASSUME IInv, NEW f \in DOMAIN first, ReadBundle(f)
  PROVE  IInv'
<1>1. TypeOK'
  <2>1. disk[f] \in Contents[f]
    BY DEF IInv, TypeOK
  <2> QED BY <2>1 DEF ReadBundle, IInv, TypeOK, Unstarted
<1>2. (Unstarted /\ Checked /\ Joined /\ Sourced /\ NeverThrows)'
  BY DEF ReadBundle, IInv, Unstarted, Checked, Joined, Sourced, Built, NeverThrows
<1> QED BY <1>1, <1>2 DEF IInv

LEMMA ValidateKeeps == IInv /\ Validate => IInv'
<1> SUFFICES ASSUME IInv, Validate PROVE IInv'
  OBVIOUS
<1> DEFINE unread == \E f \in DOMAIN first : ~ BundleParses(first[f])
<1>1. CASE unread
  <2>1. /\ phase # "settled"
        /\ phase' = "settled" /\ outcome' = [kind |-> "load failed"]
        /\ UNCHANGED <<options, disk, catalog, first, second, edits>>
    BY <1>1 DEF Validate, Settle
  <2>2. "load failed" \notin {"pending", "threw", "document"}
    OBVIOUS
  <2> QED BY <2>1, <2>2, Returns
<1>2. CASE ~ unread /\ ~ ContractsValid(catalog, first)
  <2>1. /\ phase # "settled"
        /\ phase' = "settled" /\ outcome' = [kind |-> "invalid"]
        /\ UNCHANGED <<options, disk, catalog, first, second, edits>>
    BY <1>2 DEF Validate, Settle
  <2>2. "invalid" \notin {"pending", "threw", "document"}
    OBVIOUS
  <2> QED BY <2>1, <2>2, Returns
<1>3. CASE ~ unread /\ ContractsValid(catalog, first)
  <2>1. /\ phase = "bundles" /\ phase' = "typed"
        /\ second' = [f \in DOMAIN first |-> Unread]
        /\ \A f \in DOMAIN first : first[f] # Unread /\ first[f] # Unreadable
        /\ UNCHANGED <<options, disk, catalog, first, outcome, edits>>
    BY <1>3 DEF Validate, BundleParses
  <2>2. TypeOK'
    BY <2>1 DEF IInv, TypeOK
  <2>3. Checked'
    BY <1>3, <2>1 DEF IInv, TypeOK, Unstarted, Checked
  <2>4. (Unstarted /\ Joined /\ Sourced /\ NeverThrows)'
    BY <2>1 DEF IInv, Unstarted, Joined, Sourced, Built, NeverThrows
  <2> QED BY <2>2, <2>3, <2>4 DEF IInv
<1> QED BY <1>1, <1>2, <1>3

LEMMA ReadTypedKeeps ==
  ASSUME IInv, NEW f \in DOMAIN second, ReadTyped(f)
  PROVE  IInv'
<1>1. DOMAIN second = DOMAIN first /\ f \in Files
  BY DEF ReadTyped, IInv, TypeOK, Checked
<1>2. TypeOK'
  <2>1. disk[f] \in Contents[f]
    BY <1>1 DEF IInv, TypeOK
  <2> QED BY <1>1, <2>1 DEF ReadTyped, IInv, TypeOK
<1>3. Checked'
  BY <1>1 DEF ReadTyped, IInv, Checked
<1>4. (Unstarted /\ Joined /\ Sourced /\ NeverThrows)'
  BY DEF ReadTyped, IInv, Unstarted, Joined, Sourced, Built, NeverThrows
<1> QED BY <1>2, <1>3, <1>4 DEF IInv

LEMMA JoinTypedKeeps == IInv /\ JoinTyped => IInv'
<1> SUFFICES ASSUME IInv, JoinTyped PROVE IInv'
  OBVIOUS
<1> DEFINE wrong == \E f \in DOMAIN second : ~ TypedOk(first[f], second[f])
           untyped == options.strict /\ \E ref \in Refs(first) : ~ IsTyped(second, ref)
<1>1. CASE wrong
  <2>1. /\ phase # "settled"
        /\ phase' = "settled" /\ outcome' = [kind |-> "typed invalid"]
        /\ UNCHANGED <<options, disk, catalog, first, second, edits>>
    BY <1>1 DEF JoinTyped, Settle
  <2>2. "typed invalid" \notin {"pending", "threw", "document"}
    OBVIOUS
  <2> QED BY <2>1, <2>2, Returns
<1>2. CASE ~ wrong /\ untyped
  <2>1. /\ phase # "settled"
        /\ phase' = "settled" /\ outcome' = [kind |-> "untyped"]
        /\ UNCHANGED <<options, disk, catalog, first, second, edits>>
    BY <1>2 DEF JoinTyped, Settle
  <2>2. "untyped" \notin {"pending", "threw", "document"}
    OBVIOUS
  <2> QED BY <2>1, <2>2, Returns
<1>3. CASE ~ wrong /\ ~ untyped
  <2>1. /\ phase = "typed" /\ phase' = "manifest"
        /\ UNCHANGED <<options, disk, catalog, first, second, outcome, edits>>
    BY <1>3 DEF JoinTyped
  <2>2. Joined'
    BY <1>3, <2>1 DEF IInv, Checked, Joined
  <2>3. TypeOK'
    BY <2>1 DEF IInv, TypeOK
  <2>4. (Unstarted /\ Checked /\ Sourced /\ NeverThrows)'
    BY <2>1 DEF IInv, Unstarted, Checked, Sourced, Built, NeverThrows
  <2> QED BY <2>2, <2>3, <2>4 DEF IInv
<1> QED BY <1>1, <1>2, <1>3

LEMMA BuildKeeps == IInv /\ Build => IInv'
<1> SUFFICES ASSUME IInv, Build PROVE IInv'
  OBVIOUS
<1>1. /\ phase = "manifest" /\ phase' = "settled"
      /\ UNCHANGED <<options, disk, catalog, first, second, edits>>
  BY DEF Build, Settle
<1>2. ~ MissesContext(catalog, Exported(catalog, options.restricted), first)
  BY <1>1, ValidNeverMisses DEF IInv, TypeOK, Checked
<1>3. CASE outcome' = [kind |-> "manifest invalid"]
  <2>1. "manifest invalid" \notin {"pending", "threw", "document"}
    OBVIOUS
  <2> QED BY <1>1, <1>3, <2>1, Returns
<1>4. CASE outcome' = [kind |-> "names conflict"]
  <2>1. "names conflict" \notin {"pending", "threw", "document"}
    OBVIOUS
  <2> QED BY <1>1, <1>4, <2>1, Returns
<1>5. CASE /\ ~ NamesConflict(first)
           /\ outcome' = [kind |-> "document",
                          document |-> Document(catalog, options.restricted, first, second)]
  <2>1. outcome'.kind = "document"
    BY <1>5
  <2>2. outcome'.document = Document(catalog, options.restricted, first, second)
    BY <1>5
  <2>3. TypeOK'
    <3>1. outcome' # Pending
      BY <2>1 DEF Pending
    <3> QED BY <1>1, <3>1 DEF IInv, TypeOK
  <2>4. Sourced'
    <3>1. UNCHANGED NamesConflict(first) /\ UNCHANGED ContractsValid(catalog, first)
      BY <1>1 DEF NamesConflict, ContractsValid
    <3> QED BY <1>1, <1>5, <2>2 DEF IInv, Checked, Joined, Sourced
  <2>5. (Unstarted /\ Checked /\ Joined /\ NeverThrows)'
    BY <1>1, <2>1 DEF Unstarted, Checked, Joined, NeverThrows
  <2> QED BY <2>3, <2>4, <2>5 DEF IInv
<1> QED BY <1>1, <1>2, <1>3, <1>4, <1>5 DEF Build, Settle

LEMMA EditKeeps ==
  ASSUME IInv, NEW f \in Files, NEW content \in Contents[f], Edit(f, content)
  PROVE  IInv'
<1>1. TypeOK'
  BY ContentsAssumption DEF Edit, IInv, TypeOK
<1>2. (Unstarted /\ Checked /\ Joined /\ Sourced /\ NeverThrows)'
  BY DEF Edit, IInv, Unstarted, Checked, Joined, Sourced, Built, NeverThrows
<1> QED BY <1>1, <1>2 DEF IInv

LEMMA StepKeeps == IInv /\ [Next]_vars => IInv'
<1> SUFFICES ASSUME IInv, [Next]_vars PROVE IInv'
  OBVIOUS
<1>1. CASE ReadCatalog
  BY <1>1, ReadCatalogKeeps
<1>2. CASE Validate
  BY <1>2, ValidateKeeps
<1>3. CASE JoinTyped
  BY <1>3, JoinTypedKeeps
<1>4. CASE Build
  BY <1>4, BuildKeeps
<1>5. CASE \E f \in DOMAIN first : ReadBundle(f)
  BY <1>5, ReadBundleKeeps
<1>6. CASE \E f \in DOMAIN second : ReadTyped(f)
  BY <1>6, ReadTypedKeeps
<1>7. CASE \E f \in Files : \E content \in Contents[f] : Edit(f, content)
  BY <1>7, EditKeeps
<1>8. CASE UNCHANGED vars
  BY <1>8 DEF vars, IInv, TypeOK, Unstarted, Checked, Joined, Sourced, Built, NeverThrows
<1> QED BY <1>1, <1>2, <1>3, <1>4, <1>5, <1>6, <1>7, <1>8 DEF Next

LEMMA Inductive == Spec => []IInv
<1>1. IInv /\ [Next]_vars => IInv'
  BY StepKeeps
<1> QED BY <1>1, InitHolds, PTL DEF Spec

\* The types of the build's state.
THEOREM TypeCorrect == Spec => []TypeOK
<1>1. IInv => TypeOK
  BY DEF IInv
<1> QED BY <1>1, Inductive, PTL

\* openapi.ts:602-611: requireContext never throws; a validated catalog is built or
\* refused, whatever is edited meanwhile.
THEOREM BuildReturns == Spec => []NeverThrows
<1>1. IInv => NeverThrows
  BY DEF IInv
<1> QED BY <1>1, Inductive, PTL

-----------------------------------------------------------------------------
(* What is true of a document that was built *)

\* What the invariant says of the readings, in terms of constants.
Accepted(bundles) ==
  \A f \in DOMAIN bundles :
    /\ LET schemas == bundles[f].schemas IN schemas \in Seq({schemas[n] : n \in DOMAIN schemas})
    /\ BundleValid(bundles[f])

Agreed(bundles, contents) ==
  /\ Accepted(bundles)
  /\ \A f \in DOMAIN bundles : TypedOk(bundles[f], contents[f])

\* find() finds the schema: ids are unique in a valid bundle.
LEMMA SchemaFound ==
  ASSUME NEW bundles, Accepted(bundles), NEW ref \in Refs(bundles)
  PROVE  /\ ref[1] \in DOMAIN bundles
         /\ \E n \in DOMAIN bundles[ref[1]].schemas :
              /\ SchemaAt(bundles, ref) = bundles[ref[1]].schemas[n]
              /\ SchemaAt(bundles, ref).id = ref[2]
<1>1. ref[1] \in DOMAIN bundles /\ ref[2] \in Ids(bundles[ref[1]])
  BY DEF Refs
<1> DEFINE schemas == bundles[ref[1]].schemas
           Found(n) == schemas[n].id = ref[2] /\ \A m \in 1 .. n - 1 : schemas[m].id # ref[2]
<1>2. DOMAIN schemas = 1 .. Len(schemas) /\ Len(schemas) \in Nat
  <2>1. schemas \in Seq({schemas[n] : n \in DOMAIN schemas})
    BY <1>1 DEF Accepted
  <2> QED BY <2>1
<1>3. PICK n \in DOMAIN schemas : schemas[n].id = ref[2]
  BY <1>1 DEF Ids
<1>4. \A m \in DOMAIN schemas : schemas[m].id = ref[2] => m = n
  <2>1. BundleValid(bundles[ref[1]])
    BY <1>1 DEF Accepted
  <2> QED BY <1>3, <2>1 DEF BundleValid
<1>5. Found(n)
  BY <1>2, <1>3, <1>4
<1>6. \A m \in DOMAIN schemas : Found(m) => m = n
  BY <1>4
<1>7. (CHOOSE m \in DOMAIN schemas : Found(m)) = n
  BY <1>3, <1>5, <1>6
<1>8. SchemaAt(bundles, ref) = schemas[n]
  BY <1>7 DEF SchemaAt, SchemaById
<1> QED BY <1>1, <1>3, <1>8

LEMMA SchemaChecked ==
  ASSUME NEW bundles, NEW contents, Agreed(bundles, contents), NEW ref \in Refs(bundles)
  PROVE  /\ SchemaValid(SchemaAt(bundles, ref))
         /\ TypedFields(bundles, contents, ref) = Fields(SchemaAt(bundles, ref))
<1>1. PICK n \in DOMAIN bundles[ref[1]].schemas :
        /\ SchemaAt(bundles, ref) = bundles[ref[1]].schemas[n]
        /\ SchemaAt(bundles, ref).id = ref[2]
  BY SchemaFound DEF Agreed
<1>2. ref[1] \in DOMAIN bundles
  BY SchemaFound DEF Agreed
<1>3. SchemaValid(SchemaAt(bundles, ref))
  <2>1. BundleValid(bundles[ref[1]])
    BY <1>2 DEF Agreed, Accepted
  <2> QED BY <1>1, <2>1 DEF BundleValid
<1>4. SchemaAt(contents, ref).properties # None
        => FieldListsAgree(SchemaAt(bundles, ref), SchemaAt(contents, ref))
  <2>1. TypedOk(bundles[ref[1]], contents[ref[1]])
    BY <1>2 DEF Agreed
  <2> QED BY <1>1, <2>1 DEF TypedOk, SchemaAt
<1> QED BY <1>3, <1>4 DEF TypedFields, IsTyped, FieldListsAgree

\* Secrets are required fields, so no secret of a component is lost.
LEMMA SecretsAreFields ==
  ASSUME NEW bundles, NEW contents, Agreed(bundles, contents), NEW ref \in Refs(bundles)
  PROVE  LET schema == SchemaAt(bundles, ref) IN
         /\ Component(bundles, contents, ref).hidden = schema.secretFields
         /\ Component(bundles, contents, ref).properties = Fields(schema)
         /\ schema.secretFields # {} => schema.carriesSecret
<1>1. SchemaAt(bundles, ref).secretFields \subseteq Fields(SchemaAt(bundles, ref))
  BY SchemaChecked DEF SchemaValid, Fields
<1> QED BY <1>1, SchemaChecked DEF Component, SchemaValid

\* A reference by name leads to the schema ref it was made from.
LEMMA NameStands ==
  ASSUME NEW bundles, NEW contents, ~ NamesConflict(bundles), NEW ref \in Refs(bundles)
  PROVE  /\ ref[2] \in DOMAIN Components(bundles, contents)
         /\ Components(bundles, contents)[ref[2]] = Component(bundles, contents, ref)
<1>1. (CHOOSE other \in Refs(bundles) : other[2] = ref[2]) = ref
  BY DEF NamesConflict
<1> QED BY <1>1 DEF Components

\* A place has one route.
LEMMA PlaceStands ==
  ASSUME NEW routes, NEW bundles, ContractsValid(routes, bundles),
         NEW exported \in SUBSET DOMAIN routes, NEW n \in exported
  PROVE  /\ Place(routes[n]) \in DOMAIN Paths(routes, exported, bundles)
         /\ Paths(routes, exported, bundles)[Place(routes[n])] = Operation(routes[n], bundles)
<1>1. ASSUME NEW m \in exported, Place(routes[m]) = Place(routes[n])
      PROVE  m = n
  <2>1. routes[m].method \in AllowedMethods /\ routes[n].method \in AllowedMethods
    BY DEF ContractsValid, RouteValid
  <2>2. Path(routes[m]) = Path(routes[n]) /\ routes[m].method = routes[n].method
    BY <1>1, <2>1, MethodsAssumption DEF Place
  <2> QED BY <2>2 DEF ContractsValid, UniqueRouteKeys
<1>2. (CHOOSE m \in exported : Place(routes[m]) = Place(routes[n])) = n
  BY <1>1
<1> QED BY <1>2 DEF Paths

\* What the invariant says of the first reading once it has been validated, and
\* of both when the document is built.
LEMMA FirstAccepted ==
  ASSUME IInv, Validated
  PROVE  ContractsValid(catalog, first) /\ Accepted(first)
<1>1. /\ ContractsValid(catalog, first)
      /\ \A f \in DOMAIN first : f \in Files /\ first[f] \in Contents[f] \ {Unreadable}
  BY DEF IInv, TypeOK, Checked, Sourced, Validated
<1>2. \A f \in DOMAIN first : BundleValid(first[f])
  BY <1>1 DEF ContractsValid
<1>3. ASSUME NEW f \in DOMAIN first
      PROVE  LET schemas == first[f].schemas IN schemas \in Seq({schemas[n] : n \in DOMAIN schemas})
  BY <1>1, ContentsAssumption
<1> QED BY <1>1, <1>2, <1>3 DEF Accepted

LEMMA ReadingsAgree ==
  ASSUME IInv, Built
  PROVE  Agreed(first, second)
BY FirstAccepted DEF IInv, Sourced, Agreed, Validated

\* What a built document says of an exported route.
LEMMA RouteFacts ==
  ASSUME IInv, Built, NEW n \in Chosen
  PROVE  /\ Agreed(first, second)
         /\ ~ NamesConflict(first)
         /\ outcome.document = Document(catalog, options.restricted, first, second)
         /\ RouteValid(catalog[n], first) /\ ~ HeadersCollide(catalog[n], first)
         /\ catalog[n].request \in Refs(first)
         /\ catalog[n].response \in Refs(first) \cup {None}
         /\ outcome.document.paths[Place(catalog[n])] = Operation(catalog[n], first)
<1>1. /\ catalog \in Catalogs \ {Unreadable} /\ ContractsValid(catalog, first)
      /\ n \in DOMAIN catalog
  BY DEF IInv, TypeOK, Sourced, Chosen, Exported
<1>2. Agreed(first, second)
  BY ReadingsAgree
<1>3. /\ catalog[n].request \in Refs(first)
      /\ catalog[n].response \in Refs(first) \cup {None}
  BY <1>1, ValidRefsExist
<1>4. outcome.document.paths[Place(catalog[n])] = Operation(catalog[n], first)
  <2>1. outcome.document.paths = Paths(catalog, Chosen, first)
    BY DEF IInv, Sourced, Document, Chosen
  <2>2. Chosen \in SUBSET DOMAIN catalog
    BY DEF Chosen, Exported
  <2> QED BY <1>1, <2>1, <2>2, PlaceStands
<1> QED BY <1>1, <1>2, <1>3, <1>4 DEF IInv, Sourced, ContractsValid

\* openapi.ts:423-449: every exported route keeps its own place.
THEOREM RoutesKeepPlaces == Spec => []EveryRouteHasItsPlace
<1>1. IInv => EveryRouteHasItsPlace
  <2> SUFFICES ASSUME IInv, Built PROVE EveryRouteHasItsPlace
    BY DEF EveryRouteHasItsPlace
  <2>1. outcome.document.paths = Paths(catalog, Chosen, first)
    BY DEF IInv, Sourced, Document, Chosen
  <2>2. DOMAIN outcome.document.paths = {Place(catalog[n]) : n \in Chosen}
    BY <2>1 DEF Paths
  <2>3. ASSUME NEW n \in Chosen
        PROVE  outcome.document.paths[Place(catalog[n])].operationId = catalog[n].operationId
    <3>1. outcome.document.paths[Place(catalog[n])] = Operation(catalog[n], first)
      BY RouteFacts
    <3> QED BY <3>1 DEF Operation
  <2> QED BY <2>2, <2>3 DEF EveryRouteHasItsPlace
<1> QED BY <1>1, Inductive, PTL

\* openapi.ts:600-615: references lead to the schemas the routes named.
THEOREM ReferencesStand == Spec => []ReferencesResolve
<1>1. IInv => ReferencesResolve
  <2> SUFFICES ASSUME IInv, Built, NEW n \in Chosen
               PROVE  LET operation == outcome.document.paths[Place(catalog[n])] IN
                      /\ operation.body # None =>
                           StandsFor(outcome.document, operation.body, catalog[n].request, "request")
                      /\ \A status \in DOMAIN operation.responses :
                           operation.responses[status] # None =>
                             StandsFor(outcome.document, operation.responses[status],
                                       catalog[n].response, "response")
    BY DEF ReferencesResolve
  <2> DEFINE document == outcome.document
             operation == document.paths[Place(catalog[n])]
  <2>1. operation = Operation(catalog[n], first)
    BY RouteFacts
  <2>2. ASSUME NEW ref \in Refs(first), NEW kind, SchemaAt(first, ref).kind = kind
        PROVE  StandsFor(document, ref[2], ref, kind)
    <3>1. document.components = Components(first, second)
      BY RouteFacts DEF Document
    <3>2. ~ NamesConflict(first)
      BY RouteFacts
    <3>3. /\ ref[2] \in DOMAIN Components(first, second)
          /\ Components(first, second)[ref[2]] = Component(first, second, ref)
      BY <3>2, NameStands
    <3>4. Component(first, second, ref).ref = ref /\ Component(first, second, ref).kind = kind
      BY <2>2 DEF Component
    <3> QED BY <3>1, <3>3, <3>4 DEF StandsFor
  <2>3. operation.body # None => StandsFor(document, operation.body, catalog[n].request, "request")
    <3>1. SchemaAt(first, catalog[n].request).kind = "request"
      BY RouteFacts DEF RouteValid, SchemaRefValid
    <3>2. operation.body # None => operation.body = catalog[n].request[2]
      BY <2>1 DEF Operation
    <3>3. catalog[n].request \in Refs(first)
      BY RouteFacts
    <3> QED BY <2>2, <3>1, <3>2, <3>3
  <2>4. ASSUME NEW status \in DOMAIN operation.responses, operation.responses[status] # None
        PROVE  StandsFor(document, operation.responses[status], catalog[n].response, "response")
    <3>1. /\ catalog[n].response # None
          /\ operation.responses[status] = catalog[n].response[2]
      BY <2>1, <2>4 DEF Operation
    <3>2. SchemaAt(first, catalog[n].response).kind = "response"
      BY <3>1, RouteFacts DEF RouteValid, SchemaRefValid
    <3> QED BY <2>2, <3>1, <3>2, RouteFacts
  <2> QED BY <2>3, <2>4
<1> QED BY <1>1, Inductive, PTL

\* api-catalog.ts:623: no response shows what is secret in its request, although the
\* properties were read after the lists the rule was checked on.
THEOREM SecretsStayHidden == Spec => []SecretsAreNotEchoed
<1>1. IInv => SecretsAreNotEchoed
  <2> SUFFICES ASSUME IInv, Built, NEW n \in Chosen, catalog[n].response # None
               PROVE  LET components == outcome.document.components IN
                      components[catalog[n].request[2]].hidden
                        \cap components[catalog[n].response[2]].properties = {}
    BY DEF SecretsAreNotEchoed
  <2> DEFINE request == catalog[n].request
             response == catalog[n].response
  <2>1. /\ request \in Refs(first) /\ response \in Refs(first)
        /\ Agreed(first, second) /\ ~ NamesConflict(first)
    BY RouteFacts
  <2>2. NoEcho(SchemaAt(first, request), SchemaAt(first, response))
    BY <2>1, RouteFacts DEF RouteValid
  <2>3. /\ Component(first, second, request).hidden = SchemaAt(first, request).secretFields
        /\ SchemaAt(first, request).secretFields # {} => SchemaAt(first, request).carriesSecret
        /\ Component(first, second, response).properties = Fields(SchemaAt(first, response))
    BY <2>1, SecretsAreFields
  <2>4. Component(first, second, request).hidden
          \cap Component(first, second, response).properties = {}
    BY <2>2, <2>3 DEF NoEcho
  <2>5. outcome.document.components = Components(first, second)
    BY RouteFacts DEF Document
  <2> QED BY <2>1, <2>4, <2>5, NameStands
<1> QED BY <1>1, Inductive, PTL

\* openapi.ts:319-343: components define what they require and mark every secret.
THEOREM ComponentsStand == Spec => []ComponentsHangTogether
<1>1. IInv => ComponentsHangTogether
  <2> SUFFICES ASSUME IInv, Built, NEW id \in DOMAIN outcome.document.components
               PROVE  LET component == outcome.document.components[id] IN
                      /\ component.required \subseteq component.properties
                      /\ component.hidden = SchemaAt(first, component.ref).secretFields
    BY DEF ComponentsHangTogether
  <2>1. outcome.document.components = Components(first, second)
    BY DEF IInv, Sourced, Document
  <2>2. PICK ref \in Refs(first) :
          outcome.document.components[id] = Component(first, second, ref)
    BY <2>1 DEF Components
  <2>3. Agreed(first, second)
    BY ReadingsAgree
  <2>4. /\ Component(first, second, ref).hidden = SchemaAt(first, ref).secretFields
        /\ Component(first, second, ref).properties = Fields(SchemaAt(first, ref))
    BY <2>3, SecretsAreFields
  <2>5. /\ Component(first, second, ref).ref = ref
        /\ Component(first, second, ref).required = SchemaAt(first, ref).required
    BY DEF Component
  <2> QED BY <2>2, <2>4, <2>5 DEF Fields
<1> QED BY <1>1, Inductive, PTL

\* The headers of one route: the metadata names differ, the rules differ from them,
\* and the profile takes the place of what it names.
LEMMA RouteHeadersDiffer ==
  ASSUME NEW route, NEW bundles, route.request \in Refs(bundles),
         ~ HeadersCollide(route, bundles),
         NEW g \in HeaderParameters(route, bundles), NEW h \in HeaderParameters(route, bundles),
         g[2] = h[2]
  PROVE  g = h
<1> DEFINE metadata == MetadataNames(route)
           rules == {"rule"} \X SchemaAt(bundles, route.request).headers
           profile == {"profile"} \X Profile.headers
<1>1. \A x, y \in metadata : x[2] = y[2] => x = y
  BY HeadersAssumption DEF MetadataNames
<1>2. \A x, y \in rules : x[2] = y[2] => x = y
  OBVIOUS
<1>3. \A x \in metadata, y \in rules : x[2] # y[2]
  BY DEF HeadersCollide, Names
<1>4. \A x, y \in metadata \cup rules : x[2] = y[2] => x = y
  BY <1>1, <1>2, <1>3
<1>5. \A x, y \in profile : x[2] = y[2] => x = y
  OBVIOUS
<1>6. CASE HeaderParameters(route, bundles) = metadata \cup rules
  BY <1>4, <1>6
<1>7. CASE HeaderParameters(route, bundles)
             = {x \in metadata \cup rules : x[2] \notin Profile.headers} \cup profile
  <2>1. \A x \in profile : x[2] \in Profile.headers
    OBVIOUS
  <2> QED BY <1>4, <1>5, <1>7, <2>1
<1> QED BY <1>6, <1>7 DEF HeaderParameters

\* openapi.ts:472-494: no operation has two header parameters of one name.
THEOREM OperationHeadersDiffer == Spec => []HeadersDiffer
<1>1. IInv => HeadersDiffer
  <2> SUFFICES ASSUME IInv, Built, NEW place \in DOMAIN outcome.document.paths
               PROVE  LET headers == outcome.document.paths[place].headers IN
                      \A g, h \in headers : g[2] = h[2] => g = h
    BY DEF HeadersDiffer
  <2>1. PICK n \in Chosen : place = Place(catalog[n])
    BY DEF IInv, Sourced, Document, Paths, Chosen
  <2>2. outcome.document.paths[place] = Operation(catalog[n], first)
    BY <2>1, RouteFacts
  <2>3. outcome.document.paths[place].headers = HeaderParameters(catalog[n], first)
    BY <2>2 DEF Operation
  <2>4. catalog[n].request \in Refs(first) /\ ~ HeadersCollide(catalog[n], first)
    BY RouteFacts
  <2> QED BY <2>3, <2>4, RouteHeadersDiffer
<1> QED BY <1>1, Inductive, PTL

-----------------------------------------------------------------------------
(* The export plan *)

\* The kind of what buildApiExportPlan returned tells what it holds.
LEMMA PlanHolds ==
  ASSUME NEW lists, NEW routes, NEW bundles, PlanResult(lists, routes, bundles).kind = "plan"
  PROVE  LET plan == PlanResult(lists, routes, bundles) IN
         /\ ListsValid(lists, DOMAIN bundles) /\ PlanInputsAgree(lists, DOMAIN bundles)
         /\ plan.operations = PlannedOperations(routes, bundles)
         /\ plan.models = Models(bundles)
         /\ plan.outputs = Outputs(lists, DOMAIN bundles)
BY DEF PlanResult

\* Ids of operations are unique, so each planned route has its own entry.
LEMMA PlannedStands ==
  ASSUME NEW routes, NEW bundles, UniqueRouteKeys(routes), NEW n \in PlannedRoutes(routes)
  PROVE  /\ routes[n].operationId \in DOMAIN PlannedOperations(routes, bundles)
         /\ PlannedOperations(routes, bundles)[routes[n].operationId]
              = PlannedOperation(routes[n], bundles)
<1>1. \A m \in PlannedRoutes(routes) : routes[m].operationId = routes[n].operationId => m = n
  BY DEF UniqueRouteKeys, PlannedRoutes
<1>2. (CHOOSE m \in PlannedRoutes(routes) : routes[m].operationId = routes[n].operationId) = n
  BY <1>1
<1> QED BY <1>2 DEF PlannedOperations

\* The model of a schema and its component tell the same.
LEMMA SameMessages ==
  ASSUME NEW bundles, NEW contents, Agreed(bundles, contents), NEW ref \in Refs(bundles)
  PROVE  SameMessage(Models(bundles)[ref], Component(bundles, contents, ref))
<1>1. /\ Component(bundles, contents, ref).hidden = SchemaAt(bundles, ref).secretFields
      /\ Component(bundles, contents, ref).properties = Fields(SchemaAt(bundles, ref))
  BY SecretsAreFields
<1>2. /\ Component(bundles, contents, ref).kind = SchemaAt(bundles, ref).kind
      /\ Component(bundles, contents, ref).required = SchemaAt(bundles, ref).required
  BY DEF Component
<1>3. /\ Models(bundles)[ref].kind = SchemaAt(bundles, ref).kind
      /\ Models(bundles)[ref].required = SchemaAt(bundles, ref).required
      /\ Models(bundles)[ref].optional = SchemaAt(bundles, ref).optional
      /\ Models(bundles)[ref].secret = SchemaAt(bundles, ref).secretFields
  BY DEF Models, Model
<1> QED BY <1>1, <1>2, <1>3 DEF SameMessage, Fields

\* The header rules of a request are among the parameters of its operation: those
\* of the profile stand for the rules they replace.
LEMMA RulesAreParameters ==
  ASSUME NEW route, NEW bundles
  PROVE  SchemaAt(bundles, route.request).headers \subseteq Names(HeaderParameters(route, bundles))
<1> SUFFICES ASSUME NEW name \in SchemaAt(bundles, route.request).headers
             PROVE  \E h \in HeaderParameters(route, bundles) : h[2] = name
  BY DEF Names
<1> DEFINE own == MetadataNames(route) \cup ({"rule"} \X SchemaAt(bundles, route.request).headers)
<1>1. <<"rule", name>> \in own
  OBVIOUS
<1>2. CASE HeaderParameters(route, bundles) = own
  BY <1>1, <1>2
<1>3. CASE HeaderParameters(route, bundles)
             = {h \in own : h[2] \notin Profile.headers} \cup ({"profile"} \X Profile.headers)
  <2>1. CASE name \in Profile.headers
    <3>1. <<"profile", name>> \in HeaderParameters(route, bundles)
      BY <1>3, <2>1
    <3> QED BY <3>1
  <2>2. CASE name \notin Profile.headers
    <3>1. <<"rule", name>> \in HeaderParameters(route, bundles)
      BY <1>1, <1>3, <2>2
    <3> QED BY <3>1
  <2> QED BY <2>1, <2>2
<1> QED BY <1>2, <1>3 DEF HeaderParameters

\* What the plan and the document say of one public route.
LEMMA CallMatches ==
  ASSUME IInv, Built, NEW n \in PlannedRoutes(catalog)
  PROVE  LET call == PlannedOperation(catalog[n], first)
             shown == outcome.document.paths[call.place]
         IN
         /\ shown.operationId = catalog[n].operationId
         /\ call.statuses = DOMAIN shown.responses
         /\ call.headers \subseteq Names(shown.headers)
         /\ shown.body # None =>
              SameMessage(Models(first)[call.request], outcome.document.components[shown.body])
         /\ \A status \in call.statuses :
              IF call.bodyMode = "none" THEN shown.responses[status] = None
              ELSE SameMessage(Models(first)[call.response],
                               outcome.document.components[shown.responses[status]])
<1> DEFINE call == PlannedOperation(catalog[n], first)
           shown == outcome.document.paths[call.place]
<1>1. n \in Chosen
  BY DEF PlannedRoutes, Chosen, Exported
<1>2. /\ Agreed(first, second) /\ ~ NamesConflict(first)
      /\ outcome.document.components = Components(first, second)
      /\ RouteValid(catalog[n], first)
      /\ catalog[n].request \in Refs(first) /\ catalog[n].response \in Refs(first) \cup {None}
      /\ outcome.document.paths[Place(catalog[n])] = Operation(catalog[n], first)
  BY <1>1, RouteFacts DEF Document
<1>3. shown = Operation(catalog[n], first)
  BY <1>2 DEF PlannedOperation
<1>4. ASSUME NEW ref \in Refs(first)
      PROVE  SameMessage(Models(first)[ref], outcome.document.components[ref[2]])
  BY <1>2, SameMessages, NameStands
<1>5. shown.operationId = catalog[n].operationId /\ call.statuses = DOMAIN shown.responses
  BY <1>3 DEF Operation, PlannedOperation
<1>6. call.headers \subseteq Names(shown.headers)
  <2>1. call.headers = SchemaAt(first, catalog[n].request).headers
    BY <1>2 DEF PlannedOperation
  <2>2. shown.headers = HeaderParameters(catalog[n], first)
    BY <1>3 DEF Operation
  <2> QED BY <2>1, <2>2, RulesAreParameters
<1>7. shown.body # None => SameMessage(Models(first)[call.request], outcome.document.components[shown.body])
  <2>1. shown.body # None => shown.body = catalog[n].request[2]
    BY <1>3 DEF Operation
  <2>2. call.request = catalog[n].request
    BY DEF PlannedOperation
  <2> QED BY <1>2, <1>4, <2>1, <2>2
<1>8. ASSUME NEW status \in call.statuses
      PROVE  IF call.bodyMode = "none" THEN shown.responses[status] = None
             ELSE SameMessage(Models(first)[call.response],
                              outcome.document.components[shown.responses[status]])
  <2>1. /\ status \in catalog[n].statuses /\ call.response = catalog[n].response
        /\ call.bodyMode = "none" <=> catalog[n].response = None
    BY DEF PlannedOperation
  <2>2. catalog[n].response # None => status # 204
    BY <1>2, <2>1 DEF RouteValid, ResponseBodyValid, NoContent
  <2>3. shown.responses[status]
          = IF catalog[n].response = None THEN None ELSE catalog[n].response[2]
    BY <1>3, <2>1, <2>2 DEF Operation
  <2> QED BY <1>2, <1>4, <2>1, <2>3
<1> QED BY <1>5, <1>6, <1>7, <1>8

\* plan.ts:133, openapi.ts:175: the operations of the plan are the public ones of
\* the document, and both define the same messages for them.
THEOREM PlanMatches == Spec => []PlanMatchesDocument
<1>1. IInv => PlanMatchesDocument
  <2> SUFFICES ASSUME IInv, Built, NEW plan \in Plans, plan.kind = "plan"
               PROVE  /\ DOMAIN plan.operations
                           = {outcome.document.paths[place].operationId : place \in PublicPlaces}
                      /\ \A id \in DOMAIN plan.operations : DescribesCall(plan, id)
    BY DEF PlanMatchesDocument
  <2> DEFINE paths == outcome.document.paths
  <2>1. plan.operations = PlannedOperations(catalog, first) /\ plan.models = Models(first)
    BY PlanHolds DEF Plans
  <2>2. UniqueRouteKeys(catalog)
    BY FirstAccepted DEF Validated, ContractsValid
  <2>3. \A n \in PlannedRoutes(catalog) : n \in Chosen
    BY DEF PlannedRoutes, Chosen, Exported
  <2>4. ASSUME NEW n \in Chosen
        PROVE  paths[Place(catalog[n])].operationId = catalog[n].operationId
    <3>1. paths[Place(catalog[n])] = Operation(catalog[n], first)
      BY RouteFacts
    <3> QED BY <3>1 DEF Operation
  <2>5. DOMAIN paths = {Place(catalog[n]) : n \in Chosen}
    BY DEF IInv, Sourced, Document, Paths, Chosen
  <2>6. DOMAIN plan.operations = {catalog[n].operationId : n \in PlannedRoutes(catalog)}
    BY <2>1 DEF PlannedOperations
  <2>7. ASSUME NEW n \in PlannedRoutes(catalog)
        PROVE  \E place \in PublicPlaces : paths[place].operationId = catalog[n].operationId
    <3>1. Place(catalog[n]) \in PublicPlaces
      BY <2>3, <2>5 DEF PublicPlaces
    <3> QED BY <3>1, <2>3, <2>4
  <2>8. ASSUME NEW place \in PublicPlaces
        PROVE  \E n \in PlannedRoutes(catalog) : paths[place].operationId = catalog[n].operationId
    <3>1. CASE options.restricted
      <4>1. PICK n \in PlannedRoutes(catalog) : Place(catalog[n]) = place
        BY <3>1 DEF PublicPlaces
      <4> QED BY <4>1, <2>3, <2>4
    <3>2. CASE ~ options.restricted
      <4>1. PICK n \in Chosen : Place(catalog[n]) = place
        BY <2>5 DEF PublicPlaces
      <4>2. n \in PlannedRoutes(catalog)
        BY <3>2, <4>1 DEF Chosen, Exported, PlannedRoutes
      <4> QED BY <4>1, <4>2, <2>4
    <3> QED BY <3>1, <3>2
  <2>9. DOMAIN plan.operations = {paths[place].operationId : place \in PublicPlaces}
    BY <2>6, <2>7, <2>8
  <2>10. ASSUME NEW id \in DOMAIN plan.operations
         PROVE  DescribesCall(plan, id)
    <3>1. PICK n \in PlannedRoutes(catalog) : catalog[n].operationId = id
      BY <2>6
    <3>2. plan.operations[id] = PlannedOperation(catalog[n], first)
      BY <2>1, <2>2, <3>1, PlannedStands
    <3> DEFINE call == PlannedOperation(catalog[n], first)
               shown == paths[call.place]
    <3>3. /\ shown.operationId = id
          /\ call.statuses = DOMAIN shown.responses
          /\ call.headers \subseteq Names(shown.headers)
          /\ shown.body # None =>
               SameMessage(plan.models[call.request], outcome.document.components[shown.body])
          /\ \A status \in call.statuses :
               IF call.bodyMode = "none" THEN shown.responses[status] = None
               ELSE SameMessage(plan.models[call.response],
                                outcome.document.components[shown.responses[status]])
      BY <2>1, <3>1, CallMatches
    <3> HIDE DEF call
    <3> QED BY <3>2, <3>3 DEF DescribesCall, call
  <2> QED BY <2>9, <2>10
<1> QED BY <1>1, Inductive, PTL

\* plan.ts:238-318: a plan never throws half-way and keeps what the shared
\* contracts demand.
THEOREM PlanKeeps == Spec => []PlanKeepsMetadata
<1>1. IInv => PlanKeepsMetadata
  <2> SUFFICES ASSUME IInv, Validated, NEW lists \in Surfaces
               PROVE  LET plan == PlanResult(lists, catalog, first) IN
                      /\ plan.kind # "threw"
                      /\ plan.kind = "plan" =>
                           /\ lists["route.required_per_route"] \cup lists["error.required_fields"]
                                \cup lists["webhook.required_controls"] \subseteq plan.outputs.sdk.metadata
                           /\ Canonical \subseteq plan.outputs.sdk.forbidden
                           /\ \A output \in {plan.outputs.sdk, plan.outputs.docs, plan.outputs.openapi} :
                                /\ TraceFields \subseteq output.metadata
                                /\ {ref[1] : ref \in DOMAIN plan.models} \subseteq output.sources
    BY DEF PlanKeepsMetadata
  <2> DEFINE plan == PlanResult(lists, catalog, first)
             files == DOMAIN first
             outputs == Outputs(lists, files)
  <2>1. Accepted(first)
    BY FirstAccepted
  <2>2. plan.kind # "threw"
    <3>1. ASSUME NEW ref \in Refs(first)
          PROVE  SchemaAt(first, ref).kind \in {"request", "response"}
      <4>1. PICK n \in DOMAIN first[ref[1]].schemas :
              ref[1] \in DOMAIN first /\ SchemaAt(first, ref) = first[ref[1]].schemas[n]
        BY <2>1, SchemaFound
      <4>2. BundleValid(first[ref[1]])
        BY <2>1, <4>1 DEF Accepted
      <4> QED BY <4>1, <4>2 DEF BundleValid, SchemaValid
    <3> QED BY <3>1 DEF PlanResult, HasOtherKind
  <2>3. ASSUME plan.kind = "plan"
        PROVE  /\ lists["route.required_per_route"] \cup lists["error.required_fields"]
                    \cup lists["webhook.required_controls"] \subseteq plan.outputs.sdk.metadata
               /\ Canonical \subseteq plan.outputs.sdk.forbidden
               /\ \A output \in {plan.outputs.sdk, plan.outputs.docs, plan.outputs.openapi} :
                    /\ TraceFields \subseteq output.metadata
                    /\ {ref[1] : ref \in DOMAIN plan.models} \subseteq output.sources
    <3>1. /\ ListsValid(lists, files) /\ PlanInputsAgree(lists, files)
          /\ plan.models = Models(first) /\ plan.outputs = outputs
      BY <2>3, PlanHolds
    <3>2. TraceFields \subseteq lists["error.required_fields"]
      BY <3>1, TraceAssumption DEF ListsValid, ErrorEnvelopeValid, Carries
    <3>3. files \subseteq lists["sdk.source_contracts"]
      BY <3>1 DEF ListsValid, SdkInputValid
    <3>4. {ref[1] : ref \in DOMAIN plan.models} \subseteq files
      BY <3>1 DEF Models, Refs
    <3>5. /\ lists["route.required_per_route"] \subseteq lists["sdk.required_route_metadata"]
          /\ lists["error.required_fields"] \subseteq lists["sdk.required_error_metadata"]
          /\ lists["webhook.required_controls"] \subseteq lists["sdk.required_webhook_metadata"]
          /\ Canonical \subseteq lists["sdk.forbidden_values"]
      BY <3>1 DEF PlanInputsAgree
    <3>6. /\ lists["sdk.required_route_metadata"] \cup lists["sdk.required_error_metadata"]
               \cup lists["sdk.required_webhook_metadata"] \subseteq outputs.sdk.metadata
          /\ lists["sdk.source_contracts"] \subseteq outputs.sdk.sources
          /\ outputs.sdk.forbidden = lists["sdk.forbidden_values"]
      BY DEF Outputs, Output
    <3>7. /\ TraceFields \subseteq outputs.docs.metadata /\ files \subseteq outputs.docs.sources
          /\ lists["error.required_fields"] \subseteq outputs.openapi.metadata
          /\ files \subseteq outputs.openapi.sources
      BY DEF Outputs, Output
    <3> HIDE DEF outputs, plan, files
    <3> QED BY <3>1, <3>2, <3>3, <3>4, <3>5, <3>6, <3>7
  <2> QED BY <2>2, <2>3
<1> QED BY <1>1, Inductive, PTL

-----------------------------------------------------------------------------
(* The product families *)

\* What the rest of the contracts adds is read like the files of the build.
LEMMA AllAgree ==
  ASSUME IInv, Built, NEW rest \in Rest, Publishes(rest)
  PROVE  Agreed(AllContracts(rest).bundles, AllContracts(rest).contents)
<1> DEFINE bundles == AllContracts(rest).bundles
           contents == AllContracts(rest).contents
<1>1. Agreed(first, second) /\ DOMAIN second = DOMAIN first /\ DOMAIN first \subseteq Files
  BY ReadingsAgree DEF IInv, TypeOK, Sourced
<1>2. bundles = Beside(first, rest.bundles) /\ contents = Beside(second, rest.bundles)
  BY DEF AllContracts
<1>3. ASSUME NEW f \in DOMAIN first
      PROVE  bundles[f] = first[f] /\ contents[f] = second[f]
  BY <1>1, <1>2 DEF Beside
<1>4. ASSUME NEW f \in DOMAIN rest.bundles
      PROVE  bundles[f] = rest.bundles[f] /\ contents[f] = rest.bundles[f]
  <2>1. f \notin DOMAIN first
    BY <1>1, RestAssumption
  <2> QED BY <1>1, <1>2, <2>1 DEF Beside
<1>5. DOMAIN bundles = DOMAIN first \cup DOMAIN rest.bundles
  BY <1>2 DEF Beside
<1>6. \A f \in DOMAIN bundles : BundleValid(bundles[f])
  BY DEF Publishes, ContractsValid
<1>7. ASSUME NEW f \in DOMAIN bundles
      PROVE  /\ LET schemas == bundles[f].schemas IN schemas \in Seq({schemas[n] : n \in DOMAIN schemas})
             /\ TypedOk(bundles[f], contents[f])
  <2>1. CASE f \in DOMAIN first
    BY <1>1, <1>3, <2>1 DEF Agreed, Accepted
  <2>2. CASE f \in DOMAIN rest.bundles
    <3>1. TypedOk(rest.bundles[f], rest.bundles[f])
      BY <2>2 DEF Publishes
    <3>2. LET schemas == rest.bundles[f].schemas IN schemas \in Seq({schemas[n] : n \in DOMAIN schemas})
      BY <2>2, RestAssumption
    <3> QED BY <1>4, <2>2, <3>1, <3>2
  <2> QED BY <1>5, <2>1, <2>2
<1> HIDE DEF bundles, contents
<1>8. Agreed(bundles, contents)
  BY <1>6, <1>7 DEF Agreed, Accepted
<1> QED BY <1>8 DEF bundles, contents

\* The routes are a list, and what they refer to is a schema ref.
LEMMA RoutesAreListed ==
  ASSUME IInv, Built, NEW rest \in Rest, NEW n \in DOMAIN AllContracts(rest).routes
  PROVE  LET route == AllContracts(rest).routes[n] IN
         /\ n \in Nat
         /\ \E a, b : route.request = <<a, b>>
         /\ route.response # None => \E a, b : route.response = <<a, b>>
<1> DEFINE routes == catalog \o rest.routes
<1>1. catalog \in Catalogs \ {Unreadable}
  BY DEF IInv, TypeOK, Sourced
<1>2. /\ catalog \in Seq({catalog[m] : m \in DOMAIN catalog})
      /\ rest.routes \in Seq({rest.routes[m] : m \in DOMAIN rest.routes})
  BY <1>1, RoutesAssumption, RestAssumption
<1>3. n \in 1 .. Len(catalog) + Len(rest.routes) /\ Len(catalog) \in Nat /\ Len(rest.routes) \in Nat
  BY <1>2 DEF AllContracts
<1>4. CASE n <= Len(catalog)
  <2>1. n \in DOMAIN catalog /\ AllContracts(rest).routes[n] = catalog[n]
    BY <1>2, <1>3, <1>4 DEF AllContracts
  <2>2. catalog[n].request \in Files \X STRING /\ catalog[n].response \in (Files \X STRING) \cup {None}
    BY <1>1, <2>1, CatalogsAssumption
  <2> QED BY <1>3, <2>1, <2>2
<1>5. CASE n > Len(catalog)
  <2> DEFINE m == n - Len(catalog)
  <2>1. m \in DOMAIN rest.routes /\ AllContracts(rest).routes[n] = rest.routes[m]
    BY <1>2, <1>3, <1>5 DEF AllContracts
  <2>2. /\ rest.routes[m].request \in STRING \X STRING
        /\ rest.routes[m].response \in (STRING \X STRING) \cup {None}
    BY <2>1, RestAssumption
  <2> HIDE DEF m
  <2> QED BY <1>3, <2>1, <2>2
<1> QED BY <1>3, <1>4, <1>5

\* A ref that resolves is one of the bundles' refs.
LEMMA ResolvedRef ==
  ASSUME NEW bundles, NEW ref, \E a, b : ref = <<a, b>>, Resolves(bundles, ref)
  PROVE  ref \in Refs(bundles)
<1>1. ref \in {ref[1]} \X Ids(bundles[ref[1]])
  BY DEF Resolves
<1> QED BY <1>1 DEF Refs, Resolves

\* Each component is made of the schema its validator looked at.
LEMMA ComponentStands ==
  ASSUME NEW bundles, NEW contents, Agreed(bundles, contents), ~ NamesConflict(bundles),
         NEW ref \in Refs(bundles)
  PROVE  LET component == Components(bundles, contents)[ref[2]]
             schema == SchemaAt(bundles, ref)
         IN /\ component.ref = ref
            /\ component.required = schema.required
            /\ component.properties = Fields(schema)
            /\ component.hidden = schema.secretFields
<1>1. Components(bundles, contents)[ref[2]] = Component(bundles, contents, ref)
  BY NameStands
<1>2. /\ Component(bundles, contents, ref).hidden = SchemaAt(bundles, ref).secretFields
      /\ Component(bundles, contents, ref).properties = Fields(SchemaAt(bundles, ref))
  BY SecretsAreFields
<1>3. /\ Component(bundles, contents, ref).ref = ref
      /\ Component(bundles, contents, ref).required = SchemaAt(bundles, ref).required
  BY DEF Component
<1> QED BY <1>1, <1>2, <1>3

\* The validators of the families looked at the lists the components are made of.
LEMMA ComponentsKeep ==
  ASSUME NEW families, NEW routes, NEW bundles, NEW contents,
         Agreed(bundles, contents), ~ NamesConflict(bundles),
         FamiliesValid(families, routes, bundles)
  PROVE  ComponentsKeepAuthority(families, Components(bundles, contents))
<1> DEFINE components == Components(bundles, contents)
<1>1. /\ {DecisionRequest, DecisionResponse} \subseteq Refs(bundles)
      /\ families.decision.lists["required_response_bindings"]
           \subseteq SchemaAt(bundles, DecisionResponse).required
      /\ families.decision.lists["forbidden_request_authority_fields"]
           \cap Fields(SchemaAt(bundles, DecisionRequest)) = {}
  BY DEF FamiliesValid, DecisionSchemasValid
<1>2. /\ CurrentSession \in Refs(bundles)
      /\ Reviewed["decision"]["current_session_forbidden_fields"]
           \cap Fields(SchemaAt(bundles, CurrentSession)) = {}
  BY DEF FamiliesValid, SessionStaysIdentity
<1>3. /\ CreditIntentRequest \in Refs(bundles)
      /\ Fields(SchemaAt(bundles, CreditIntentRequest))
           \cap Reviewed["credit"]["client_authority_fields"] = {}
  BY DEF FamiliesValid, CreditIntentValid
<1>4. /\ CreditReceiptRequest \in Refs(bundles)
      /\ "return_receipt" \in SchemaAt(bundles, CreditReceiptRequest).secretFields
  BY DEF FamiliesValid, CreditReceiptValid
<1>5. \A ref \in {PolicyResolveRequest, PolicyReceiptRequest} :
        /\ ref \in Refs(bundles)
        /\ Fields(SchemaAt(bundles, ref))
             \cap Reviewed["policy"]["forbidden_request_authority_fields"] = {}
  BY DEF FamiliesValid, PolicyRequestsValid
<1>6. /\ {RedeemRequest, RedeemResponse, VerifyRequest} \subseteq Refs(bundles)
      /\ "challenge_response" \in SchemaAt(bundles, RedeemRequest).secretFields
      /\ "verification_ref" \in SchemaAt(bundles, RedeemResponse).secretFields
      /\ "verification_ref" \in SchemaAt(bundles, VerifyRequest).secretFields
  BY DEF FamiliesValid, AbuseSchemasValid
<1>7. /\ ReferralRequest \in Refs(bundles)
      /\ Fields(SchemaAt(bundles, ReferralRequest)) = {"referral_code"}
  BY DEF FamiliesValid, ReferralsValid, Fields
<1>8. ASSUME NEW ref \in DOMAIN Withheld(families)
      PROVE  components[ref[2]].properties \cap Withheld(families)[ref] = {}
  <2>1. /\ ref \in Refs(bundles)
        /\ Fields(SchemaAt(bundles, ref)) \cap Withheld(families)[ref] = {}
    BY <1>1, <1>2, <1>3, <1>5 DEF Withheld
  <2> QED BY <2>1, ComponentStands
<1>9. ASSUME NEW ref \in DOMAIN Receipts
      PROVE  Receipts[ref] \in components[ref[2]].hidden
  <2>1. ref \in Refs(bundles) /\ Receipts[ref] \in SchemaAt(bundles, ref).secretFields
    BY <1>4, <1>6 DEF Receipts
  <2> QED BY <2>1, ComponentStands
<1>10. /\ components[ReferralRequest[2]].properties = {"referral_code"}
       /\ families.decision.lists["required_response_bindings"]
            \subseteq components[DecisionResponse[2]].required
  BY <1>1, <1>7, ComponentStands
<1> QED BY <1>8, <1>9, <1>10 DEF ComponentsKeepAuthority

\* The one route of the decision is the one the validator looked at.
LEMMA DecisionKeeps ==
  ASSUME NEW families, NEW routes, NEW bundles, NEW n \in DOMAIN routes, DOMAIN routes \subseteq Nat,
         ContractsValid(routes, bundles), FamiliesValid(families, routes, bundles),
         routes[n].operationId = DecisionOperation
  PROVE  AsksForDecision(Place(routes[n]), Operation(routes[n], bundles))
<1> DEFINE route == routes[n]
           operation == Operation(route, bundles)
<1>1. Named(routes, DecisionOperation) = {n}
  BY DEF Named, ContractsValid, UniqueRouteKeys
<1>2. FirstNamed(routes, DecisionOperation) = route
  <2>1. (CHOOSE m \in {n} : \A k \in {n} : m <= k) = n
    OBVIOUS
  <2> QED BY <1>1, <2>1 DEF FirstNamed
<1>3. /\ route.method = "POST" /\ Path(route) = DecisionPath /\ route.statuses = {201}
      /\ route.request = DecisionRequest /\ route.response = DecisionResponse
  BY <1>2 DEF FamiliesValid, DecisionRouteValid
<1>4. route.response # None
  BY <1>3 DEF ContractsValid, RouteValid, ResponseBodyValid, NoContent
<1>5. Place(route) = <<Profile.path, MethodKey["POST"]>>
  BY <1>3, DecisionAssumption DEF Place
<1>6. Profile.headers \subseteq Names(operation.headers)
  <2>1. {"profile"} \X Profile.headers \subseteq HeaderParameters(route, bundles)
    BY <1>3, DecisionAssumption DEF HeaderParameters
  <2>2. ASSUME NEW name \in Profile.headers
        PROVE  \E h \in HeaderParameters(route, bundles) : h[2] = name
    <3>1. <<"profile", name>> \in HeaderParameters(route, bundles)
      BY <2>1
    <3> QED BY <3>1
  <2>3. operation.headers = HeaderParameters(route, bundles)
    BY DEF Operation
  <2> QED BY <2>2, <2>3 DEF Names
<1>7. Fields(SchemaAt(bundles, DecisionRequest)) # {}
  <2>1. /\ Reviewed["decision"]["required_request_bindings"]
             \subseteq families.decision.lists["required_request_bindings"]
        /\ families.decision.lists["required_request_bindings"]
             \subseteq SchemaAt(bundles, DecisionRequest).required
    BY DEF FamiliesValid, DecisionContractValid, Complete, DecisionSchemasValid
  <2> QED BY <2>1, DecisionAssumption DEF Fields
<1>8. operation.body = DecisionRequest[2]
  BY <1>3, <1>7 DEF Operation
<1>9. DOMAIN operation.responses = {201} /\ operation.responses[201] = DecisionResponse[2]
  BY <1>3, <1>4 DEF Operation
<1> QED BY <1>5, <1>6, <1>8, <1>9 DEF AsksForDecision

\* access-decision.ts:359, credit-purchase.ts:328, customer-policy-registry.ts:252,
\* referral-contracts.ts:12, sensitive-action-authorization.ts:22: what the families
\* withhold stays withheld in what is published, for any contracts and any edit
\* between the reading that was validated and the one that is shown.
THEOREM AuthorityStays == Spec => []AuthorityStaysWithTheServer
<1>1. IInv => AuthorityStaysWithTheServer
  <2> SUFFICES ASSUME IInv, Built, NEW rest \in Rest, Publishes(rest)
               PROVE  LET all      == AllContracts(rest)
                          document == Document(all.routes, options.restricted, all.bundles, all.contents)
                      IN /\ ComponentsKeepAuthority(rest.families, document.components)
                         /\ \A place \in DOMAIN document.paths :
                              OperationKeepsAuthority(place, document.paths[place], document.components)
    BY DEF AuthorityStaysWithTheServer
  <2> DEFINE routes   == AllContracts(rest).routes
             bundles  == AllContracts(rest).bundles
             contents == AllContracts(rest).contents
             exported == Exported(routes, options.restricted)
             document == Document(routes, options.restricted, bundles, contents)
  <2>1. /\ FamiliesValid(rest.families, routes, bundles) /\ ContractsValid(routes, bundles)
        /\ ~ NamesConflict(bundles)
    BY DEF Publishes
  <2>2. Agreed(bundles, contents)
    BY AllAgree
  <2>3. \A n \in DOMAIN routes :
          /\ n \in Nat
          /\ \E a, b : routes[n].request = <<a, b>>
          /\ routes[n].response # None => \E a, b : routes[n].response = <<a, b>>
    BY RoutesAreListed
  <2> HIDE DEF routes, bundles, contents
  <2>4. document.components = Components(bundles, contents) /\ document.paths = Paths(routes, exported, bundles)
    BY DEF Document
  <2>5. ComponentsKeepAuthority(rest.families, document.components)
    BY <2>1, <2>2, <2>4, ComponentsKeep
  <2>6. ASSUME NEW place \in DOMAIN document.paths
        PROVE  OperationKeepsAuthority(place, document.paths[place], document.components)
    <3>1. exported \in SUBSET DOMAIN routes
      BY DEF Exported
    <3>2. PICK n \in exported : place = Place(routes[n])
      BY <2>4 DEF Paths
    <3>3. n \in DOMAIN routes
      BY <3>1, <3>2
    <3>4. document.paths[place] = Operation(routes[n], bundles)
      BY <2>1, <2>4, <3>1, <3>2, PlaceStands
    <3> DEFINE operation == Operation(routes[n], bundles)
    <3>5. operation.operationId = routes[n].operationId
      BY DEF Operation
    <3>6. operation.operationId = DecisionOperation => AsksForDecision(place, operation)
      <4>1. DOMAIN routes \subseteq Nat
        BY <2>3
      <4> QED BY <2>1, <3>2, <3>3, <3>5, <4>1, DecisionKeeps
    <3>7. /\ routes[n].request \in Refs(bundles)
          /\ routes[n].response # None => routes[n].response \in Refs(bundles)
      <4>1. RouteValid(routes[n], bundles)
        BY <2>1, <3>3 DEF ContractsValid
      <4>2. /\ Resolves(bundles, routes[n].request)
            /\ routes[n].response # None => Resolves(bundles, routes[n].response)
        BY <4>1 DEF RouteValid, SchemaRefValid
      <4> QED BY <2>3, <3>3, <4>2, ResolvedRef
    <3>8. /\ routes[n].request[1] # SensitiveFile
          /\ routes[n].response # None => routes[n].response[1] # SensitiveFile
      BY <2>1, <3>3 DEF FamiliesValid, SensitiveActionValid
    <3>9. ASSUME NEW name \in Messages(operation)
          PROVE  document.components[name].ref[1] # SensitiveFile
      <4>1. \/ name = routes[n].request[2]
            \/ routes[n].response # None /\ name = routes[n].response[2]
        BY DEF Messages, Operation
      <4>2. ASSUME NEW ref \in Refs(bundles)
            PROVE  document.components[ref[2]].ref = ref
        BY <2>1, <2>2, <2>4, ComponentStands
      <4> QED BY <3>7, <3>8, <4>1, <4>2
    <3> HIDE DEF operation, document
    <3> QED BY <3>4, <3>6, <3>9 DEF OperationKeepsAuthority, operation
  <2> QED BY <2>5, <2>6 DEF routes, bundles, contents
<1> QED BY <1>1, Inductive, PTL
=============================================================================
