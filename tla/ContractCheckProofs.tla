------------------------ MODULE ContractCheckProofs ------------------------
(***************************************************************************)
(* What the contract check reports, for any arguments, contracts, error    *)
(* codes, documents and edits.                                             *)
(***************************************************************************)
EXTENDS ContractCheck, WellFoundedInduction, TLAPS

ToStdout == options.output \in {Null, "-"}

\* Nothing is printed before the end, and a file is only written if one was named.
SilentInv ==
  /\ phase # "exited" => stdout = Silent /\ stderr = ""
  /\ phase = "write" => ~ ToStdout
  /\ phase = "exited" => stdout \in {Silent, Help, Rendered}

\* How a check that began has ended: with its report, or without having written it.
EndInv ==
  (phase = "exited" /\ exit # 2 /\ ~ options.help) =>
    \/ stderr = "" /\ exit = ExitCode /\ ToStdout /\ stdout = Rendered
    \/ stderr = "" /\ exit = ExitCode /\ ~ ToStdout /\ stdout = Silent /\ output = Rendered
    \/ stderr = "write failed" /\ exit = 1 /\ ~ ToStdout /\ stdout = Silent

\* The findings are all there, and each names the file it is about.
FindingsPlaced ==
  /\ \A d \in validation : d.file \in ContractFiles
  /\ \A d \in comparison :
       d.file = IF d.code = "SERVICE_NOT_FOUND" THEN CatalogFile ELSE options.openApi

FindingsInv ==
  /\ phase \in {"arguments", "load", "codes", "openapi"} => comparison = {}
  /\ phase = "openapi" => \A d \in validation : d.file \in ContractFiles
  /\ phase \in {"report", "write"} \/ stdout.kind = "report" => FindingsPlaced

CheckInv == SilentInv /\ EndInv /\ FindingsInv

LEMMA KindsDiffer ==
  Silent.kind = "silent" /\ Help.kind = "help" /\ Rendered.kind = "report"
  BY DEF Silent, Help, Rendered

LEMMA OkMeansNoFindings == Ok <=> validation \cup comparison = {}
  BY DEF Ok

LEMMA InitCheckInv == Init => CheckInv
  BY KindsDiffer DEF Init, CheckInv, SilentInv, EndInv, FindingsInv

LEMMA ArgumentsKeep ==
  ASSUME CheckInv, TakeArgument \/ RefuseArgument \/ EndArguments PROVE CheckInv'
<1>1. UNCHANGED <<validation, comparison, output>>
  BY DEF TakeArgument, RefuseArgument, EndArguments, streams
<1>2. phase = "arguments" /\ stdout = Silent /\ stderr = ""
  BY DEF TakeArgument, RefuseArgument, EndArguments, CheckInv, SilentInv
<1>3. CASE TakeArgument
  BY <1>1, <1>2, <1>3, KindsDiffer
  DEF TakeArgument, streams, CheckInv, SilentInv, EndInv, FindingsInv
<1>4. CASE RefuseArgument
  BY <1>1, <1>2, <1>4, KindsDiffer
  DEF RefuseArgument, UsageError, Exit, arguments, CheckInv, SilentInv, EndInv, FindingsInv
<1>5. CASE EndArguments
  BY <1>1, <1>2, <1>5, KindsDiffer
  DEF EndArguments, UsageError, Exit, arguments, CheckInv, SilentInv, EndInv, FindingsInv
<1> QED BY <1>3, <1>4, <1>5

\* While the check reads, it prints nothing and has compared nothing.
LEMMA LoadKeeps ==
  ASSUME CheckInv, Load \/ LoadCodes PROVE CheckInv'
<1>1. /\ phase \in {"load", "codes"} /\ comparison = {} /\ comparison' = {}
      /\ stdout = Silent /\ stdout' = Silent /\ stderr' = "" /\ UNCHANGED options
  BY DEF Load, LoadCodes, streams, arguments, CheckInv, SilentInv, FindingsInv
<1>2. phase' \in {"codes", "openapi", "report"}
  BY DEF Load, LoadCodes, LoadFails
<1>3. phase' # "codes" => \A d \in validation' : d.file \in ContractFiles
  <2>1. CASE Load
    BY <2>1 DEF Load, LoadFails, At, ContractFiles
  <2>2. CASE LoadCodes
    BY <2>2 DEF LoadCodes, LoadFails, CodeFindings, At, ContractFiles
  <2> QED BY <2>1, <2>2
<1> QED BY <1>1, <1>2, <1>3, KindsDiffer
  DEF CheckInv, SilentInv, EndInv, FindingsInv, FindingsPlaced

LEMMA CompareKeeps ==
  ASSUME CheckInv, CompareDocument PROVE CheckInv'
<1>1. /\ phase = "openapi" /\ phase' = "report" /\ UNCHANGED <<options, validation>>
      /\ stdout' = Silent /\ stderr' = ""
  BY DEF CompareDocument, streams, arguments, CheckInv, SilentInv
<1>2. \A d \in comparison' :
        d.file = IF d.code = "SERVICE_NOT_FOUND" THEN CatalogFile ELSE options.openApi
  BY DEF CompareDocument, At
<1> QED BY <1>1, <1>2, KindsDiffer
  DEF CheckInv, SilentInv, EndInv, FindingsInv, FindingsPlaced

LEMMA ReportKeeps ==
  ASSUME CheckInv, Report \/ Write PROVE CheckInv'
<1>1. /\ UNCHANGED <<options, validation, comparison>> /\ phase \in {"report", "write"}
      /\ stdout = Silent /\ stderr = "" /\ FindingsPlaced
  BY DEF Report, Write, arguments, CheckInv, SilentInv, FindingsInv
<1>2. /\ ToStdout' = ToStdout /\ Rendered' = Rendered /\ ExitCode' = ExitCode
      /\ FindingsPlaced' = FindingsPlaced
  BY <1>1 DEF ToStdout, Rendered, ExitCode, Ok, Locations, FindingsPlaced
<1>3. phase' \in {"write", "exited"}
  BY DEF Report, Write, Exit
<1>4. FindingsInv'
  BY <1>1, <1>2, <1>3 DEF FindingsInv
<1>5. SilentInv'
  BY <1>1, <1>2 DEF Report, Write, Exit, SilentInv, ToStdout
<1>6. EndInv'
  <2>1. CASE Report
    BY <1>1, <1>2, <2>1 DEF Report, Exit, EndInv, ToStdout
  <2>2. CASE Write
    <3>1. ~ ToStdout
      BY <2>2 DEF Write, CheckInv, SilentInv
    <3> QED BY <1>1, <1>2, <2>2, <3>1 DEF Write, Exit, EndInv
  <2> QED BY <2>1, <2>2
<1> QED BY <1>4, <1>5, <1>6 DEF CheckInv

LEMMA StepCheckInv == CheckInv /\ [Next]_vars => CheckInv'
<1> SUFFICES ASSUME CheckInv, [Next]_vars PROVE CheckInv'
  OBVIOUS
<1>1. ASSUME UNCHANGED <<phase, options, validation, comparison, streams, exit>> PROVE CheckInv'
  <2>1. /\ ToStdout' = ToStdout /\ Rendered' = Rendered /\ ExitCode' = ExitCode
        /\ FindingsPlaced' = FindingsPlaced
    BY <1>1 DEF ToStdout, Rendered, ExitCode, Ok, Locations, FindingsPlaced
  <2> QED BY <1>1, <2>1 DEF streams, CheckInv, SilentInv, EndInv, FindingsInv
<1>2. CASE Edit
  BY <1>1, <1>2 DEF Edit, arguments
<1>3. CASE UNCHANGED vars
  BY <1>1, <1>3 DEF vars, streams
<1> QED BY <1>2, <1>3, ArgumentsKeep, LoadKeeps, CompareKeeps, ReportKeeps DEF Next, Check

LEMMA CheckInvariant == Spec => []CheckInv
  BY InitCheckInv, StepCheckInv, PTL DEF Spec

\* cli.ts:111-121: after any check the exit code and the report at the place the
\* caller named say the same, unless the report could not be written, which
\* standard error and exit code 1 tell.
THEOREM ReportAgreesWithExit == Spec => []ReportTellsTheExit
<1>1. CheckInv => ReportTellsTheExit
  <2> SUFFICES ASSUME CheckInv, phase = "exited", exit # 2, ~ options.help
               PROVE  ReportTellsTheExit
    BY DEF ReportTellsTheExit
  <2>1. Rendered.ok = Ok /\ Rendered.findings = validation \cup comparison
    BY DEF Rendered
  <2>2. Ok <=> Rendered.findings = {}
    BY <2>1, OkMeansNoFindings
  <2>3. ExitCode = 0 <=> Ok
    BY DEF ExitCode
  <2> QED BY <2>1, <2>2, <2>3, KindsDiffer DEF CheckInv, EndInv, ToStdout, ReportTellsTheExit
<1> QED BY <1>1, CheckInvariant, PTL

\* cli-report.ts:76-89: whatever is found, a SARIF result names a contract file
\* under the root, or the document under the working directory.
THEOREM FindingsArePlaced == Spec => []FindingsPointToTheirFile
<1>1. CheckInv => FindingsPointToTheirFile
  <2> SUFFICES ASSUME CheckInv, phase = "exited", options.format = "sarif", stdout.kind = "report"
               PROVE  stdout.locations \subseteq
                        ({options.root} \X ContractFiles) \cup ({"."} \X {options.openApi})
    BY DEF FindingsPointToTheirFile
  <2>1. stdout = Rendered /\ FindingsPlaced
    BY KindsDiffer DEF CheckInv, SilentInv, FindingsInv
  <2>2. stdout.locations = Locations
    BY <2>1 DEF Rendered
  <2> QED BY <2>1, <2>2 DEF Locations, FindingsPlaced, ContractFiles
<1> QED BY <1>1, CheckInvariant, PTL

-----------------------------------------------------------------------------
(* The arguments *)

\* What the arguments before the next one have set: an option without a use has
\* its default, any other the value of its last use.
LastBefore(name, i) ==
  /\ i < index /\ argv[i].name = name
  /\ \A j \in DOMAIN argv : j < index /\ argv[j].name = name => j <= i

Unused(name) == \A i \in DOMAIN argv : i < index => argv[i].name # name

SetAsRead(name) ==
  LET field == ValueOptions[name] IN
  \/ Unused(name) /\ options[field] = DefaultOptions[field]
  \/ \E i \in DOMAIN argv :
       /\ LastBefore(name, i)
       /\ options[field] = GivenValue(argv, i)
       /\ options[field] # Null

Kept == {"--root", "--output", "--openapi", "--service"}

ArgumentsInv ==
  /\ argv \in Arguments /\ index \in Nat \ {0}
  /\ DOMAIN options = DOMAIN DefaultOptions
  /\ \A name \in Kept : SetAsRead(name)
  /\ \A i \in DOMAIN argv : i < index /\ argv[i].text \in HelpFlags => options.help

OptionsInv ==
  /\ phase = "arguments" => ArgumentsInv
  /\ OptionsAreHonoured

LEMMA ListFacts ==
  ASSUME argv \in Arguments
  PROVE  /\ Len(argv) \in Nat /\ DOMAIN argv = 1 .. Len(argv)
         /\ \A i \in DOMAIN argv : argv[i].text \in HelpFlags \cup DOMAIN FormatFlags
                                     => argv[i].name \notin Kept
         /\ \A i \in DOMAIN argv : ~ argv[i].dashed => argv[i].name \notin Kept /\ argv[i].text \notin HelpFlags
<1>1. argv \in Seq({argv[i] : i \in DOMAIN argv})
  BY ArgumentsAssumption
<1>2. Kept \subseteq DOMAIN ValueOptions
  BY DEF Kept, ValueOptions
<1>3. Kept \cap (HelpFlags \cup DOMAIN FormatFlags) = {}
  BY DEF Kept, HelpFlags, FormatFlags
<1> QED BY <1>1, <1>2, <1>3, ArgumentsAssumption

LEMMA InitOptions == Init => OptionsInv
<1> SUFFICES ASSUME Init PROVE ArgumentsInv
  BY DEF Init, OptionsInv, OptionsAreHonoured
<1>1. /\ argv \in Arguments /\ index \in Nat \ {0} /\ options = DefaultOptions
      /\ \A i \in DOMAIN argv : i < index => i = 1 /\ argv[1].text = "check"
  <2>1. /\ argv \in Arguments /\ options = DefaultOptions
        /\ index = IF argv # <<>> /\ argv[1].text = "check" THEN 2 ELSE 1
    BY DEF Init
  <2>2. \A i \in DOMAIN argv : i \in Nat /\ i >= 1
    BY <2>1, ListFacts
  <2>3. CASE argv # <<>> /\ argv[1].text = "check"
    BY <2>1, <2>2, <2>3
  <2>4. CASE ~ (argv # <<>> /\ argv[1].text = "check")
    BY <2>1, <2>2, <2>4
  <2> QED BY <2>1, <2>3, <2>4
<1>2. \A i \in DOMAIN argv : i < index => argv[i].name \notin Kept /\ argv[i].text \notin HelpFlags
  BY <1>1, ListFacts, ArgumentsAssumption
<1> QED BY <1>1, <1>2 DEF ArgumentsInv, SetAsRead, Unused

\* Where each option is kept.
LEMMA Fields ==
  /\ ValueOptions["--root"] = "root" /\ ValueOptions["--output"] = "output"
  /\ ValueOptions["--openapi"] = "openApi" /\ ValueOptions["--service"] = "serviceId"
  /\ ValueOptions["--format"] = "format"
  /\ DOMAIN ValueOptions = Kept \cup {"--format"}
  /\ DOMAIN DefaultOptions = {"root", "format", "output", "openApi", "serviceId", "help"}
  BY DEF ValueOptions, Kept, DefaultOptions

LEMMA TakeArgumentKeeps ==
  ASSUME ArgumentsInv, TakeArgument PROVE ArgumentsInv'
<1> DEFINE token == argv[index]
           value == GivenValue(argv, index)
<1>1. /\ argv \in Arguments /\ argv' = argv /\ index \in DOMAIN argv /\ index \in Nat
      /\ ~ Refused(token, value)
      /\ index' = index + Step(token) /\ index' \in Nat \ {0}
  BY ListFacts DEF ArgumentsInv, TakeArgument, Step
<1>2. \A i \in DOMAIN argv : i < index' <=> i < index \/ i = index \/ (Step(token) = 2 /\ i = index + 1)
  BY <1>1, ListFacts DEF Step
<1>3. Step(token) = 2 => index + 1 \in DOMAIN argv /\ ~ argv[index + 1].dashed
  <2> SUFFICES ASSUME Step(token) = 2 PROVE index + 1 \in DOMAIN argv /\ ~ argv[index + 1].dashed
    OBVIOUS
  <2>1. token.name \in DOMAIN ValueOptions /\ token.value = Null
    BY DEF Step
  <2>2. token.text \notin HelpFlags
    <3>1. token.text \in HelpFlags => token.name \in HelpFlags
      BY <1>1, ArgumentsAssumption
    <3> QED BY <2>1, <3>1, Fields DEF HelpFlags, Kept
  <2>3. value # Null
    BY <1>1, <2>1, <2>2 DEF Refused
  <2> QED BY <1>1, <2>1, <2>3, ListFacts DEF GivenValue
\* The value of an option is no use of another one.
<1>4. \A i \in DOMAIN argv : i < index' => i < index \/ i = index
                                            \/ (argv[i].name \notin Kept /\ argv[i].text \notin HelpFlags)
  BY <1>1, <1>2, <1>3, ListFacts
<1>5. DOMAIN options' = DOMAIN DefaultOptions
  BY DEF ArgumentsInv, TakeArgument
<1>6. ASSUME NEW name \in Kept PROVE SetAsRead(name)'
  <2> DEFINE field == ValueOptions[name]
  <2>1. CASE token.name = name
    <3>1. options'[field] = value /\ value # Null
      BY <1>1, <1>6, <2>1, ListFacts, Fields DEF ArgumentsInv, TakeArgument, Refused, Kept
    <3>2. ASSUME NEW i \in DOMAIN argv, i = index PROVE LastBefore(name, i)'
      BY <1>1, <1>2, <1>4, <1>6, <2>1, <3>2, ListFacts DEF LastBefore
    <3>3. PICK i \in DOMAIN argv : i = index
      BY <1>1
    <3>4. options'[field] = GivenValue(argv, i) /\ options'[field] # Null
      BY <3>1, <3>3
    <3> QED BY <1>1, <3>2, <3>3, <3>4 DEF SetAsRead, GivenValue
  <2>2. CASE token.name # name
    <3>1. options'[field] = options[field]
      BY <1>1, <1>6, <2>2, Fields DEF ArgumentsInv, TakeArgument, Refused, Kept
    <3>2. CASE Unused(name) /\ options[field] = DefaultOptions[field]
      BY <1>1, <1>4, <1>6, <2>2, <3>1, <3>2 DEF SetAsRead, Unused
    <3>3. ASSUME NEW i \in DOMAIN argv, LastBefore(name, i) PROVE LastBefore(name, i)'
      BY <1>1, <1>2, <1>4, <1>6, <2>2, <3>3, ListFacts DEF LastBefore
    <3> QED BY <1>1, <3>1, <3>2, <3>3 DEF ArgumentsInv, SetAsRead, GivenValue
  <2> QED BY <2>1, <2>2
<1>7. ASSUME NEW i \in DOMAIN argv, i < index', argv[i].text \in HelpFlags PROVE options'.help
  <2>1. CASE i = index
    BY <1>1, <1>7, <2>1 DEF ArgumentsInv, TakeArgument, DefaultOptions
  <2>2. CASE i # index
    <3>1. options.help
      BY <1>4, <1>7, <2>2 DEF ArgumentsInv
    <3> QED BY <1>1, <3>1, Fields DEF ArgumentsInv, TakeArgument, Refused, Kept
  <2> QED BY <2>1, <2>2
<1> QED BY <1>1, <1>5, <1>6, <1>7 DEF ArgumentsInv

LEMMA EndArgumentsKeeps ==
  ASSUME ArgumentsInv, EndArguments PROVE OptionsAreHonoured'
<1> SUFFICES ASSUME phase' \notin {"arguments", "exited"} PROVE OptionsAreHonoured'
  BY DEF OptionsAreHonoured
<1>1. /\ argv' = argv /\ options' = options /\ argv \in Arguments
      /\ ~ options.help /\ ~ (options.serviceId # Null /\ options.openApi = Null)
  BY DEF ArgumentsInv, EndArguments, Exit, UsageError, arguments
<1>2. \A i \in DOMAIN argv : i < index
  BY <1>1, ListFacts DEF ArgumentsInv, EndArguments
<1>3. \A i \in DOMAIN argv : argv[i].text \notin HelpFlags
  BY <1>1, <1>2 DEF ArgumentsInv
<1>4. ASSUME NEW name \in Kept
      PROVE  \/ LastGiven(name) = Null /\ options[ValueOptions[name]] = DefaultOptions[ValueOptions[name]]
             \/ LastGiven(name) # Null /\ options[ValueOptions[name]] = LastGiven(name)
  <2> DEFINE uses == {i \in DOMAIN argv : argv[i].name = name}
  <2>1. CASE Unused(name) /\ options[ValueOptions[name]] = DefaultOptions[ValueOptions[name]]
    <3>1. uses = {}
      BY <1>2, <2>1 DEF Unused
    <3> QED BY <2>1, <3>1 DEF LastGiven
  <2>2. ASSUME NEW i \in DOMAIN argv, LastBefore(name, i),
               options[ValueOptions[name]] = GivenValue(argv, i), options[ValueOptions[name]] # Null
        PROVE  LastGiven(name) # Null /\ options[ValueOptions[name]] = LastGiven(name)
    <3>1. i \in uses /\ \A j \in uses : j <= i
      BY <1>2, <2>2 DEF LastBefore
    <3>2. \A k \in uses : (\A j \in uses : j <= k) => k = i
      BY <1>1, <3>1, ListFacts
    <3>3. (CHOOSE k \in uses : \A j \in uses : j <= k) = i
      BY <3>1, <3>2
    <3> QED BY <2>2, <3>1, <3>3 DEF LastGiven
  <2> QED BY <2>1, <2>2 DEF ArgumentsInv, SetAsRead
<1>5. \A name \in {"--output", "--openapi", "--service"} : options[ValueOptions[name]] = LastGiven(name)
  BY <1>4, Fields DEF Kept, DefaultOptions
<1>6. LastGiven("--root") \in {Null, options.root}
  BY <1>4, Fields DEF Kept
<1>7. LastGiven("--service") # Null => LastGiven("--openapi") # Null
  BY <1>1, <1>5, Fields
<1>8. \A name : LastGiven(name)' = LastGiven(name)
  BY <1>1 DEF LastGiven, GivenValue
<1> QED BY <1>1, <1>3, <1>5, <1>6, <1>7, <1>8 DEF OptionsAreHonoured

\* Nothing after the arguments changes them.
LEMMA LaterKeepOptions ==
  ASSUME OptionsInv, UNCHANGED <<argv, options>>, phase \in {"arguments", "exited"} => phase' = "exited",
         phase' # "arguments"
  PROVE  OptionsInv'
<1>1. \A name : LastGiven(name)' = LastGiven(name)
  BY DEF LastGiven, GivenValue
<1> QED BY <1>1 DEF OptionsInv, OptionsAreHonoured

LEMMA StepOptions == OptionsInv /\ [Next]_vars => OptionsInv'
<1> SUFFICES ASSUME OptionsInv, [Next]_vars PROVE OptionsInv'
  OBVIOUS
<1>1. CASE TakeArgument
  <2>1. ArgumentsInv' /\ phase' = "arguments"
    BY <1>1, TakeArgumentKeeps DEF OptionsInv, TakeArgument
  <2> QED BY <2>1 DEF OptionsInv, OptionsAreHonoured
<1>2. CASE RefuseArgument
  BY <1>2, LaterKeepOptions DEF RefuseArgument, UsageError, Exit, arguments
<1>3. CASE EndArguments
  BY <1>3, EndArgumentsKeeps DEF OptionsInv, EndArguments, Exit, UsageError
<1>4. CASE Load \/ LoadCodes \/ CompareDocument \/ Report \/ Write \/ Edit
  BY <1>4, LaterKeepOptions
  DEF Load, LoadCodes, LoadFails, CompareDocument, Report, Write, Edit, Exit, arguments
<1>5. CASE UNCHANGED vars
  BY <1>5 DEF vars, OptionsInv, OptionsAreHonoured, ArgumentsInv, SetAsRead, Unused, LastBefore,
              LastGiven, GivenValue
<1> QED BY <1>1, <1>2, <1>3, <1>4, <1>5 DEF Next, Check

\* cli.ts:124: what a check works with is what the caller asked for, for any
\* list of arguments.
THEOREM OptionsHold == Spec => []OptionsAreHonoured
<1>1. OptionsInv => OptionsAreHonoured
  BY DEF OptionsInv
<1> QED BY <1>1, InitOptions, StepOptions, PTL DEF Spec

-----------------------------------------------------------------------------
(* The error codes *)

\* Of the numbers with a property, one is least.
LessPairs == {pair \in Nat \X Nat : pair[1] < pair[2]}

LEMMA LeastNumber ==
  ASSUME NEW S \in SUBSET Nat, S # {}
  PROVE  \E least \in S : \A n \in S : least <= n
<1>1. LessPairs = OpToRel(<, Nat)
  BY DEF LessPairs, OpToRel
<1>2. PICK least \in S : \A n \in S : <<n, least>> \notin LessPairs
  BY <1>1, WFMin, NatLessThanWellFounded
<1>3. ASSUME NEW n \in S PROVE least <= n
  <2>1. <<n, least>> \in Nat \X Nat /\ ~ (n < least)
    BY <1>2 DEF LessPairs
  <2> QED BY <2>1
<1> QED BY <1>3

LEMMA OrderIsStrict ==
  /\ \A code : ~ SortsBefore(code, code)
  /\ \A a, b, c : SortsBefore(a, b) /\ SortsBefore(b, c) => SortsBefore(a, c)
<1>1. /\ CodeOrder \in Seq({CodeOrder[i] : i \in DOMAIN CodeOrder})
      /\ \A i, j \in DOMAIN CodeOrder : CodeOrder[i] = CodeOrder[j] => i = j
  BY CodeOrderAssumption
<1>2. DOMAIN CodeOrder \subseteq Nat
  BY <1>1
<1> QED BY <1>1, <1>2 DEF SortsBefore

\* The catalog looks at neighbours; that orders any two entries.
LEMMA NeighboursOrderAll ==
  ASSUME NEW entries, NEW N \in Nat, DOMAIN entries = 1 .. N,
         \A n \in DOMAIN entries : n > 1 => SortsBefore(entries[n - 1].code, entries[n].code)
  PROVE  \A m, n \in DOMAIN entries : m < n => SortsBefore(entries[m].code, entries[n].code)
<1> SUFFICES ASSUME NEW m \in 1 .. N,
                    {n \in m + 1 .. N : ~ SortsBefore(entries[m].code, entries[n].code)} # {}
             PROVE  FALSE
  OBVIOUS
<1> DEFINE Broken == {n \in m + 1 .. N : ~ SortsBefore(entries[m].code, entries[n].code)}
<1>1. PICK least \in Broken : \A n \in Broken : least <= n
  <2>1. Broken \in SUBSET Nat /\ Broken # {}
    OBVIOUS
  <2> HIDE DEF Broken
  <2> QED BY <2>1, LeastNumber
<1>2. SortsBefore(entries[least - 1].code, entries[least].code)
  <2>1. least \in DOMAIN entries /\ least > 1
    BY <1>1
  <2> QED BY <2>1
<1>3. CASE least = m + 1
  BY <1>1, <1>2, <1>3
<1>4. CASE least # m + 1
  <2>1. least - 1 \in m + 1 .. N /\ least - 1 \notin Broken
    BY <1>1, <1>4
  <2> QED BY <1>1, <1>2, <2>1, OrderIsStrict
<1> QED BY <1>3, <1>4

\* A parsed catalog and the codes of a route, as far as the rules read them.
CatalogTyped(catalog) ==
  /\ \E N \in Nat : DOMAIN catalog.entries = 1 .. N
  /\ \A n \in DOMAIN catalog.entries : catalog.entries[n].status \in Int

RoutesTyped(routes) ==
  \A r \in DOMAIN routes :
    /\ routes[r].operationId # Null
    /\ \E N \in Nat : DOMAIN routes[r].errorCodes = 1 .. N

HeaderAgrees(catalog) ==
  /\ catalog.version = 1 /\ catalog.status = "active" /\ catalog.prefix = Prefix
  /\ catalog.lifecycle \in Lifecycles

EntryAgrees(catalog, n, services) ==
  LET e == catalog.entries[n] IN
  /\ e.code \in ValidCodes /\ e.status \div 100 \in {4, 5}
  /\ e.key = <<Prefix, e.code>>
  /\ e.owner = Shared \/ e.owner \in ValidOwners \cap services
  /\ e.lifecycle \in Lifecycles

Ordered(catalog) ==
  \A m, n \in DOMAIN catalog.entries :
    m < n => SortsBefore(catalog.entries[m].code, catalog.entries[n].code)

\* The k-th code of a route is announced once, registered, in force and its own.
ReferenceAgrees(catalog, route, k) ==
  /\ \A j \in DOMAIN route.errorCodes : route.errorCodes[j] = route.errorCodes[k] => j >= k
  /\ \E n \in DOMAIN catalog.entries :
       LET e == catalog.entries[n] IN
       /\ e.code = route.errorCodes[k] /\ e.lifecycle # "retired"
       /\ e.owner \in {Shared, route.service}

LEMMA HeaderExact ==
  ASSUME NEW catalog PROVE HeaderDiagnostics(catalog) = {} <=> HeaderAgrees(catalog)
  BY DEF HeaderDiagnostics, HeaderAgrees

LEMMA StatusRange == \A s \in Int : s \in 400 .. 599 <=> s \div 100 \in {4, 5}
  OBVIOUS

LEMMA EntryExact ==
  ASSUME NEW catalog, CatalogTyped(catalog), NEW n \in DOMAIN catalog.entries, NEW services
  PROVE  /\ EntryDiagnostics(catalog, n, services) = {} =>
              /\ EntryAgrees(catalog, n, services)
              /\ n > 1 => SortsBefore(catalog.entries[n - 1].code, catalog.entries[n].code)
         /\ EntryAgrees(catalog, n, services) /\ Ordered(catalog) =>
              EntryDiagnostics(catalog, n, services) = {}
<1> DEFINE e == catalog.entries[n]
<1>1. e.status \in 400 .. 599 <=> e.status \div 100 \in {4, 5}
  BY StatusRange DEF CatalogTyped
<1>2. e.owner = Shared \/ e.owner \in ValidOwners \cap services <=>
        /\ e.owner \in ValidOwners \cup {Shared}
        /\ e.owner \notin ValidOwners \ ({Shared} \cup services)
  OBVIOUS
<1>3. ASSUME EntryDiagnostics(catalog, n, services) = {}
      PROVE  /\ EntryAgrees(catalog, n, services)
             /\ n > 1 => SortsBefore(catalog.entries[n - 1].code, catalog.entries[n].code)
  BY <1>1, <1>2, <1>3 DEF EntryDiagnostics, EntryAgrees
<1>4. ASSUME EntryAgrees(catalog, n, services), Ordered(catalog)
      PROVE  EntryDiagnostics(catalog, n, services) = {}
  <2>1. n > 1 => SortsBefore(catalog.entries[n - 1].code, e.code)
    BY <1>4 DEF CatalogTyped, Ordered
  <2>2. \A m \in 1 .. n - 1 : catalog.entries[m].code # e.code
    BY <1>4, OrderIsStrict DEF CatalogTyped, Ordered
  <2> QED BY <1>1, <1>2, <1>4, <2>1, <2>2 DEF EntryDiagnostics, EntryAgrees
<1> QED BY <1>3, <1>4

\* In an ordered catalog the entry of a code is its only one.
LEMMA ReferenceExact ==
  ASSUME NEW catalog, CatalogTyped(catalog), Ordered(catalog),
         NEW route, NEW N \in Nat, DOMAIN route.errorCodes = 1 .. N, NEW k \in 1 .. N
  PROVE  ReferenceDiagnostics(catalog, route, k) = {} <=> ReferenceAgrees(catalog, route, k)
<1> DEFINE code == route.errorCodes[k]
           Wrong(n) == {c \in {"ROUTE_OWNER_MISMATCH"} :
                          catalog.entries[n].owner \notin {Shared, route.service}}
                       \cup {c \in {"ROUTE_RETIRED"} : catalog.entries[n].lifecycle = "retired"}
           repeated == \E j \in 1 .. k - 1 : route.errorCodes[j] = code
<1>1. repeated <=> ~ \A j \in DOMAIN route.errorCodes : route.errorCodes[j] = code => j >= k
  OBVIOUS
<1>2. \A m, n \in DOMAIN catalog.entries : catalog.entries[m].code = catalog.entries[n].code => m = n
  BY OrderIsStrict DEF CatalogTyped, Ordered
<1>3. EntriesOf(catalog, code) = {n \in DOMAIN catalog.entries : catalog.entries[n].code = code}
  <2>1. ASSUME NEW n \in DOMAIN catalog.entries, NEW m \in 1 .. n - 1
        PROVE  m \in DOMAIN catalog.entries /\ m # n
    BY DEF CatalogTyped
  <2> QED BY <1>2, <2>1 DEF EntriesOf
<1>4. \A n : Wrong(n) = {} <=> /\ catalog.entries[n].owner \in {Shared, route.service}
                               /\ catalog.entries[n].lifecycle # "retired"
  OBVIOUS
<1>5. CASE repeated
  BY <1>1, <1>5 DEF ReferenceDiagnostics, ReferenceAgrees
<1>6. CASE ~ repeated /\ EntriesOf(catalog, code) = {}
  BY <1>1, <1>3, <1>6 DEF ReferenceDiagnostics, ReferenceAgrees
<1>7. CASE ~ repeated /\ EntriesOf(catalog, code) # {}
  <2>1. PICK n \in DOMAIN catalog.entries : EntriesOf(catalog, code) = {n} /\ catalog.entries[n].code = code
    BY <1>2, <1>3, <1>7
  <2>2. ReferenceDiagnostics(catalog, route, k) = UNION {Wrong(i) : i \in EntriesOf(catalog, code)}
    BY <1>7 DEF ReferenceDiagnostics
  <2>3. ReferenceDiagnostics(catalog, route, k) = Wrong(n)
    BY <2>1, <2>2
  <2>4. ReferenceAgrees(catalog, route, k) <=>
          catalog.entries[n].owner \in {Shared, route.service} /\ catalog.entries[n].lifecycle # "retired"
    BY <1>1, <1>2, <1>7, <2>1 DEF ReferenceAgrees
  <2> QED BY <1>4, <2>3, <2>4
<1> QED BY <1>5, <1>6, <1>7

LEMMA AgreementInParts ==
  ASSUME NEW catalog, CatalogTyped(catalog), NEW routes, RoutesTyped(routes)
  PROVE  CodesAgree(catalog, routes) <=>
           /\ HeaderAgrees(catalog)
           /\ Ordered(catalog)
           /\ \A n \in DOMAIN catalog.entries : EntryAgrees(catalog, n, Services(routes))
           /\ \A r \in DOMAIN routes : \A k \in DOMAIN routes[r].errorCodes :
                ReferenceAgrees(catalog, routes[r], k)
<1> DEFINE entries == {catalog.entries[n] : n \in DOMAIN catalog.entries}
           Announced(r, k) ==
             /\ \A j \in DOMAIN routes[r].errorCodes :
                  routes[r].errorCodes[j] = routes[r].errorCodes[k] => j = k
             /\ \E e \in entries : /\ e.code = routes[r].errorCodes[k] /\ e.lifecycle # "retired"
                                   /\ e.owner \in {Shared, routes[r].service}
           Sound(e) == /\ e.code \in ValidCodes /\ e.status \div 100 \in {4, 5}
                       /\ e.key = <<catalog.prefix, e.code>>
                       /\ e.owner = Shared \/ e.owner \in ValidOwners \cap Services(routes)
<1>1. ASSUME NEW r \in DOMAIN routes
      PROVE  (\A k \in DOMAIN routes[r].errorCodes : Announced(r, k))
               <=> \A k \in DOMAIN routes[r].errorCodes : ReferenceAgrees(catalog, routes[r], k)
  <2>1. DOMAIN routes[r].errorCodes \subseteq Nat
    BY DEF RoutesTyped
  <2>2. ASSUME NEW k \in DOMAIN routes[r].errorCodes, Announced(r, k)
        PROVE  ReferenceAgrees(catalog, routes[r], k)
    BY <2>1, <2>2 DEF ReferenceAgrees
  <2>3. ASSUME \A k \in DOMAIN routes[r].errorCodes : ReferenceAgrees(catalog, routes[r], k),
               NEW k \in DOMAIN routes[r].errorCodes
        PROVE  Announced(r, k)
    <3>1. \A j \in DOMAIN routes[r].errorCodes :
            routes[r].errorCodes[j] = routes[r].errorCodes[k] => j >= k /\ k >= j
      BY <2>3 DEF ReferenceAgrees
    <3> QED BY <2>1, <2>3, <3>1 DEF ReferenceAgrees
  <2> QED BY <2>2, <2>3
<1>2. CodesAgree(catalog, routes) <=>
        /\ catalog.version = 1 /\ catalog.status = "active" /\ catalog.prefix = Prefix
        /\ Ordered(catalog)
        /\ \A e \in entries : Sound(e)
        /\ {catalog.lifecycle} \cup {e.lifecycle : e \in entries} \subseteq Lifecycles
        /\ \A r \in DOMAIN routes : \A k \in DOMAIN routes[r].errorCodes : Announced(r, k)
  BY DEF CodesAgree, Ordered
<1>3. {catalog.lifecycle} \cup {e.lifecycle : e \in entries} \subseteq Lifecycles
        <=> catalog.lifecycle \in Lifecycles /\ \A n \in DOMAIN catalog.entries :
                                                  catalog.entries[n].lifecycle \in Lifecycles
  OBVIOUS
<1>4. catalog.prefix = Prefix =>
        ((\A e \in entries : Sound(e)) /\ (\A n \in DOMAIN catalog.entries :
                                             catalog.entries[n].lifecycle \in Lifecycles)
           <=> \A n \in DOMAIN catalog.entries : EntryAgrees(catalog, n, Services(routes)))
  BY DEF EntryAgrees
<1> HIDE DEF entries, Announced, Sound
<1> QED BY <1>1, <1>2, <1>3, <1>4 DEF HeaderAgrees

LEMMA CodesExact ==
  ASSUME NEW catalog, CatalogTyped(catalog), NEW routes, RoutesTyped(routes)
  PROVE  CodeDiagnostics(catalog, routes) = {} <=> CodesAgree(catalog, routes)
<1>1. CodeDiagnostics(catalog, routes) = {} <=>
        /\ HeaderDiagnostics(catalog) = {}
        /\ \A n \in DOMAIN catalog.entries : EntryDiagnostics(catalog, n, Services(routes)) = {}
        /\ \A r \in DOMAIN routes : \A k \in DOMAIN routes[r].errorCodes :
             ReferenceDiagnostics(catalog, routes[r], k) = {}
  BY DEF CodeDiagnostics
<1>2. (\A n \in DOMAIN catalog.entries : EntryDiagnostics(catalog, n, Services(routes)) = {}) <=>
        Ordered(catalog) /\ \A n \in DOMAIN catalog.entries : EntryAgrees(catalog, n, Services(routes))
  <2>1. ASSUME \A n \in DOMAIN catalog.entries : EntryDiagnostics(catalog, n, Services(routes)) = {}
        PROVE  Ordered(catalog)
    <3>1. PICK N \in Nat : DOMAIN catalog.entries = 1 .. N
      BY DEF CatalogTyped
    <3>2. \A n \in DOMAIN catalog.entries :
            n > 1 => SortsBefore(catalog.entries[n - 1].code, catalog.entries[n].code)
      BY <2>1, EntryExact
    <3> QED BY <3>1, <3>2, NeighboursOrderAll DEF Ordered
  <2> QED BY <2>1, EntryExact
<1>3. Ordered(catalog) =>
        \A r \in DOMAIN routes : \A k \in DOMAIN routes[r].errorCodes :
          ReferenceDiagnostics(catalog, routes[r], k) = {} <=> ReferenceAgrees(catalog, routes[r], k)
  BY ReferenceExact DEF RoutesTyped
<1> QED BY <1>1, <1>2, <1>3, HeaderExact, AgreementInParts

-----------------------------------------------------------------------------
(* The document *)

OperationClean(o) ==
  /\ o # Null /\ ~ o.ref /\ o.responses # Null /\ ~ o.responses.range
  /\ \A s \in DOMAIN o.responses.given \cap Success : o.responses.given[s]

PathClean(document, path) ==
  LET item == document.paths[path] IN
  /\ path \notin RelativePaths /\ item # Null /\ ~ item.ref
  /\ \A m \in OperationKeys(item) : OperationClean(item.operations[m])

LEMMA OperationExact == ASSUME NEW o PROVE OperationDiagnostics(o) = {} <=> OperationClean(o)
<1>1. CASE o = Null
  BY <1>1 DEF OperationDiagnostics, OperationClean
<1>2. CASE o # Null /\ o.responses = Null
  BY <1>2 DEF OperationDiagnostics, ResponseDiagnostics, OperationClean
<1>3. CASE o # Null /\ o.responses # Null
  <2> DEFINE given == o.responses.given
  <2>1. ResponseDiagnostics(o.responses) = {} <=>
          ~ o.responses.range /\ ~ \E s \in DOMAIN given \cap Success : ~ given[s]
    BY <1>3 DEF ResponseDiagnostics
  <2>2. OperationDiagnostics(o) = {} <=> ~ o.ref /\ ResponseDiagnostics(o.responses) = {}
    BY <1>3 DEF OperationDiagnostics
  <2> QED BY <1>3, <2>1, <2>2 DEF OperationClean
<1> QED BY <1>1, <1>2, <1>3

LEMMA PathExact ==
  ASSUME NEW document, NEW path
  PROVE  PathDiagnostics(document, path) = {} <=> PathClean(document, path)
<1> DEFINE item == document.paths[path]
<1>1. CASE item = Null
  BY <1>1 DEF PathDiagnostics, PathClean
<1>2. CASE item # Null
  <2>1. PathDiagnostics(document, path) = {} <=>
          /\ path \notin RelativePaths /\ ~ item.ref
          /\ \A m \in OperationKeys(item) : OperationDiagnostics(item.operations[m]) = {}
    BY <1>2 DEF PathDiagnostics
  <2> QED BY <1>2, <2>1, OperationExact DEF PathClean
<1> QED BY <1>1, <1>2

\* The service a document is compared for, if it names only one.
LEMMA ServiceExact ==
  ASSUME NEW document, NEW requested
  PROVE  LET named == ({requested} \cup {document.root, document.info}) \ {Null} IN
         /\ ServiceDiagnostics(document, requested) = {} <=> \E service : named = {service}
         /\ \A service : named = {service} => service = ServiceOf(document, requested) /\ service # Null
<1> DEFINE named == ({requested} \cup {document.root, document.info}) \ {Null}
<1>1. ServiceDiagnostics(document, requested) = {} <=>
        /\ document.root = Null \/ document.info = Null \/ document.root = document.info
        /\ ServiceOf(document, requested) # Null
        /\ requested = Null \/ Declared(document) = Null \/ requested = Declared(document)
  BY DEF ServiceDiagnostics
<1>2. ASSUME ServiceDiagnostics(document, requested) = {} PROVE named = {ServiceOf(document, requested)}
  BY <1>1, <1>2 DEF ServiceOf, Declared
<1>3. ASSUME NEW service, named = {service}
      PROVE  /\ ServiceDiagnostics(document, requested) = {}
             /\ service = ServiceOf(document, requested) /\ service # Null
  <2>1. service # Null /\ {requested, document.root, document.info} \subseteq {Null, service}
    BY <1>3
  <2>2. requested = service \/ document.root = service \/ document.info = service
    BY <1>3
  <2> HIDE DEF named
  <2> QED BY <1>1, <2>1, <2>2 DEF ServiceOf, Declared
<1> QED BY <1>2, <1>3

\* The routes of a service, and what tells a route and an operation apart.
Own(routes, service) == {routes[n] : n \in {n \in DOMAIN routes : routes[n].service = service}}

RouteSignature(route) == <<route.method, RoutePath(route), route.operationId, route.statuses>>
Signature(o)          == <<o.method, o.path, o.id, o.statuses>>

Same(operations, own) == {Signature(o) : o \in operations} = {RouteSignature(r) : r \in own}

LEMMA PairExact ==
  ASSUME NEW o, NEW route, o.id # Null, Answers(o, route)
  PROVE  PairDiagnostics(o, route) = {} <=> Signature(o) = RouteSignature(route)
<1>1. PairDiagnostics(o, route) = {} <=>
        /\ o.id = route.operationId
        /\ route.statuses \ o.statuses = {} /\ o.statuses \ route.statuses = {}
  BY DEF PairDiagnostics
<1>2. route.statuses \ o.statuses = {} /\ o.statuses \ route.statuses = {} <=> o.statuses = route.statuses
  OBVIOUS
<1> QED BY <1>1, <1>2 DEF Answers, Signature, RouteSignature

\* Comparing routes and operations one by one, in both directions, is comparing
\* two sets of signatures.
LEMMA RoutesExact ==
  ASSUME NEW routes, NEW service, NEW operations,
         \A n \in DOMAIN routes : routes[n].operationId # Null,
         Rules!UniqueRouteKeys(routes),
         \A o, p \in operations : Signature(o) = Signature(p) => o = p
  PROVE  IdDiagnostics(operations) = {} /\ RouteDiagnostics(service, routes, operations) = {} <=>
           service \in Services(routes) /\ Same(operations, Own(routes, service))
<1> DEFINE own == Own(routes, service)
           identified == /\ \A o \in operations : o.id # Null
                         /\ \A o, p \in operations : o.id = p.id => o = p
           paired == /\ \A r \in own : \E o \in operations : Answers(o, r)
                     /\ \A o \in operations : \E r \in own : Answers(o, r)
                     /\ \A r \in own : \A o \in operations : Answers(o, r) => PairDiagnostics(o, r) = {}
<1>1. own = {} <=> service \notin Services(routes)
  BY DEF Own, Services
<1>2. IdDiagnostics(operations) = {} <=> identified
  <2>1. IdDiagnostics(operations) = {} <=>
          /\ ~ \E o \in operations : o.id = Null
          /\ ~ \E o, p \in operations : o # p /\ o.id # Null /\ o.id = p.id
    BY DEF IdDiagnostics
  <2> QED BY <2>1
<1>3. RouteDiagnostics(service, routes, operations) = {} <=> own # {} /\ paired
  <2>1. CASE own = {}
    BY <2>1 DEF RouteDiagnostics, Own
  <2>2. CASE own # {}
    <3> DEFINE missing    == {c \in {"OPERATION_MISSING"} :
                                \E r \in own : \A o \in operations : ~ Answers(o, r)}
               pairs      == UNION {UNION {PairDiagnostics(o, r) : o \in {o \in operations : Answers(o, r)}} :
                                      r \in own}
               undeclared == {c \in {"ROUTE_UNDECLARED"} :
                                \E o \in operations : \A r \in own : ~ Answers(o, r)}
    <3>1. RouteDiagnostics(service, routes, operations) = missing \cup pairs \cup undeclared
      BY <2>2 DEF RouteDiagnostics, Own
    <3>2. missing = {} <=> \A r \in own : \E o \in operations : Answers(o, r)
      OBVIOUS
    <3>3. undeclared = {} <=> \A o \in operations : \E r \in own : Answers(o, r)
      OBVIOUS
    <3>4. pairs = {} <=> \A r \in own : \A o \in operations : Answers(o, r) => PairDiagnostics(o, r) = {}
      OBVIOUS
    <3> HIDE DEF missing, pairs, undeclared, own
    <3> QED BY <2>2, <3>1, <3>2, <3>3, <3>4
  <2> QED BY <2>1, <2>2
\* Two routes of one place, or of one operation id, are one route.
<1>4. ASSUME NEW r \in own, NEW s \in own,
             r.operationId = s.operationId \/ (r.method = s.method /\ RoutePath(r) = RoutePath(s))
      PROVE  r = s
  BY <1>4 DEF Own, Rules!UniqueRouteKeys, Rules!Path, RoutePath
<1>5. \A r \in own : r.operationId # Null
  BY DEF Own
<1> HIDE DEF own
<1>6. ASSUME identified, paired PROVE Same(operations, own)
  <2>1. ASSUME NEW r \in own PROVE \E o \in operations : Signature(o) = RouteSignature(r)
    BY <1>6, <2>1, PairExact
  <2>2. ASSUME NEW o \in operations PROVE \E r \in own : Signature(o) = RouteSignature(r)
    BY <1>6, <2>2, PairExact
  <2> QED BY <2>1, <2>2 DEF Same
<1>7. ASSUME Same(operations, own) PROVE identified /\ paired
  <2>1. \A r \in own : \E o \in operations : Signature(o) = RouteSignature(r)
    BY <1>7 DEF Same
  <2>2. \A o \in operations : \E r \in own : Signature(o) = RouteSignature(r)
    BY <1>7 DEF Same
  <2>3. \A o, r : Signature(o) = RouteSignature(r) =>
          /\ Answers(o, r) /\ o.id = r.operationId
    BY DEF Signature, RouteSignature, Answers
  <2>4. \A o \in operations : o.id # Null
    BY <1>5, <2>2, <2>3
  <2>5. ASSUME NEW o \in operations, NEW p \in operations, o.id = p.id PROVE o = p
    <3>1. PICK r \in own : Signature(o) = RouteSignature(r)
      BY <2>2
    <3>2. PICK s \in own : Signature(p) = RouteSignature(s)
      BY <2>2
    <3>3. o.id = r.operationId /\ p.id = s.operationId
      BY <2>3, <3>1, <3>2
    <3>4. r = s
      BY <1>4, <2>5, <3>3
    <3> QED BY <3>1, <3>2, <3>4
  <2>6. ASSUME NEW r \in own, NEW o \in operations, Answers(o, r) PROVE PairDiagnostics(o, r) = {}
    <3>1. PICK s \in own : Signature(o) = RouteSignature(s)
      BY <2>2
    <3>2. s = r
      BY <1>4, <2>3, <2>6, <3>1 DEF Answers
    <3> QED BY <2>4, <2>6, <3>1, <3>2, PairExact
  <2> QED BY <2>1, <2>2, <2>3, <2>4, <2>5, <2>6
<1> QED BY <1>1, <1>2, <1>3, <1>6, <1>7 DEF own

LEMMA OperationsDiffer ==
  ASSUME NEW document
  PROVE  \A o, p \in Operations(document) : Signature(o) = Signature(p) => o = p
<1> DEFINE Read(m, path) == [method |-> m, path |-> path, id |-> document.paths[path].operations[m].id,
                             statuses |-> ReadStatuses(document.paths[path].operations[m].responses)]
<1>1. \A o \in Operations(document) : \E m, path : o = Read(m, path)
  BY DEF Operations
<1>2. ASSUME NEW m, NEW path, NEW k, NEW other, Signature(Read(m, path)) = Signature(Read(k, other))
      PROVE  Read(m, path) = Read(k, other)
  BY <1>2 DEF Signature
<1> QED BY <1>1, <1>2

\* The conjuncts of DocumentAgrees about the paths of a document.
PathsAgree(document) ==
  LET items == {document.paths[path] : path \in DOMAIN document.paths}
      all   == UNION {{item.operations[m] : m \in OperationKeys(item)} : item \in items}
  IN
  /\ DOMAIN document.paths \cap RelativePaths = {}
  /\ Null \notin items /\ \A item \in items : ~ item.ref
  /\ Null \notin all /\ \A o \in all : ~ o.ref /\ o.responses # Null /\ ~ o.responses.range
  /\ \A o \in all : \A s \in DOMAIN o.responses.given \cap Success : o.responses.given[s]

LEMMA PathsExact ==
  ASSUME NEW document
  PROVE  UNION {PathDiagnostics(document, path) : path \in DOMAIN document.paths} = {}
           <=> PathsAgree(document)
<1> DEFINE items == {document.paths[path] : path \in DOMAIN document.paths}
           all   == UNION {{item.operations[m] : m \in OperationKeys(item)} : item \in items}
<1>1. UNION {PathDiagnostics(document, path) : path \in DOMAIN document.paths} = {}
        <=> \A path \in DOMAIN document.paths : PathClean(document, path)
  BY PathExact
<1>2. (\A path \in DOMAIN document.paths : PathClean(document, path)) <=>
        /\ DOMAIN document.paths \cap RelativePaths = {}
        /\ Null \notin items /\ \A item \in items : ~ item.ref
        /\ \A o \in all : OperationClean(o)
  BY DEF PathClean
<1>3. PathsAgree(document) <=>
        /\ DOMAIN document.paths \cap RelativePaths = {}
        /\ Null \notin items /\ \A item \in items : ~ item.ref
        /\ \A o \in all : OperationClean(o)
  <2>1. PathsAgree(document) <=>
          /\ DOMAIN document.paths \cap RelativePaths = {}
          /\ Null \notin items /\ \A item \in items : ~ item.ref
          /\ Null \notin all /\ \A o \in all : ~ o.ref /\ o.responses # Null /\ ~ o.responses.range
          /\ \A o \in all : \A s \in DOMAIN o.responses.given \cap Success : o.responses.given[s]
    BY DEF PathsAgree
  <2> HIDE DEF items, all
  <2> QED BY <2>1 DEF OperationClean
<1> QED BY <1>1, <1>2, <1>3

LEMMA ComparisonExact ==
  ASSUME NEW document, NEW routes, NEW requested,
         \A n \in DOMAIN routes : routes[n].operationId # Null,
         Rules!UniqueRouteKeys(routes)
  PROVE  Comparison(document, routes, requested) = {}
           <=> DocumentAgrees(document, routes, requested)
<1> DEFINE named      == ({requested} \cup {document.root, document.info}) \ {Null}
           service    == ServiceOf(document, requested)
           operations == Operations(document)
           header     == {c \in {"VERSION_UNSUPPORTED"} : ~ document.version}
                         \cup ServiceDiagnostics(document, requested)
           paths      == UNION {PathDiagnostics(document, path) : path \in DOMAIN document.paths}
<1>1. CASE document = Null
  BY <1>1 DEF Comparison, DocumentAgrees
<1>2. CASE document # Null /\ document.paths = Null
  BY <1>2 DEF Comparison, DocumentAgrees
<1>3. CASE document # Null /\ document.paths # Null
  <2>1. Comparison(document, routes, requested) =
          header \cup paths \cup IdDiagnostics(operations)
            \cup IF service = Null THEN {} ELSE RouteDiagnostics(service, routes, operations)
    BY <1>3 DEF Comparison
  <2>2. header = {} <=> document.version /\ ServiceDiagnostics(document, requested) = {}
    OBVIOUS
  <2>3. /\ ServiceDiagnostics(document, requested) = {} <=> \E s : named = {s}
        /\ \A s : named = {s} => s = service /\ service # Null
    BY ServiceExact
  <2>4. paths = {} <=> PathsAgree(document)
    BY PathsExact
  <2>5. IdDiagnostics(operations) = {} /\ RouteDiagnostics(service, routes, operations) = {} <=>
          service \in Services(routes) /\ Same(operations, Own(routes, service))
    BY RoutesExact, OperationsDiffer
  <2>6. DocumentAgrees(document, routes, requested) <=>
          /\ document.version
          /\ PathsAgree(document)
          /\ \E s : named = {s} /\ s \in Services(routes) /\ Same(operations, Own(routes, s))
    <3>1. ASSUME NEW s
          PROVE  Same(operations, Own(routes, s)) <=>
                   {<<o.method, o.path, o.id, o.statuses>> : o \in operations}
                     = {<<routes[n].method, RoutePath(routes[n]), routes[n].operationId, routes[n].statuses>> :
                          n \in {n \in DOMAIN routes : routes[n].service = s}}
      <4>1. {RouteSignature(r) : r \in Own(routes, s)}
              = {<<routes[n].method, RoutePath(routes[n]), routes[n].operationId, routes[n].statuses>> :
                   n \in {n \in DOMAIN routes : routes[n].service = s}}
        BY DEF Own, RouteSignature
      <4> QED BY <4>1 DEF Same, Signature
    <3>2. DocumentAgrees(document, routes, requested) <=>
            /\ document.version
            /\ PathsAgree(document)
            /\ \E s \in named : /\ named = {s} /\ s \in Services(routes)
                                /\ Same(operations, Own(routes, s))
      BY <1>3, <3>1 DEF DocumentAgrees, PathsAgree
    <3> HIDE DEF named, operations
    <3> QED BY <3>2
  <2> HIDE DEF header, paths, service, operations, named
  <2>7. ASSUME header = {} PROVE service # Null
    BY <2>2, <2>3, <2>7
  <2> QED BY <2>1, <2>2, <2>3, <2>4, <2>5, <2>6, <2>7
<1> QED BY <1>1, <1>2, <1>3

-----------------------------------------------------------------------------
(* The verdict *)

\* What a passing check has found, in its two parts.
ContractsAgree ==
  /\ read.contracts # Unreadable /\ ContractsHold(read.contracts)
  /\ read.codes \notin {Unread, Unreadable} /\ CodesParse(read.codes)
  /\ CodesAgree(ParsedCodes(read.codes), read.contracts.routes)

AskedDocumentAgrees ==
  options.openApi # Null =>
    /\ read.document # Unreadable
    /\ DocumentAgrees(read.document, read.contracts.routes, options.serviceId)

Loaded == read.contracts # Unreadable /\ LoadedContracts(read.contracts)

VerdictInv ==
  /\ FilesTyped(disk)
  /\ DOMAIN read = {"contracts", "codes", "document"}
  /\ phase # "exited" => exit = Null
  /\ phase \in {"codes", "openapi"} => Loaded
  /\ phase = "openapi" => options.openApi # Null /\ (validation = {} <=> ContractsAgree)
  /\ phase \in {"report", "write"} \/ (phase = "exited" /\ exit # 2 /\ ~ options.help) =>
       (Ok <=> ContractsAgree /\ AskedDocumentAgrees)

LEMMA InitVerdict == Init => VerdictInv
  BY FilesAssumption DEF Init, VerdictInv

LEMMA ContentLoaded ==
  ASSUME FilesTyped(disk), NEW root
  PROVE  LoadedContracts(Content(disk.contracts, root)) /\ LoadedCodes(Content(disk.codes, root))
<1>1. LoadedContracts(Unreadable) /\ LoadedCodes(Unreadable)
  BY FilesAssumption DEF LoadedContracts, LoadedCodes
<1> QED BY <1>1 DEF FilesTyped, Content

LEMMA LoadVerdict ==
  ASSUME VerdictInv, CheckInv, Load PROVE VerdictInv'
<1> DEFINE contracts == Content(disk.contracts, options.root)
<1>1. /\ phase = "load" /\ exit = Null /\ exit' = Null /\ disk' = disk /\ options' = options
      /\ comparison = {} /\ comparison' = {}
      /\ DOMAIN read' = DOMAIN read /\ read'.contracts = contracts
  BY DEF Load, VerdictInv, CheckInv, FindingsInv, arguments
<1>2. LoadedContracts(contracts)
  BY ContentLoaded DEF VerdictInv
<1>3. CASE contracts = Unreadable
  <2>1. phase' = "report" /\ validation' # {}
    BY <1>3 DEF Load, LoadFails, At
  <2>2. ~ ContractsAgree' /\ ~ Ok'
    BY <1>1, <1>3, <2>1 DEF ContractsAgree, Ok
  <2> QED BY <1>1, <2>1, <2>2 DEF VerdictInv, FilesTyped
<1>4. CASE contracts # Unreadable
  <2>1. phase' = "codes"
    BY <1>4 DEF Load
  <2>2. Loaded'
    BY <1>1, <1>2, <1>4 DEF Loaded
  <2> QED BY <1>1, <2>1, <2>2 DEF VerdictInv, FilesTyped
<1> QED BY <1>3, <1>4

LEMMA CodeFindingsExact ==
  ASSUME NEW contracts, contracts # Unreadable, LoadedContracts(contracts),
         NEW codes, codes # Unreadable, CodesParse(codes), LoadedCodes(codes)
  PROVE  CodeFindings(ParsedCodes(codes), contracts.routes) = {}
           <=> CodesAgree(ParsedCodes(codes), contracts.routes)
<1> DEFINE found == CodeDiagnostics(ParsedCodes(codes), contracts.routes)
<1>1. CodeFindings(ParsedCodes(codes), contracts.routes) = {} <=> found = {}
  BY DEF CodeFindings, At
<1>2. CatalogTyped(ParsedCodes(codes))
  <2>1. /\ codes.entries \in Seq({codes.entries[n] : n \in DOMAIN codes.entries})
        /\ \A n \in DOMAIN codes.entries : codes.entries[n].status \in Int
    BY DEF LoadedCodes
  <2>2. Len(codes.entries) \in Nat /\ DOMAIN codes.entries = 1 .. Len(codes.entries)
    BY <2>1
  <2>3. /\ DOMAIN ParsedCodes(codes).entries = DOMAIN codes.entries
        /\ \A n \in DOMAIN codes.entries :
             ParsedCodes(codes).entries[n].status = codes.entries[n].status
    BY DEF ParsedCodes, ParsedEntry
  <2> QED BY <2>1, <2>2, <2>3 DEF CatalogTyped
<1>3. RoutesTyped(contracts.routes)
  <2>1. ASSUME NEW r \in DOMAIN contracts.routes
        PROVE  LET list == contracts.routes[r].errorCodes IN Len(list) \in Nat /\ DOMAIN list = 1 .. Len(list)
    <3>1. LET list == contracts.routes[r].errorCodes IN list \in Seq({list[k] : k \in DOMAIN list})
      BY DEF LoadedContracts
    <3> QED BY <3>1
  <2> QED BY <2>1 DEF LoadedContracts, RoutesTyped
<1> QED BY <1>1, <1>2, <1>3, CodesExact

LEMMA LoadCodesVerdict ==
  ASSUME VerdictInv, CheckInv, LoadCodes PROVE VerdictInv'
<1> DEFINE codes == Content(disk.codes, options.root)
<1>1. /\ phase = "codes" /\ exit = Null /\ exit' = Null /\ disk' = disk /\ options' = options
      /\ comparison = {} /\ comparison' = {}
      /\ DOMAIN read' = DOMAIN read /\ read'.contracts = read.contracts /\ read'.codes = codes
      /\ Loaded /\ Loaded'
  BY DEF LoadCodes, VerdictInv, CheckInv, FindingsInv, arguments, Loaded
<1>2. LoadedCodes(codes)
  BY ContentLoaded DEF VerdictInv
<1>3. \/ phase' = "openapi" /\ options.openApi # Null
      \/ phase' = "report" /\ (options.openApi = Null \/ validation' # {})
  BY DEF LoadCodes, LoadFails, At
<1>4. validation' = {} <=> ContractsAgree'
  <2>1. CASE codes = Unreadable \/ ~ CodesParse(codes)
    BY <1>1, <2>1 DEF LoadCodes, LoadFails, At, ContractsAgree
  <2>2. CASE codes # Unreadable /\ CodesParse(codes)
    <3>1. validation' = At({c \in {"INVALID"} : ~ ContractsHold(read.contracts)}, CatalogFile)
                        \cup CodeFindings(ParsedCodes(codes), read.contracts.routes)
      BY <2>2 DEF LoadCodes
    <3>2. At({c \in {"INVALID"} : ~ ContractsHold(read.contracts)}, CatalogFile) = {}
            <=> ContractsHold(read.contracts)
      BY DEF At
    <3>3. CodeFindings(ParsedCodes(codes), read.contracts.routes) = {}
            <=> CodesAgree(ParsedCodes(codes), read.contracts.routes)
      BY <1>1, <1>2, <2>2, CodeFindingsExact DEF Loaded
    <3>4. codes # Unread
      BY <1>2 DEF LoadedCodes
    <3> QED BY <1>1, <2>2, <3>1, <3>2, <3>3, <3>4 DEF ContractsAgree, Loaded
  <2> QED BY <2>1, <2>2
<1> QED BY <1>1, <1>3, <1>4 DEF VerdictInv, FilesTyped, Ok, AskedDocumentAgrees

LEMMA CompareVerdict ==
  ASSUME VerdictInv, CompareDocument PROVE VerdictInv'
<1> DEFINE document == Content(disk.documents, options.openApi)
           found    == Comparison(document, read.contracts.routes, options.serviceId)
<1>1. /\ phase = "openapi" /\ phase' = "report" /\ exit = Null /\ exit' = Null
      /\ UNCHANGED <<disk, options, validation>>
      /\ DOMAIN read' = DOMAIN read /\ read'.document = document
      /\ read'.contracts = read.contracts /\ read'.codes = read.codes
      /\ Loaded /\ options.openApi # Null /\ (validation = {} <=> ContractsAgree)
  BY DEF CompareDocument, VerdictInv, arguments
<1>2. comparison' = {} <=> document # Unreadable /\ found = {}
  BY DEF CompareDocument, At
<1>3. ContractsAgree' <=> ContractsAgree
  BY <1>1 DEF ContractsAgree
<1>4. ContractsAgree => (found = {} <=> DocumentAgrees(document, read.contracts.routes, options.serviceId))
  <2> SUFFICES ASSUME ContractsAgree
               PROVE  found = {} <=> DocumentAgrees(document, read.contracts.routes, options.serviceId)
    OBVIOUS
  <2>1. Rules!UniqueRouteKeys(read.contracts.routes)
    BY DEF ContractsAgree, ContractsHold
  <2>2. \A n \in DOMAIN read.contracts.routes : read.contracts.routes[n].operationId # Null
    BY <1>1 DEF Loaded, LoadedContracts
  <2> QED BY <2>1, <2>2, ComparisonExact
<1>5. Ok' <=> ContractsAgree' /\ AskedDocumentAgrees'
  <2> HIDE DEF found
  <2> QED BY <1>1, <1>2, <1>3, <1>4 DEF Ok, AskedDocumentAgrees
<1> QED BY <1>1, <1>5 DEF VerdictInv, FilesTyped

LEMMA EditVerdict ==
  ASSUME VerdictInv, Edit PROVE VerdictInv'
<1>1. UNCHANGED <<options, phase, read, validation, comparison, exit>> /\ phase \in {"load", "codes", "openapi"}
  BY DEF Edit, arguments
<1>2. FilesTyped(disk')
  <2>1. FilesTyped(disk)
    BY DEF VerdictInv
  <2>2. ASSUME NEW root \in DOMAIN disk.contracts, NEW c \in Contracts,
               disk' = [disk EXCEPT !.contracts[root] = c]
        PROVE  FilesTyped(disk')
    BY <2>1, <2>2, FilesAssumption DEF FilesTyped
  <2>3. ASSUME NEW root \in DOMAIN disk.codes, NEW c \in Catalogs,
               disk' = [disk EXCEPT !.codes[root] = c]
        PROVE  FilesTyped(disk')
    BY <2>1, <2>3, FilesAssumption DEF FilesTyped
  <2>4. ASSUME NEW file \in DOMAIN disk.documents, NEW d \in Documents,
               disk' = [disk EXCEPT !.documents[file] = d]
        PROVE  FilesTyped(disk')
    BY <2>1, <2>4 DEF FilesTyped
  <2> QED BY <2>2, <2>3, <2>4 DEF Edit
<1> QED BY <1>1, <1>2 DEF VerdictInv, Loaded, ContractsAgree

LEMMA StepVerdict == VerdictInv /\ CheckInv /\ [Next]_vars => VerdictInv'
<1> SUFFICES ASSUME VerdictInv, CheckInv, [Next]_vars PROVE VerdictInv'
  OBVIOUS
<1> DEFINE parts == <<options, disk, read, validation, comparison>>
<1>1. ASSUME UNCHANGED parts
      PROVE  /\ Ok' = Ok /\ ContractsAgree' = ContractsAgree
             /\ AskedDocumentAgrees' = AskedDocumentAgrees /\ Loaded' = Loaded
  BY <1>1 DEF Ok, ContractsAgree, AskedDocumentAgrees, Loaded
<1>2. CASE TakeArgument
  BY <1>2 DEF TakeArgument, VerdictInv, FilesTyped
<1>3. CASE RefuseArgument
  BY <1>3 DEF RefuseArgument, UsageError, Exit, arguments, VerdictInv, FilesTyped
<1>4. CASE EndArguments
  BY <1>4 DEF EndArguments, UsageError, Exit, arguments, VerdictInv, FilesTyped
<1>5. CASE Report \/ Write
  <2>1. UNCHANGED parts /\ phase \in {"report", "write"} /\ phase' \in {"write", "exited"}
    BY <1>5 DEF Report, Write, Exit, arguments
  <2>2. phase' # "exited" => exit' = exit
    BY <1>5 DEF Report, Write, Exit
  <2> QED BY <1>1, <2>1, <2>2 DEF VerdictInv
<1>6. CASE UNCHANGED vars
  BY <1>1, <1>6 DEF vars, arguments, VerdictInv
<1> QED BY <1>2, <1>3, <1>4, <1>5, <1>6, LoadVerdict, LoadCodesVerdict, CompareVerdict, EditVerdict
    DEF Next, Check

LEMMA UsageErrorsDiffer == \A code \in {0, 1} : code # 2
  OBVIOUS

\* cli.ts:83-119: a check whose report was written exits 0 exactly when what it
\* read agrees, for any files, arguments and edits: adjacent entries in order are
\* all in order, and routes and operations compared one by one, in both
\* directions, are the same.
THEOREM VerdictExact == Spec => []VerdictIsExact
<1>1. VerdictInv /\ CheckInv => VerdictIsExact
  <2> SUFFICES ASSUME VerdictInv, CheckInv, exit \in {0, 1}, stderr = "", ~ options.help
               PROVE  exit = 0 <=> ContractsAgree /\ AskedDocumentAgrees
    BY DEF VerdictIsExact, ContractsAgree, AskedDocumentAgrees
  <2>1. phase = "exited" /\ exit # 2
    <3>1. phase # "exited" => exit = Null
      BY DEF VerdictInv
    <3>2. exit # Null
      BY NullAssumption
    <3> QED BY <3>1, <3>2, UsageErrorsDiffer
  <2>2. exit = ExitCode
    BY <2>1 DEF CheckInv, EndInv
  <2> QED BY <2>1, <2>2 DEF ExitCode, VerdictInv
<1>2. VerdictInv /\ CheckInv /\ [Next]_vars => (VerdictInv /\ CheckInv)'
  BY StepVerdict, StepCheckInv
<1> QED BY <1>1, <1>2, InitVerdict, InitCheckInv, PTL DEF Spec
=============================================================================
