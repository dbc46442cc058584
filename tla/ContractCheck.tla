---------------------------- MODULE ContractCheck ----------------------------
(***************************************************************************)
(* runApiContractCheckCli of src/api-contracts/cli.ts: read the arguments  *)
(* one by one, load and validate the contracts of a root, compare one      *)
(* OpenAPI document with the route catalog, write the report.  The files   *)
(* are read at three moments and may be edited in between.                 *)
(*                                                                         *)
(* An argument is [text, name, value, dashed]: name and value as           *)
(* splitInlineOption divides text (value is Null without "="), dashed when *)
(* it starts with "-" and is not "-".  Values are trimmed; Blank stands    *)
(* for an empty one.  The contract files of a root, the error-code catalog *)
(* aside, are one value: Unreadable when ContractLoader's load fails, else *)
(* [routes, valid], valid for every rule of validateApiContracts but       *)
(* UniqueRouteKeys.                                                        *)
(***************************************************************************)
EXTENDS ErrorCodes, RouteCatalogCheck

CONSTANTS
  Blank,
  Unreadable,   \* files that are missing or do not parse
  Unread,       \* what the check has not read yet
  Arguments,    \* the argument lists a caller may pass
  Disks,        \* what the files may hold at the start
  Contracts,    \* what an edit may leave in the contract files,
  Catalogs,     \* in the error-code catalog
  Documents,    \* and in an OpenAPI document
  MaxEdits      \* bound on the edits during one check

\* What a load that succeeds returns: routes list their error codes and have an
\* operation id, an entry's status is an integer.
LoadedContracts(contracts) ==
  contracts # Unreadable =>
    \A r \in DOMAIN contracts.routes :
      LET route == contracts.routes[r] IN
      /\ route.operationId # Null
      /\ route.errorCodes \in Seq({route.errorCodes[k] : k \in DOMAIN route.errorCodes})

LoadedCodes(codes) ==
  /\ codes # Unread
  /\ codes # Unreadable /\ CodesParse(codes) =>
       /\ codes.entries \in Seq({codes.entries[n] : n \in DOMAIN codes.entries})
       /\ \A n \in DOMAIN codes.entries : codes.entries[n].status \in Int

FilesTyped(files) ==
  /\ DOMAIN files = {"contracts", "codes", "documents"}
  /\ \A root \in DOMAIN files.contracts : LoadedContracts(files.contracts[root])
  /\ \A root \in DOMAIN files.codes : LoadedCodes(files.codes[root])

ASSUME FilesAssumption ==
  /\ Unreadable # Unread
  /\ \A files \in Disks : FilesTyped(files)
  /\ \A contracts \in Contracts : LoadedContracts(contracts)
  /\ \A codes \in Catalogs : LoadedCodes(codes)

ASSUME NullAssumption == Null \notin {0, 1, 2}

Rules == INSTANCE ContractRules WITH None <- Null, Metadata <- <<>>, BodylessSchemas <- {}

VARIABLES
  argv, index,    \* the arguments, and the one to be read next
  options,        \* ParsedCliOptions
  formatWasSet,
  disk,           \* [contracts, codes, documents]: functions from roots and files
  edits,
  phase,          \* "arguments", "load", "codes", "openapi", "report", "write" or "exited"
  read,           \* [contracts, codes, document] as the check read them
  validation,     \* the findings of contractValidation, or Null
  comparison,     \* the findings of openApiComparison, {} without one
  output,         \* what the file of --output holds
  stdout,         \* what was printed, Silent without anything
  stderr,         \* "usage" or "write failed", "" without a message
  exit            \* the exit code, or Null

vars == <<argv, index, options, formatWasSet, disk, edits, phase, read, validation, comparison,
          output, stdout, stderr, exit>>

arguments == <<argv, index, options, formatWasSet>>
streams   == <<output, stdout, stderr>>

-----------------------------------------------------------------------------
(* parseArguments *)

HelpFlags == {"--help", "-h"}
Formats   == {"text", "json", "sarif"}

\* The aliases of --format, and the options with a value and what they set.
FormatFlags  == [flag \in {"--json", "--sarif"} |-> IF flag = "--json" THEN "json" ELSE "sarif"]
ValueOptions ==
  [name \in {"--root", "--output", "--openapi", "--service", "--format"} |->
     CASE name = "--root" -> "root"       [] name = "--output" -> "output"
       [] name = "--openapi" -> "openApi" [] name = "--service" -> "serviceId"
       [] name = "--format" -> "format"]

DefaultOptions ==
  [root |-> ".", format |-> "text", output |-> Null, openApi |-> Null, serviceId |-> Null,
   help |-> FALSE]

\* Arguments are lists.  A flag or option starts with a dash, "check" does not,
\* and a flag has no "=".
ASSUME ArgumentsAssumption ==
  \A list \in Arguments :
    /\ list \in Seq({list[i] : i \in DOMAIN list})
    /\ \A i \in DOMAIN list :
         /\ list[i].text \in HelpFlags \cup DOMAIN FormatFlags => list[i].name = list[i].text
         /\ list[i].name \in HelpFlags \cup DOMAIN FormatFlags \cup DOMAIN ValueOptions => list[i].dashed
         /\ list[i].text = "check" => ~ list[i].dashed

\* inline.value ?? requireNextValue; Null when that throws
GivenValue(list, i) ==
  IF list[i].value # Null THEN list[i].value
  ELSE IF i < Len(list) /\ ~ list[i + 1].dashed THEN list[i + 1].text
  ELSE Null

SetsFormat(token) == token.text \in DOMAIN FormatFlags \/ token.name = "--format"

\* One of the CliUsageErrors of the loop.
Refused(token, value) ==
  /\ token.text \notin HelpFlags
  /\ \/ SetsFormat(token) /\ formatWasSet
     \/ token.name = "--format" /\ value \notin Formats
     \/ token.text \notin DOMAIN FormatFlags /\ token.name \notin DOMAIN ValueOptions
     \/ token.name \in DOMAIN ValueOptions /\ value \in {Null, Blank}

\* Mutant of Step: an inline value is taken for two arguments.
StepTwo(token) == IF token.name \in DOMAIN ValueOptions THEN 2 ELSE 1

\* Mutant of Step: a flag is not passed.
StepOnFlag(token) ==
  IF token.name \notin DOMAIN ValueOptions THEN 0 ELSE IF token.value = Null THEN 2 ELSE 1

\* index += ...
Step(token) == IF token.name \in DOMAIN ValueOptions /\ token.value = Null THEN 2 ELSE 1

Exit(code) == phase' = "exited" /\ exit' = code

\* What a stream or a file holds when it is not a report.
Silent    == [kind |-> "silent"]
Help      == [kind |-> "help"]
OldFile   == [kind |-> "old"]
Truncated == [kind |-> "truncated"]

UsageError == Exit(2) /\ stderr' = "usage"

TakeArgument ==
  LET token == argv[index]
      value == GivenValue(argv, index)
  IN
  /\ phase = "arguments" /\ index <= Len(argv)
  /\ ~ Refused(token, value)
  /\ index' = index + Step(token)
  /\ options' = IF token.text \in HelpFlags THEN [options EXCEPT !.help = TRUE]
                ELSE IF token.text \in DOMAIN FormatFlags
                THEN [options EXCEPT !.format = FormatFlags[token.text]]
                ELSE [options EXCEPT ![ValueOptions[token.name]] = value]
  /\ formatWasSet' = (formatWasSet \/ SetsFormat(token))
  /\ UNCHANGED <<argv, disk, edits, phase, read, validation, comparison, streams, exit>>

RefuseArgument ==
  /\ phase = "arguments" /\ index <= Len(argv)
  /\ Refused(argv[index], GivenValue(argv, index))
  /\ UsageError
  /\ UNCHANGED <<arguments, disk, edits, read, validation, comparison, output, stdout>>

\* The end of the list; then the help, or the check begins.
EndArguments ==
  /\ phase = "arguments" /\ index > Len(argv)
  /\ IF options.help
     THEN Exit(0) /\ stdout' = Help /\ UNCHANGED stderr
     ELSE IF options.serviceId # Null /\ options.openApi = Null
     THEN UsageError /\ UNCHANGED stdout
     ELSE phase' = "load" /\ UNCHANGED <<exit, stdout, stderr>>
  /\ UNCHANGED <<arguments, disk, edits, read, validation, comparison, output>>

-----------------------------------------------------------------------------
(* The check *)

CatalogFile == "contracts/apis/catalog.yaml"
CodesFile   == "contracts/error-code-catalog.yaml"
ContractFiles == {"contracts", CatalogFile, CodesFile}

\* A diagnostic: [code, file].
At(codes, file) == {[code |-> c, file |-> file] : c \in codes}

\* The file each error-code diagnostic names.
ReferenceCodes == {"ROUTE_DUPLICATE", "ROUTE_UNREGISTERED", "ROUTE_OWNER_MISMATCH", "ROUTE_RETIRED"}

CodeFindings(catalog, routes) ==
  LET codes == CodeDiagnostics(catalog, routes) IN
  At(codes \cap ReferenceCodes, CatalogFile) \cup At(codes \ ReferenceCodes, CodesFile)

\* validateApiContracts reports nothing.
ContractsHold(contracts) == contracts.valid /\ Rules!UniqueRouteKeys(contracts.routes)

Content(files, name) == IF name \in DOMAIN files THEN files[name] ELSE Unreadable

\* What the try block throws ends it: the load diagnostics are all there is.
LoadFails(file) ==
  /\ validation' = At({"LOAD_FAILED"}, file)
  /\ phase' = "report"

\* loadApiContracts
Load ==
  LET contracts == Content(disk.contracts, options.root) IN
  /\ phase = "load"
  /\ read' = [read EXCEPT !.contracts = contracts]
  /\ IF contracts = Unreadable THEN LoadFails("contracts")
     ELSE phase' = "codes" /\ UNCHANGED validation
  /\ UNCHANGED <<arguments, disk, edits, comparison, streams, exit>>

\* loadErrorCodeCatalog and both validators
LoadCodes ==
  LET codes  == Content(disk.codes, options.root)
      routes == read.contracts.routes
  IN
  /\ phase = "codes"
  /\ read' = [read EXCEPT !.codes = codes]
  /\ IF codes = Unreadable \/ ~ CodesParse(codes) THEN LoadFails(CodesFile)
     ELSE /\ validation' = At({c \in {"INVALID"} : ~ ContractsHold(read.contracts)}, CatalogFile)
                           \cup CodeFindings(ParsedCodes(codes), routes)
          /\ phase' = IF options.openApi = Null THEN "report" ELSE "openapi"
  /\ UNCHANGED <<arguments, disk, edits, comparison, streams, exit>>

\* compareOpenApiFile; it catches what a read throws.  A service that is not in
\* the catalog is reported at the catalog.
CompareDocument ==
  LET document == Content(disk.documents, options.openApi)
      found    == Comparison(document, read.contracts.routes, options.serviceId)
      absent   == {"SERVICE_NOT_FOUND"}
  IN
  /\ phase = "openapi"
  /\ read' = [read EXCEPT !.document = document]
  /\ comparison' = IF document = Unreadable THEN At({"READ_FAILED"}, options.openApi)
                   ELSE At(found \cap absent, CatalogFile) \cup At(found \ absent, options.openApi)
  /\ phase' = "report"
  /\ UNCHANGED <<arguments, disk, edits, validation, streams, exit>>

-----------------------------------------------------------------------------
(* The report *)

Ok == validation = {} /\ comparison = {}

\* Mutant of Locations: every finding of the comparison is taken for one of the document.
LocationsByPart ==
  {<<options.root, d.file>> : d \in validation}
  \cup {<<".", d.file>> : d \in comparison}

\* toSarif: the directory and the file of each result.
Locations ==
  {<<options.root, d.file>> : d \in validation}
  \cup {<<IF d.code = "SERVICE_NOT_FOUND" THEN options.root ELSE ".", d.file>> :
          d \in comparison}

\* renderApiContractCheckReport, as far as a reader can tell reports apart
Rendered ==
  [kind |-> "report", ok |-> Ok, findings |-> validation \cup comparison,
   locations |-> IF options.format = "sarif" THEN Locations ELSE {}]

ExitCode == IF Ok THEN 0 ELSE 1

\* emitReport, up to mkdir and the truncation of the file
Report ==
  /\ phase = "report"
  /\ IF options.output \in {Null, "-"}
     THEN stdout' = Rendered /\ Exit(ExitCode) /\ UNCHANGED <<output, stderr>>
     ELSE /\ UNCHANGED stdout
          /\ \/ phase' = "write" /\ output' = Truncated /\ UNCHANGED <<exit, stderr>>
             \/ Exit(1) /\ stderr' = "write failed" /\ UNCHANGED output
  /\ UNCHANGED <<arguments, disk, edits, read, validation, comparison>>

\* Mutant of Write: a failed write is not noticed.
WriteUnnoticed ==
  /\ phase = "write"
  /\ \/ output' = Rendered
     \/ UNCHANGED output
  /\ Exit(ExitCode)
  /\ UNCHANGED <<arguments, disk, edits, read, validation, comparison, stdout, stderr>>

\* The file is written, or not all of it.
Write ==
  /\ phase = "write"
  /\ \/ output' = Rendered /\ Exit(ExitCode) /\ UNCHANGED stderr
     \/ UNCHANGED output /\ Exit(1) /\ stderr' = "write failed"
  /\ UNCHANGED <<arguments, disk, edits, read, validation, comparison, stdout>>

-----------------------------------------------------------------------------

Init ==
  /\ argv \in Arguments
  /\ index = IF argv # <<>> /\ argv[1].text = "check" THEN 2 ELSE 1
  /\ options = DefaultOptions
  /\ formatWasSet = FALSE
  /\ disk \in Disks
  /\ edits = 0
  /\ phase = "arguments"
  /\ read = [contracts |-> Unread, codes |-> Unread, document |-> Unread]
  /\ validation = Null
  /\ comparison = {}
  /\ output = OldFile
  /\ stdout = Silent /\ stderr = ""
  /\ exit = Null

\* Somebody saves a file the check has still to read, or has read.
Edit ==
  /\ phase \in {"load", "codes", "openapi"}
  /\ edits < MaxEdits
  /\ edits' = edits + 1
  /\ \/ \E root \in DOMAIN disk.contracts, c \in Contracts : disk' = [disk EXCEPT !.contracts[root] = c]
     \/ \E root \in DOMAIN disk.codes, c \in Catalogs : disk' = [disk EXCEPT !.codes[root] = c]
     \/ \E file \in DOMAIN disk.documents, d \in Documents : disk' = [disk EXCEPT !.documents[file] = d]
  /\ UNCHANGED <<arguments, phase, read, validation, comparison, streams, exit>>

Check ==
  \/ TakeArgument \/ RefuseArgument \/ EndArguments
  \/ Load \/ LoadCodes \/ CompareDocument \/ Report \/ Write

Next == Check \/ Edit

\* Every read and write of the check settles.
Spec == Init /\ [][Next]_vars /\ WF_vars(Check)

-----------------------------------------------------------------------------

\* What the last use of an option gave, Null without one.
LastGiven(name) ==
  LET uses == {i \in DOMAIN argv : argv[i].name = name} IN
  IF uses = {} THEN Null
  ELSE GivenValue(argv, CHOOSE i \in uses : \A j \in uses : j <= i)

\* cli.ts:124: what the check works with is what the caller asked for, in any
\* order of the arguments and in both spellings of a value: the last root, file,
\* document and service named; no option is taken for the value of another.
OptionsAreHonoured ==
  phase \notin {"arguments", "exited"} =>
    /\ \A i \in DOMAIN argv : argv[i].text \notin HelpFlags
    /\ \A name \in {"--output", "--openapi", "--service"} :
         options[ValueOptions[name]] = LastGiven(name)
    /\ LastGiven("--root") \in {Null, options.root}
    /\ LastGiven("--service") # Null => LastGiven("--openapi") # Null

\* The error-code rules, said of the whole catalog: one entry for each code, and
\* what a route announces is registered, in force and its service's or shared.
CodesAgree(catalog, routes) ==
  LET entries == {catalog.entries[n] : n \in DOMAIN catalog.entries} IN
  /\ catalog.version = 1 /\ catalog.status = "active" /\ catalog.prefix = Prefix
  /\ \A m, n \in DOMAIN catalog.entries :
       m < n => SortsBefore(catalog.entries[m].code, catalog.entries[n].code)
  /\ \A e \in entries : /\ e.code \in ValidCodes /\ e.status \div 100 \in {4, 5}
                        /\ e.key = <<catalog.prefix, e.code>>
                        /\ e.owner = Shared \/ e.owner \in ValidOwners \cap Services(routes)
  /\ {catalog.lifecycle} \cup {e.lifecycle : e \in entries} \subseteq Lifecycles
  /\ \A r \in DOMAIN routes : \A k \in DOMAIN routes[r].errorCodes :
       /\ \A j \in DOMAIN routes[r].errorCodes : routes[r].errorCodes[j] = routes[r].errorCodes[k] => j = k
       /\ \E e \in entries : /\ e.code = routes[r].errorCodes[k] /\ e.lifecycle # "retired"
                             /\ e.owner \in {Shared, routes[r].service}

\* A document describes a service: read as a set of signatures it is the
\* service's routes, and nothing in it is beyond the comparison.
DocumentAgrees(document, routes, requested) ==
  LET items == {document.paths[path] : path \in DOMAIN document.paths}
      all   == UNION {{item.operations[m] : m \in OperationKeys(item)} : item \in items}
      named == ({requested} \cup {document.root, document.info}) \ {Null}
  IN
  /\ document # Null /\ document.version /\ document.paths # Null
  /\ DOMAIN document.paths \cap RelativePaths = {}
  /\ Null \notin items /\ \A item \in items : ~ item.ref
  /\ Null \notin all /\ \A o \in all : ~ o.ref /\ o.responses # Null /\ ~ o.responses.range
  /\ \A o \in all : \A s \in DOMAIN o.responses.given \cap Success : o.responses.given[s]
  /\ \E service \in named :
       /\ named = {service} /\ service \in Services(routes)
       /\ {<<o.method, o.path, o.id, o.statuses>> : o \in Operations(document)}
            = {<<routes[n].method, RoutePath(routes[n]), routes[n].operationId, routes[n].statuses>> :
                 n \in {n \in DOMAIN routes : routes[n].service = service}}

\* cli.ts:83-119: unless its report could not be written, a check exits 0 exactly
\* when what it read agrees: valid contracts, error codes that fit them, and a
\* document, if one was asked for, that describes its service's routes and no
\* more.  The verdict counts every part; the findings listed do not, since what
\* a later part throws replaces those of the earlier ones (cli.ts:93-98).
VerdictIsExact ==
  (exit \in {0, 1} /\ stderr = "" /\ ~ options.help) =>
    (exit = 0 <=>
       /\ read.contracts # Unreadable /\ ContractsHold(read.contracts)
       /\ read.codes \notin {Unread, Unreadable} /\ CodesParse(read.codes)
       /\ CodesAgree(ParsedCodes(read.codes), read.contracts.routes)
       /\ options.openApi # Null =>
            /\ read.document # Unreadable
            /\ DocumentAgrees(read.document, read.contracts.routes, options.serviceId))

\* cli.ts:111-121: the exit code and the report tell the same: after 0 the place
\* the caller named holds a passing report of this check; after 1 it holds a
\* failing one that names a finding, or standard error says it was not written.
ReportTellsTheExit ==
  (phase = "exited" /\ exit # 2 /\ ~ options.help) =>
    LET report == IF options.output \in {Null, "-"} THEN stdout ELSE output IN
    IF stderr # "" THEN exit = 1 /\ stdout = Silent
    ELSE /\ report.kind = "report"
         /\ report.ok <=> exit = 0
         /\ report.ok <=> report.findings = {}

\* cli-report.ts:76-89: a code host shows a SARIF result at the file it is about:
\* contract files are found under the root, the document under the working
\* directory.
FindingsPointToTheirFile ==
  (phase = "exited" /\ options.format = "sarif" /\ stdout.kind = "report") =>
    stdout.locations \subseteq
      ({options.root} \X ContractFiles) \cup ({"."} \X {options.openApi})

\* Every check ends with an exit code, whatever fails on the way.
CheckEnds == <>(exit # Null)
=============================================================================
