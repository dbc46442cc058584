--------------------------- MODULE MCContractCheck ---------------------------
(***************************************************************************)
(* Two services with three routes, three error codes, one document of the  *)
(* service auth.  Every kind of mistake in one place, and every pair of    *)
(* mistakes an edit can add to it while the check runs.                    *)
(***************************************************************************)
EXTENDS ContractCheck, TLC

Word(text) == [text |-> text, name |-> text, value |-> Null, dashed |-> FALSE]
Flag(text) == [text |-> text, name |-> text, value |-> Null, dashed |-> TRUE]
Inline(name, value) == [text |-> "=", name |-> name, value |-> value, dashed |-> TRUE]

Asked == <<Flag("--openapi"), Word("auth.json")>>
Named == <<Inline("--service", "auth")>>
Sarif == <<Flag("--sarif"), Inline("--root", "pkg")>>

\* Checks: of the contracts alone, with a document, to a file, of another root.
Checks ==
  {<<>>, <<Word("check")>> \o Asked, <<Inline("--openapi", "auth.json")>> \o Named, Named \o Sarif \o Asked,
   Asked \o <<Inline("--service", "mail")>> \o Sarif,
   Sarif \o <<Flag("--output"), Word("report")>> \o Asked,
   <<Flag("--root"), Word("pkg"), Flag("--output"), [Word("-") EXCEPT !.name = "-"]>>,
   <<Inline("--openapi", "none.json"), Flag("--service"), Word("mail")>>,
   <<Flag("--root"), Word("pkg"), Flag("--root"), Word("nowhere"), Flag("--json")>>}

\* Usage errors and help
Others ==
  {<<Flag("-h")>>, Named, <<Word("check"), Word("check")>>, <<Flag("--json"), Flag("--sarif")>>,
   <<Flag("--json"), Inline("--format", "text")>>, <<Inline("--format", "xml")>>,
   <<Flag("--format"), Word("json"), Flag("--help")>>, <<Flag("--root")>>,
   <<Flag("--output"), Flag("--openapi"), Word("auth.json")>>, <<Inline("--root", Blank)>>,
   <<Inline("--json", "x")>>, <<Flag("--service"), Word("auth"), Flag("--help")>>}

MCArguments == Checks \cup Others

-----------------------------------------------------------------------------

Entry(code, owner) ==
  [wellFormed |-> TRUE, code |-> code, status |-> 404, key |-> Absent, owner |-> owner,
   lifecycle |-> Absent]

Codes(entries) ==
  [wellFormed |-> TRUE, version |-> 1, status |-> "active", prefix |-> Prefix,
   lifecycle |-> "active", entries |-> entries]

Gone  == Entry("gone", "auth")
Limit == Entry("limit", Shared)
Lost  == Entry("lost", "mail")

GoodCodes == Codes(<<Gone, Limit, Lost>>)

\* A boundary of the statuses on each side, and both inside.
BadEntries ==
  {[Limit EXCEPT !.status = s] : s \in {399, 400, 599, 600}}
  \cup {[Limit EXCEPT !.key = k] : k \in {<<Prefix, "limit">>, <<Prefix, "gone">>, <<"errors.", "limit">>}}
  \cup {[Limit EXCEPT !.owner = o] : o \in {"mail", "Mail", "post"}}
  \cup {[Limit EXCEPT !.lifecycle = l] : l \in {"deprecated", "retired", "new"}}
  \cup {[Limit EXCEPT !.wellFormed = FALSE], [Limit EXCEPT !.code = "Limit"]}

MCCatalogs ==
  {Unreadable, GoodCodes, Codes(<<>>), Codes(<<Gone, Lost>>), Codes(<<Limit, Gone, Lost>>),
   Codes(<<Gone, Limit, Limit, Lost>>), Codes(<<Gone, Limit, Lost, [Gone EXCEPT !.lifecycle = "retired"]>>),
   [GoodCodes EXCEPT !.wellFormed = FALSE], [GoodCodes EXCEPT !.version = 2],
   [GoodCodes EXCEPT !.status = "draft"], [GoodCodes EXCEPT !.prefix = "errors."],
   [GoodCodes EXCEPT !.lifecycle = "retired"], [GoodCodes EXCEPT !.lifecycle = "new"]}
  \cup {Codes(<<Gone, e, Lost>>) : e \in BadEntries}

-----------------------------------------------------------------------------

Login ==
  [operationId |-> "login", service |-> "auth", method |-> "POST", template |-> "/login",
   params |-> <<>>, statuses |-> {200}, errorCodes |-> <<"gone", "limit">>]
Leave == [Login EXCEPT !.operationId = "leave", !.method = "DELETE", !.statuses = {200, 202}]
Send  == [Login EXCEPT !.operationId = "send", !.service = "mail", !.template = "/mail",
                       !.errorCodes = <<"lost">>]

Tree(routes) == [routes |-> routes, valid |-> TRUE]
GoodTree == Tree(<<Login, Leave, Send>>)

MCContracts ==
  {Unreadable, GoodTree, [GoodTree EXCEPT !.valid = FALSE], Tree(<<Send>>), Tree(<<Login, Leave>>),
   Tree(<<Login, [Leave EXCEPT !.method = "POST"], Send>>),
   Tree(<<[Login EXCEPT !.errorCodes = <<"gone", "limit", "gone">>], Leave, Send>>),
   Tree(<<[Login EXCEPT !.errorCodes = <<"lost">>], Leave, Send>>)}

-----------------------------------------------------------------------------

Responses(statuses) == [given |-> [s \in statuses |-> TRUE], range |-> FALSE]

Operation(id, statuses) == [ref |-> FALSE, id |-> id, responses |-> Responses(statuses)]

LoginPath == <<"/login", <<>>>>
LostPath  == <<"mail", <<>>>>

MCRelativePaths == {LostPath}
MCCodeOrder == <<"gone", "limit", "Limit", "lost">>

Item(login, leave) ==
  [ref |-> FALSE, operations |-> [m \in {"POST", "DELETE", "x-note"} |->
     IF m = "POST" THEN login ELSE IF m = "DELETE" THEN leave ELSE Null]]

OnlyPath(item) == [path \in {LoginPath} |-> item]

Document(paths) == [version |-> TRUE, root |-> "auth", info |-> Null, paths |-> paths]

LoginOperation == Operation("login", {200, 400})
LeaveOperation == Operation("leave", {200, 202})
GoodItem == Item(LoginOperation, LeaveOperation)
GoodDocument == Document(OnlyPath(GoodItem))

BadOperations ==
  {Null, [LoginOperation EXCEPT !.ref = TRUE], [LoginOperation EXCEPT !.id = Null],
   [LoginOperation EXCEPT !.id = "leave"], [LoginOperation EXCEPT !.responses = Null],
   [LoginOperation EXCEPT !.responses.range = TRUE], Operation("login", {}),
   Operation("login", {200, 202}), [LoginOperation EXCEPT !.responses.given[400] = FALSE],
   [LoginOperation EXCEPT !.responses.given[200] = FALSE]}

MCDocuments ==
  {Unreadable, Null, GoodDocument, [GoodDocument EXCEPT !.version = FALSE],
   [GoodDocument EXCEPT !.root = "mail"], [GoodDocument EXCEPT !.root = Null],
   [GoodDocument EXCEPT !.info = "auth"], [GoodDocument EXCEPT !.info = "mail"],
   [GoodDocument EXCEPT !.root = "post", !.info = "post"],
   [GoodDocument EXCEPT !.paths = Null], Document(OnlyPath(Null)),
   Document(OnlyPath([GoodItem EXCEPT !.ref = TRUE])),
   Document(OnlyPath([ref |-> FALSE, operations |-> [m \in {"POST"} |-> LoginOperation]])),
   Document([path \in {LoginPath, LostPath} |->
     IF path = LoginPath THEN GoodItem ELSE [ref |-> FALSE, operations |-> <<>>]]),
   Document([path \in {LoginPath, <<"/more", <<>>>>} |->
     IF path = LoginPath THEN GoodItem
     ELSE [ref |-> FALSE, operations |-> [m \in {"GET"} |-> Operation("more", {200})]]])}
  \cup {Document(OnlyPath(Item(o, LeaveOperation))) : o \in BadOperations}

-----------------------------------------------------------------------------

\* The files of one root are chosen, those of the other are good.
InRoot(chosen, good, root) == [r \in {".", "pkg"} |-> IF r = root THEN chosen ELSE good]

Disk(contracts, codes, document, root) ==
  [contracts |-> InRoot(contracts, GoodTree, root), codes |-> InRoot(codes, GoodCodes, root),
   documents |-> [file \in {"auth.json"} |-> document]]

MCDisks ==
  UNION {{Disk(c, GoodCodes, GoodDocument, root) : c \in MCContracts}
         \cup {Disk(GoodTree, c, GoodDocument, root) : c \in MCCatalogs}
         \cup {Disk(GoodTree, GoodCodes, d, root) : d \in MCDocuments} : root \in {".", "pkg"}}

\* What an edit during a check makes of a file.
EditedContracts == {GoodTree, Tree(<<Login, Leave>>)}
EditedCatalogs  == {GoodCodes, Codes(<<Gone, [Limit EXCEPT !.lifecycle = "retired"], Lost>>)}
EditedDocuments == {Unreadable, GoodDocument, [GoodDocument EXCEPT !.info = "mail"]}
=============================================================================
