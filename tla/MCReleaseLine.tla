--------------------------- MODULE MCReleaseLine ---------------------------
(***************************************************************************)
(* ReleaseLine over small route catalogs, compared by the comparer's own   *)
(* operators: one route, the same route with another credential policy (a  *)
(* patch either way) and two routes (a feature one way, breaking back); or *)
(* one route under another name, which is breaking either way.             *)
(***************************************************************************)
EXTENDS ReleaseLine, CompatStrategies, TLC

Route(credentials) ==
  [anchor |-> "a", successStatuses |-> {"200"}, errorCodes |-> {},
   authRequired |-> FALSE, requestIdRequired |-> FALSE, traceIdRequired |-> FALSE,
   idempotency |-> [wording |-> "none", strength |-> 0], credentialPolicy |-> credentials]

MCContract ==
  {"r" :> Route("p"), "r" :> Route("q"), ("r" :> Route("p")) @@ ("s" :> Route("p"))}

Levels(contracts) ==
  [pair \in contracts \X contracts |->
     HighestLevel(RoutesChanges(pair[1], pair[2]))] @@ <<>>

V(major, minor, patch) == [major |-> major, minor |-> minor, patch |-> patch]

OneFeature == {"r" :> Route("p"), ("r" :> Route("p")) @@ ("s" :> Route("p"))}

OneBreak == {"r" :> Route("p"), "s" :> Route("p")}

MCLevel == Levels(MCContract)
OneFeatureLevel == Levels(OneFeature)
OneBreakLevel == Levels(OneBreak)

StableVersions == {V(1, 0, 0), V(1, 0, 1), V(1, 1, 0), V(2, 0, 0)}
FewVersions == {V(1, 0, 0), V(1, 1, 0), V(1, 1, 1)}
PatchVersions == {V(1, 0, 0), V(1, 0, 1), V(1, 0, 2)}
EarlyVersions == {V(0, 1, 0), V(0, 1, 1), V(0, 2, 0), NotSemVer}

NoDocuments == {{}}
AllDocuments == {StableVersions}
SomeDocuments == {{}, EarlyVersions}
=============================================================================
