-------------------------- MODULE MCContractLoader --------------------------
(***************************************************************************)
(* Three families: the catalog; one whose file is a schema bundle and      *)
(* whose parser looks for unknown fields (as customer-policy-registry.yaml *)
(* is); one whose parser does not, and whose assertion looks at its bundle *)
(* as well (product-link.yaml).  One more bundle is required, the others   *)
(* only the catalog can ask for.                                           *)
(***************************************************************************)
EXTENDS StrictLoader, TLC

MCKeys == <<"apiCatalog", "customerPolicyRegistry", "productLinkHandoff">>

MCPathOrder == <<"catalog.yaml", "link.yaml", "policy.yaml", "session.yaml">>

Entry(key, name, path) ==
  [key |-> key, name |-> name, sourcePath |-> path, exportTargets |-> <<"openapi">>]

First  == Entry("apiCatalog", "catalog", "catalog.yaml")
Second == Entry("customerPolicyRegistry", "policy", "policy.yaml")
Third  == Entry("productLinkHandoff", "link", "link.yaml")

MCCommitted == <<First, Second, Third>>

\* One registry per kind of mistake.
MCRegistries ==
  {MCCommitted, <<>>, <<First, Second>>, <<Second, First, Third>>, <<First, First, Third>>,
   <<First, Second, Third, Entry("apiCatalog", "extra", "session.yaml")>>,
   <<First, [Second EXCEPT !.name = "catalog"], Third>>, <<First, [Second EXCEPT !.name = "Policy"], Third>>,
   <<First, [Second EXCEPT !.sourcePath = "catalog.yaml"], Third>>,
   <<First, [Second EXCEPT !.sourcePath = "outside"], Third>>,
   <<First, [Second EXCEPT !.exportTargets = <<"sdk", "sdk">>], Third>>}

C(typed, known, refs) == [typed |-> typed, known |-> known, refs |-> refs, inside |-> TRUE]
Outside(content) == [content EXCEPT !.inside = FALSE]

\* Both parts right; one of them with an unknown field; no file, which stands for one
\* whose family misses a field as well.  A family without a bundle, with refs to none,
\* to the shared files (one of which may be no bundle), to a bad ref.  Links to right
\* files outside.
MCContents ==
  {C(Parts, Parts, {}), C(Parts, {"family"}, {}), C(Parts, {"bundle"}, {}), Missing}
  \cup {C({"family"}, Parts, refs) :
          refs \in {{}, {"link.yaml", "policy.yaml"}, {BadRef}}}
  \cup {Outside(C({"family"}, Parts, {"link.yaml", "policy.yaml"})), Outside(C(Parts, Parts, {}))}
=============================================================================
