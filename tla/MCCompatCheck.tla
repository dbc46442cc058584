---------------------------- MODULE MCCompatCheck ----------------------------
(***************************************************************************)
(* Nine commits over two safe files and one that is refused: a base, a     *)
(* patch that changes nothing, a breaking change announced with and        *)
(* without its migration document, a feature announced as a patch, one the *)
(* current parser cannot read, one with no version, one with a refused     *)
(* path, and one without contracts.                                        *)
(***************************************************************************)
EXTENDS CompatCheck, TLC

V(major, minor, patch) == [major |-> major, minor |-> minor, patch |-> patch]

Commit(version, files, readable, document) ==
  [version |-> version, files |-> files, readable |-> readable, document |-> document]

Base == Commit(V(1, 0, 0), {"a.yaml", "b.yaml"}, TRUE, "missing")
Same == Commit(V(1, 0, 1), {"a.yaml", "b.yaml"}, TRUE, "missing")
Broken == Commit(V(2, 0, 0), {"a.yaml"}, TRUE, "missing")
Announced == Commit(V(2, 0, 0), {"a.yaml"}, TRUE, "complete")
Unannounced == Commit(V(1, 0, 2), {"a.yaml", "b.yaml"}, TRUE, "complete")
Unreadable == Commit(V(1, 0, 0), {"a.yaml", "b.yaml"}, FALSE, "missing")
Unnamed == Commit(NoVersion, {"a.yaml", "b.yaml"}, TRUE, "missing")
Refused == Commit(V(1, 0, 0), {"a.yaml", "no:file"}, TRUE, "missing")
Empty == Commit(V(1, 0, 0), {}, FALSE, "missing")

MCSnapshots ==
  {Base, Same, Broken, Announced, Unannounced, Unreadable, Unnamed, Refused, Empty}

\* b.yaml is gone in Broken and Announced; Unannounced adds to it.
LevelFrom(base, head) ==
  IF "b.yaml" \in base.files /\ "b.yaml" \notin head.files THEN "breaking"
  ELSE IF "b.yaml" \in head.files \ base.files THEN "feature"
  ELSE IF head = Unannounced /\ base # Unannounced THEN "feature"
  ELSE IF base = Unannounced /\ head # Unannounced THEN "breaking"
  ELSE "none"

MCLevel == [p \in MCSnapshots \X MCSnapshots |-> LevelFrom(p[1], p[2])]
=============================================================================
