--------------------------- MODULE PublishPromise ---------------------------
(***************************************************************************)
(* What .github/workflows/release.yml promises the readers of npm and of   *)
(* its own results: a version is published once, from a commit whose       *)
(* package checks pass and whose package.json names that version, and a    *)
(* release is reported as successful only for the commit npm serves.       *)
(***************************************************************************)
CONSTANTS Commits, VersionOf, Acceptable, None

VARIABLES
  source,    \* source[v]: the commit npm serves v from
  reported   \* the commits whose release was reported as successful

Init ==
  /\ source = [v \in {VersionOf[c] : c \in Commits} |-> None]
  /\ reported = {}

Publish(c) ==
  /\ c \in Acceptable
  /\ source[VersionOf[c]] = None
  /\ source' = [source EXCEPT ![VersionOf[c]] = c]
  /\ UNCHANGED reported

Report(c) ==
  /\ source[VersionOf[c]] = c
  /\ reported' = reported \cup {c}
  /\ UNCHANGED source

Next == \E c \in Commits : Publish(c) \/ Report(c)

Spec == Init /\ [][Next]_<<source, reported>>
=============================================================================
