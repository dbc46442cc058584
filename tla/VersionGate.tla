---------------------------- MODULE VersionGate ----------------------------
(***************************************************************************)
(* The SemVer gate of scripts/lib/compatibility-semver.ts: given the       *)
(* version in the base and in the head package.json, the compatibility     *)
(* level the comparer found and the migration document on disk, which      *)
(* diagnostics does evaluateApiContractVersionGate return?                 *)
(*                                                                         *)
(* A version is the triple parseVersion returns; NotSemVer stands for the  *)
(* null it returns for anything that is not a strict x.y.z.                *)
(***************************************************************************)
EXTENDS Integers

CONSTANT NotSemVer

ChangeLevel == {"none", "patch", "feature", "breaking"}

\* LEVEL_WEIGHT, with 0 for the report level "none" (highestLevel's start).
Weight(level) ==
  IF level = "none" THEN 0
  ELSE IF level = "patch" THEN 1
  ELSE IF level = "feature" THEN 2
  ELSE 3

\* highestLevel: the heaviest level among the changes, "none" without any.
HighestLevel(levels) ==
  CHOOSE l \in levels \cup {"none"} :
    \A m \in levels : Weight(m) <= Weight(l)

-----------------------------------------------------------------------------

Version == [major : Nat, minor : Nat, patch : Nat]

ASSUME NotSemVerAssumption == NotSemVer \notin Version

\* compareVersions(u, v) < 0
Before(u, v) ==
  \/ u.major < v.major
  \/ u.major = v.major /\ u.minor < v.minor
  \/ u.major = v.major /\ u.minor = v.minor /\ u.patch < v.patch

AtMost(u, v) == ~ Before(v, u)

\* Mutant of RequiredBump: a patch is enough for a feature.
RequiredBumpLenient(level, base) ==
  IF level = "none" THEN "none"
  ELSE IF level = "patch" \/ level = "feature" THEN "patch"
  ELSE IF base # NotSemVer /\ base.major = 0 THEN "minor"
  ELSE "major"

RequiredBump(level, base) ==
  IF level = "none" THEN "none"
  ELSE IF level = "patch" THEN "patch"
  ELSE IF level = "feature" \/ (base # NotSemVer /\ base.major = 0) THEN "minor"
  ELSE "major"

\* minimumVersionForBump; its null for the bump "none" lets every head pass,
\* which the base itself says as well: a head below it has regressed already.
MinimumVersion(base, bump) ==
  IF bump = "none" THEN base
  ELSE IF bump = "patch"
  THEN [major |-> base.major, minor |-> base.minor, patch |-> base.patch + 1]
  ELSE IF bump = "minor"
  THEN [major |-> base.major, minor |-> base.minor + 1, patch |-> 0]
  ELSE [major |-> base.major + 1, minor |-> 0, patch |-> 0]

\* What reading docs/migrations/v<base>-to-v<head>.md yields: no file, a file
\* that fails a content rule, or one that satisfies all of them.
MigrationDocument == {"missing", "incomplete", "complete"}

NeedsMigrationDocument(base, head, level) ==
  level = "breaking" /\ base # NotSemVer /\ head # NotSemVer

\* evaluateApiContractVersionGate: the set of diagnostic codes.
GateDiagnostics(base, head, level, document) ==
  {c \in {"BASE_VERSION_INVALID"} : base = NotSemVer}
  \cup {c \in {"HEAD_VERSION_INVALID"} : head = NotSemVer}
  \cup (IF base = NotSemVer \/ head = NotSemVer THEN {}
        ELSE IF Before(head, base) THEN {"VERSION_REGRESSION"}
        ELSE IF Before(head, MinimumVersion(base, RequiredBump(level, base)))
        THEN {"VERSION_BUMP_INSUFFICIENT"} ELSE {})
  \cup (IF ~ NeedsMigrationDocument(base, head, level) \/ document = "complete"
        THEN {}
        ELSE IF document = "missing" THEN {"MIGRATION_DOCUMENT_MISSING"}
        ELSE {"MIGRATION_DOCUMENT_INCOMPLETE"})

GateOk(base, head, level, document) ==
  GateDiagnostics(base, head, level, document) = {}

-----------------------------------------------------------------------------
(***************************************************************************)
(* What a consumer reads off two version numbers: the heaviest change that *)
(* may separate them.  Nothing separates equal versions, only patches      *)
(* versions that share major.minor, only features versions that share a    *)
(* major of 1 or more, and anything the others.  (A caret range of npm is  *)
(* contained in one of the first three classes.)                           *)
(***************************************************************************)
Allowance(u, v) ==
  IF u = v THEN 0
  ELSE IF u.major = v.major /\ u.minor = v.minor THEN 1
  ELSE IF u.major = v.major /\ u.major > 0 THEN 2
  ELSE 3
=============================================================================
