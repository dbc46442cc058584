---------------------------- MODULE ReleaseLine ----------------------------
(***************************************************************************)
(* The life of the contracts on main: pushes, the CI run of each push, the *)
(* release tags and what the release workflow publishes from them.         *)
(*                                                                         *)
(* Both workflows run the same check against a base they choose            *)
(* differently: CI takes the commit before the push (github.event.before), *)
(* the release workflow the nearest tag git describe finds from the parent *)
(* of the tagged commit.  The check compares the two contract trees and    *)
(* passes the level to the SemVer gate.  This module asks what the chosen  *)
(* bases, over any history, say about two versions a consumer may install. *)
(*                                                                         *)
(* Commits are positions of the sequence main (a push adds one commit). A  *)
(* release run is in `running` once it is past the compatibility step; a   *)
(* run that stops before that changes nothing here.  The other steps of a  *)
(* release run are those of the module ReleaseJob.                         *)
(***************************************************************************)
EXTENDS VersionGate, Sequences

CONSTANTS
  Contract,     \* contract trees that may be committed
  Level,        \* Level[<<base, head>>]: the report level of compareApiContracts
  Versions,     \* values of package.json's version that may be committed
  Documents,    \* sets of bases whose migration document a commit may hold
  MaxCommits,   \* bound on the length of main
  Orderly       \* do tags follow main, each on a commit whose CI passed?

ASSUME VersionsAssumption ==
  /\ Versions \subseteq Version \cup {NotSemVer}
  /\ Documents \subseteq SUBSET Versions

\* What the comparer owes to its users: equal trees differ in nothing, and
\* a change seen in two steps is no heavier than the heavier step.
ASSUME LevelAssumption ==
  /\ Level \in [Contract \X Contract -> ChangeLevel]
  /\ \A c \in Contract : Level[<<c, c>>] = "none"
  /\ \A a, b, c \in Contract :
       \/ Weight(Level[<<a, c>>]) <= Weight(Level[<<a, b>>])
       \/ Weight(Level[<<a, c>>]) <= Weight(Level[<<b, c>>])

ASSUME BoundAssumption == MaxCommits \in Nat /\ Orderly \in BOOLEAN

VARIABLES
  main,         \* the commits of main, oldest first
  ci,           \* ci[p]: outcome of the CI run of the push of main[p]
  tagged,       \* positions that carry a release tag v<version>
  running,      \* positions whose release run is past the compatibility step
  compared,     \* positions whose release run has ever passed it
  published,    \* positions whose package npm serves
  baseline,     \* baseline[p]: the tagged position p was compared with, 0: none
  chain         \* chain[p]: positions p reaches from base to base (history)

vars == <<main, ci, tagged, running, compared, published, baseline, chain>>

\* documents: the base versions for which the commit holds a complete
\* docs/migrations/v<base>-to-v<version>.md
Commit == [version : Versions, contract : Contract, documents : Documents]

CiOutcome == {"running", "passed", "failed", "cancelled"}

Positions == 1 .. Len(main)

TypeOK ==
  /\ main \in Seq(Commit)
  /\ ci \in [Positions -> CiOutcome]
  /\ tagged \in SUBSET Positions
  /\ compared \in SUBSET tagged
  /\ running \in SUBSET compared
  /\ published \in SUBSET compared
  /\ baseline \in [Positions -> 0 .. Len(main)]
  /\ chain \in [Positions -> SUBSET Positions]

Init ==
  /\ main = <<>>
  /\ ci = <<>>
  /\ tagged = {}
  /\ running = {}
  /\ compared = {}
  /\ published = {}
  /\ baseline = <<>>
  /\ chain = <<>>

-----------------------------------------------------------------------------

\* compatibility:check on a checkout of head with base as its --base-ref
\* exits with 0.
Passes(base, head) ==
  GateOk(base.version, head.version, Level[<<base.contract, head.contract>>],
         IF base.version \in head.documents THEN "complete" ELSE "missing")

CheckPasses(b, p) == Passes(main[b], main[p])

\* A push to main starts a CI run and cancels the one in progress.
Push(commit) ==
  /\ Len(main) < MaxCommits
  /\ main' = Append(main, commit)
  /\ ci' = [p \in 1 .. Len(main) + 1 |->
              IF p > Len(main) THEN "running"
              ELSE IF ci[p] = "running" THEN "cancelled" ELSE ci[p]]
  /\ baseline' = [p \in 1 .. Len(main) + 1 |-> IF p > Len(main) THEN 0 ELSE baseline[p]]
  /\ chain' = [p \in 1 .. Len(main) + 1 |-> IF p > Len(main) THEN {} ELSE chain[p]]
  /\ UNCHANGED <<tagged, running, compared, published>>

\* Mutant of CiPasses: the result of the compatibility step is ignored.
CiPassesUnchecked(p) ==
  /\ ci[p] = "running"
  /\ ci' = [ci EXCEPT ![p] = "passed"]
  /\ UNCHANGED <<main, tagged, running, compared, published, baseline, chain>>

\* The initial push has no commit before it: package checks still apply.
CiPasses(p) ==
  /\ ci[p] = "running"
  /\ p > 1 => CheckPasses(p - 1, p)
  /\ ci' = [ci EXCEPT ![p] = "passed"]
  /\ UNCHANGED <<main, tagged, running, compared, published, baseline, chain>>

\* Every other step of the job may fail as well.
CiFails(p) ==
  /\ ci[p] = "running"
  /\ ci' = [ci EXCEPT ![p] = "failed"]
  /\ UNCHANGED <<main, tagged, running, compared, published, baseline, chain>>

\* A tag name exists once; the runbook tags commits whose CI passed and never
\* moves a tag.  Nothing in the workflows asks for it, nor for tags in order.
Tag(p) ==
  /\ p \notin tagged
  /\ \A q \in tagged : main[q].version # main[p].version
  /\ Orderly => ci[p] = "passed" /\ \A q \in tagged : q < p
  /\ tagged' = tagged \cup {p}
  /\ UNCHANGED <<main, ci, running, compared, published, baseline, chain>>

\* Mutant of PrecedingTags: git describe starts at the tagged commit itself.
TagsUpTo(p) == {q \in tagged : q <= p}

\* git describe --tags --abbrev=0 "$GITHUB_SHA^"
PrecedingTags(p) == {q \in tagged : q < p}

IsPrecedingTag(b, p) ==
  /\ b \in PrecedingTags(p)
  /\ \A q \in PrecedingTags(p) : q <= b

\* A release run, first or rerun, gets past the compatibility step; the runs
\* of one tag exclude each other (the concurrency group).
Compare(p, b) ==
  /\ p \notin running \cup published
  /\ \/ b = 0 /\ PrecedingTags(p) = {}
     \/ IsPrecedingTag(b, p) /\ CheckPasses(b, p)
  /\ running' = running \cup {p}
  /\ compared' = compared \cup {p}
  /\ baseline' = [baseline EXCEPT ![p] = b]
  /\ chain' = [chain EXCEPT ![p] = IF b = 0 THEN {} ELSE {b} \cup chain[b]]
  /\ UNCHANGED <<main, ci, tagged, published>>

Publish(p) ==
  /\ running' = running \ {p}
  /\ published' = published \cup {p}
  /\ UNCHANGED <<main, ci, tagged, compared, baseline, chain>>

\* A later step fails, or the job is out of time.
Abort(p) ==
  /\ running' = running \ {p}
  /\ UNCHANGED <<main, ci, tagged, compared, published, baseline, chain>>

Next ==
  \/ \E commit \in Commit : Push(commit)
  \/ \E p \in Positions : CiPasses(p) \/ CiFails(p) \/ Tag(p)
  \/ \E p \in tagged, b \in tagged \cup {0} : Compare(p, b)
  \/ \E p \in running : Publish(p) \/ Abort(p)

Spec == Init /\ [][Next]_vars

-----------------------------------------------------------------------------

\* The two versions announce at least what separates the two contracts.
Announces(base, head) ==
  /\ base.version \in Version
  /\ head.version \in Version
  /\ AtMost(base.version, head.version)
  /\ Weight(Level[<<base.contract, head.contract>>])
       <= Allowance(base.version, head.version)

Announced(p, q) == Announces(main[p], main[q])

\* While no push of a stretch of main was cancelled or failed, the versions
\* at its ends announce what changed between them, however many pushes lie
\* in between and whatever those moved back and forth (ci.yml's base is only
\* ever the one commit before).
MainAnnouncesChanges ==
  \A p, q \in Positions :
    (p < q /\ \A r \in p + 1 .. q : ci[r] = "passed") => Announced(p, q)

\* A published version announces everything that separates it from each
\* version its release run reaches from base to base, not only from the
\* base it was compared with.
ReleaseAnnouncesChanges ==
  \A p \in published : \A q \in chain[p] : q < p /\ Announced(q, p)

\* What a consumer relies on, when tags follow main: of two published versions
\* the later one is the higher one, and a range that admits both holds no
\* breaking change, not even one assembled from several releases.  The tags in
\* between need not be published, but their runs must have been compared.
PublishedAnnounceChanges ==
  \A p, q \in published :
    (p < q /\ \A t \in tagged : p < t /\ t < q => t \in compared) => Announced(p, q)

\* release.yml's step "Check compatibility against preceding release": each
\* published version announces what separates it from the one before it.
PrecedingReleaseAnnounced ==
  \A p, q \in published :
    (p < q /\ \A r \in published : r <= p \/ r >= q) => Announced(p, q)
=============================================================================
