----------------------------- MODULE ReleaseJob -----------------------------
(***************************************************************************)
(* The publish job of .github/workflows/release.yml against the npm        *)
(* registry: one run per pushed tag and commit, run again by hand when it  *)
(* fails, a publish request that may land after the job was killed, and a  *)
(* registry whose npm view lags behind what it has accepted.               *)
(*                                                                         *)
(* A fault is a step that fails for a reason outside the commit: a network *)
(* error, the 20-minute timeout, an npm view that answers nothing.         *)
(***************************************************************************)
EXTENDS Naturals, FiniteSets

CONSTANTS
  Commits,
  VersionOf,     \* VersionOf[c]: the version in c's package.json
  Acceptable,    \* commits that pass check, compatibility, plan, dist and smoke
  Run,           \* <<tag, commit>>, see below
  None,          \* the registry has no such version
  MaxAttempts,   \* max_attempts of the polling loop
  MaxFaults,     \* bound on faults
  Runbook        \* do people follow RUNBOOK.md? (never move a tag, rerun only
                 \* while npm lacks the version or serves it from the tag)

Versions == {VersionOf[c] : c \in Commits}

ASSUME JobAssumption ==
  /\ Run \subseteq Versions \X Commits
  /\ Acceptable \subseteq Commits
  /\ DOMAIN VersionOf = Commits
  /\ None \notin Commits
  /\ MaxAttempts \in Nat \ {0} /\ MaxFaults \in Nat
  /\ Runbook \in BOOLEAN

\* A run belongs to a tag, written as the version it names, and to the commit
\* it pointed at when it was pushed; a rerun keeps both.
Tag(r) == r[1]
Sha(r) == r[2]
PackageVersion(r) == VersionOf[Sha(r)]

VARIABLES
  main,        \* commits contained in origin/main
  tag,         \* tag[v]: the commit v's tag points at, None without a tag
  step,        \* step[r]: where the run is
  found,       \* found[r]: the output already_published of the step npm_state
  attempts,    \* attempts[r]: polling attempts made
  registry,    \* registry[v]: the commit (gitHead) npm serves v from
  visible,     \* versions npm view can see
  abandoned,   \* publish requests under way whose job is gone
  faults       \* faults so far

vars == <<main, tag, step, found, attempts, registry, visible, abandoned, faults>>

Running == {"ancestor", "tag", "npm", "anchor", "checks", "publish", "await", "poll", "smoke"}
Ended == {"succeeded", "failed", "cancelled"}

TypeOK ==
  /\ main \subseteq Commits
  /\ tag \in [Versions -> Commits \cup {None}]
  /\ step \in [Run -> {"none", "queued"} \cup Running \cup Ended]
  /\ found \in [Run -> BOOLEAN]
  /\ attempts \in [Run -> 0 .. MaxAttempts]
  /\ registry \in [Versions -> Commits \cup {None}]
  /\ visible \subseteq {v \in Versions : registry[v] # None}
  /\ abandoned \subseteq Run
  /\ faults \in 0 .. MaxFaults

Init ==
  /\ main = {}
  /\ tag = [v \in Versions |-> None]
  /\ step = [r \in Run |-> "none"]
  /\ found = [r \in Run |-> FALSE]
  /\ attempts = [r \in Run |-> 0]
  /\ registry = [v \in Versions |-> None]
  /\ visible = {}
  /\ abandoned = {}
  /\ faults = 0

-----------------------------------------------------------------------------

Merge(c) ==
  /\ c \notin main
  /\ main' = main \cup {c}
  /\ UNCHANGED <<tag, step, found, attempts, registry, visible, abandoned, faults>>

\* The concurrency group of the tag has one place to wait in: a run that
\* enters it cancels the one that waits there.
Enqueue(r) ==
  step' = [q \in Run |-> IF q = r THEN "queued"
                         ELSE IF Tag(q) = Tag(r) /\ step[q] = "queued" THEN "cancelled"
                         ELSE step[q]]

PushTag(r) ==
  /\ tag[Tag(r)] # Sha(r)
  /\ Runbook => tag[Tag(r)] = None
  /\ step[r] \in {"none", "failed", "cancelled"}
  /\ tag' = [tag EXCEPT ![Tag(r)] = Sha(r)]
  /\ Enqueue(r)
  /\ UNCHANGED <<main, found, attempts, registry, visible, abandoned, faults>>

Rerun(r) ==
  /\ step[r] \in {"failed", "cancelled"}
  /\ Runbook => /\ tag[Tag(r)] = Sha(r)
                /\ registry[Tag(r)] \in {None, Sha(r)}
  /\ Enqueue(r)
  /\ UNCHANGED <<main, tag, found, attempts, registry, visible, abandoned, faults>>

\* cancel-in-progress: false, so a run waits for the one before it.
Start(r) ==
  /\ step[r] = "queued"
  /\ \A q \in Run : Tag(q) = Tag(r) => step[q] \notin Running
  /\ step' = [step EXCEPT ![r] = "ancestor"]
  /\ found' = [found EXCEPT ![r] = FALSE]
  /\ attempts' = [attempts EXCEPT ![r] = 0]
  /\ UNCHANGED <<main, tag, registry, visible, abandoned, faults>>

Goto(r, s) == step' = [step EXCEPT ![r] = s]

\* Mutant of CheckAncestor: no check.
CheckAncestorSkipped(r) ==
  /\ step[r] = "ancestor"
  /\ Goto(r, "tag")
  /\ UNCHANGED <<main, tag, found, attempts, registry, visible, abandoned, faults>>

CheckAncestor(r) ==
  /\ step[r] = "ancestor"
  /\ Goto(r, IF Sha(r) \in main THEN "tag" ELSE "failed")
  /\ UNCHANGED <<main, tag, found, attempts, registry, visible, abandoned, faults>>

CheckTag(r) ==
  /\ step[r] = "tag"
  /\ Goto(r, IF Tag(r) = PackageVersion(r) THEN "npm" ELSE "failed")
  /\ UNCHANGED <<main, tag, found, attempts, registry, visible, abandoned, faults>>

\* npm view answers whether it sees the version; an error counts as a no.
Views(v, answer) ==
  \/ answer = (v \in visible) /\ UNCHANGED faults
  \/ ~ answer /\ v \in visible /\ faults < MaxFaults /\ faults' = faults + 1

\* Mutant of CheckNpm: every run publishes.
CheckNpmSkipped(r) ==
  /\ step[r] = "npm"
  /\ Goto(r, "checks")
  /\ UNCHANGED <<main, tag, found, attempts, registry, visible, abandoned, faults>>

CheckNpm(r) ==
  /\ step[r] = "npm"
  /\ \E answer \in BOOLEAN :
       /\ Views(PackageVersion(r), answer)
       /\ found' = [found EXCEPT ![r] = answer]
       /\ Goto(r, IF answer THEN "anchor" ELSE "checks")
  /\ UNCHANGED <<main, tag, attempts, registry, visible, abandoned>>

CheckAnchor(r) ==
  /\ step[r] = "anchor"
  /\ Goto(r, IF registry[PackageVersion(r)] = Sha(r) THEN "checks" ELSE "failed")
  /\ UNCHANGED <<main, tag, found, attempts, registry, visible, abandoned, faults>>

\* Mutant of Checks: their results are ignored.
ChecksIgnored(r) ==
  /\ step[r] = "checks"
  /\ Goto(r, IF found[r] THEN "poll" ELSE "publish")
  /\ UNCHANGED <<main, tag, found, attempts, registry, visible, abandoned, faults>>

\* check, compatibility, export plan, generated dist and packed consumer
Checks(r) ==
  /\ step[r] = "checks"
  /\ Goto(r, IF Sha(r) \notin Acceptable THEN "failed"
             ELSE IF found[r] THEN "poll" ELSE "publish")
  /\ UNCHANGED <<main, tag, found, attempts, registry, visible, abandoned, faults>>

Publish(r) ==
  /\ step[r] = "publish"
  /\ Goto(r, "await")
  /\ UNCHANGED <<main, tag, found, attempts, registry, visible, abandoned, faults>>

\* The registry takes a version once.
Accept(r) ==
  registry' = IF registry[PackageVersion(r)] = None
              THEN [registry EXCEPT ![PackageVersion(r)] = Sha(r)] ELSE registry

Answer(r) ==
  /\ step[r] = "await"
  /\ Accept(r)
  /\ Goto(r, IF registry[PackageVersion(r)] = None THEN "poll" ELSE "failed")
  /\ UNCHANGED <<main, tag, found, attempts, visible, abandoned, faults>>

\* The request of a job that is gone lands, or is lost.
LandLate(r) ==
  /\ r \in abandoned
  /\ abandoned' = abandoned \ {r}
  /\ Accept(r) \/ UNCHANGED registry
  /\ UNCHANGED <<main, tag, step, found, attempts, visible, faults>>

Propagate(v) ==
  /\ registry[v] # None
  /\ v \notin visible
  /\ visible' = visible \cup {v}
  /\ UNCHANGED <<main, tag, step, found, attempts, registry, abandoned, faults>>

\* Mutant of CountAttempt: the counter is not advanced.
CountNothing(r) == UNCHANGED attempts

CountAttempt(r) == attempts' = [attempts EXCEPT ![r] = @ + 1]

\* Mutant of AfterMiss: no exit 1 after the loop.
AfterMissFallsThrough(r) == IF attempts[r] + 1 < MaxAttempts THEN "poll" ELSE "smoke"

\* while [ "$attempt" -le "$max_attempts" ]; after the loop, exit 1
AfterMiss(r) == IF attempts[r] + 1 < MaxAttempts THEN "poll" ELSE "failed"

\* One turn of the polling loop: version, gitHead and integrity are all there,
\* the gitHead is another commit's, or something is missing still.
Poll(r) ==
  /\ step[r] = "poll"
  /\ \E answer \in BOOLEAN :
       /\ Views(PackageVersion(r), answer)
       /\ IF answer
          THEN /\ Goto(r, IF registry[PackageVersion(r)] = Sha(r) THEN "smoke" ELSE "failed")
               /\ UNCHANGED attempts
          ELSE CountAttempt(r) /\ Goto(r, AfterMiss(r))
  /\ UNCHANGED <<main, tag, found, registry, visible, abandoned>>

SmokePublished(r) ==
  /\ step[r] = "smoke"
  /\ Goto(r, "succeeded")
  /\ UNCHANGED <<main, tag, found, attempts, registry, visible, abandoned, faults>>

Fails(r) ==
  /\ step[r] \in Running
  /\ faults < MaxFaults
  /\ faults' = faults + 1
  /\ Goto(r, "failed")
  /\ abandoned' = IF step[r] = "await" THEN abandoned \cup {r} ELSE abandoned
  /\ UNCHANGED <<main, tag, found, attempts, registry, visible>>

JobStep(r) ==
  \/ Start(r) \/ CheckAncestor(r) \/ CheckTag(r) \/ CheckNpm(r) \/ CheckAnchor(r)
  \/ Checks(r) \/ Publish(r) \/ Answer(r) \/ Poll(r) \/ SmokePublished(r)

Next ==
  \/ \E c \in Commits : Merge(c)
  \/ \E r \in Run : PushTag(r) \/ Rerun(r) \/ JobStep(r) \/ Fails(r) \/ LandLate(r)
  \/ \E v \in Versions : Propagate(v)

\* GitHub runs what it has queued and every step of a job ends.
Spec == Init /\ [][Next]_vars /\ \A r \in Run : WF_vars(JobStep(r))

\* RUNBOOK.md in force: a failed release is run again, and what npm accepted
\* becomes visible at last.
RecoverySpec ==
  /\ Spec
  /\ \A r \in Run : WF_vars(Rerun(r))
  /\ \A v \in Versions : WF_vars(Propagate(v))

-----------------------------------------------------------------------------

\* release.yml:31-68,82-96: what npm serves passed every gate of the job, no
\* matter which tags were moved, which jobs died and which requests were late.
PublishedIsVetted ==
  \A v \in Versions : registry[v] # None =>
    registry[v] \in main \cap Acceptable /\ VersionOf[registry[v]] = v

\* release.yml:120-147: a run that succeeded vouches for its own commit, under
\* its own tag, and npm serves exactly that commit.
SuccessIsAnchored ==
  \A r \in Run : step[r] = "succeeded" =>
    /\ Tag(r) = PackageVersion(r) /\ Tag(r) \in visible
    /\ registry[Tag(r)] = Sha(r)

\* The commits whose release a run has reported as successful.
Reported == {Sha(r) : r \in {q \in Run : step[q] = "succeeded"}}

Promise == INSTANCE PublishPromise WITH source <- registry, reported <- Reported

\* The job keeps the promise of PublishPromise.
KeepsPromise == Promise!Spec

\* timeout and max_attempts: a run that waits its turn comes to an end.
RunsEnd == \A r \in Run : step[r] = "queued" ~> step[r] \in Ended

\* RUNBOOK.md:50: once a commit's version is on npm, running its workflow
\* again reports the release, however often it failed before.
Recovers ==
  \A r \in Run : registry[Tag(r)] = Sha(r) ~> step[r] = "succeeded"
=============================================================================
