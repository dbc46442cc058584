-------------------------- MODULE ReleaseJobProofs --------------------------
(***************************************************************************)
(* The publish job keeps the promise of PublishPromise for any commits,    *)
(* tags, faults and length of the polling loop, whether or not people      *)
(* follow the runbook.                                                     *)
(***************************************************************************)
EXTENDS ReleaseJob, TLAPS

\* Steps behind a gate of the job.
OnMain == (Running \ {"ancestor"}) \cup {"succeeded"}
Matched == OnMain \ {"tag"}
Vetted == {"publish", "await", "poll", "smoke", "succeeded"}
Confirmed == {"smoke", "succeeded"}

JobTyped ==
  /\ step \in [Run -> {"none", "queued"} \cup Running \cup Ended]
  /\ registry \in [Versions -> Commits \cup {None}]
  /\ visible \subseteq Versions
  /\ abandoned \subseteq Run

GatesInv ==
  /\ \A r \in Run : step[r] \in OnMain => Sha(r) \in main
  /\ \A r \in Run : step[r] \in Matched => Tag(r) = PackageVersion(r)
  /\ \A r \in Run : step[r] \in Vetted => Sha(r) \in Acceptable
  /\ \A r \in abandoned : Sha(r) \in main \cap Acceptable

\* A run that left the polling loop saw its own commit, and npm keeps it.
AnchorInv ==
  \A r \in Run : step[r] \in Confirmed =>
    PackageVersion(r) \in visible /\ registry[PackageVersion(r)] = Sha(r)

JobInv == JobTyped /\ GatesInv /\ PublishedIsVetted /\ AnchorInv

USE DEF Running, Ended, OnMain, Matched, Vetted, Confirmed

LEMMA RunFacts ==
  ASSUME NEW r \in Run
  PROVE  Tag(r) \in Versions /\ Sha(r) \in Commits /\ PackageVersion(r) \in Versions
  BY JobAssumption DEF Tag, Sha, PackageVersion, Versions

LEMMA InitJobInv == Init => JobInv
  BY DEF Init, JobInv, JobTyped, GatesInv, PublishedIsVetted, AnchorInv

\* Queueing a run moves no other one past a gate.
LEMMA QueueKeeps ==
  ASSUME JobInv, NEW r \in Run, PushTag(r) \/ Rerun(r) PROVE JobInv'
<1>1. Enqueue(r) /\ UNCHANGED <<main, registry, visible, abandoned>>
  BY DEF PushTag, Rerun
<1> QED BY <1>1
  DEF Enqueue, JobInv, JobTyped, GatesInv, PublishedIsVetted, AnchorInv, PackageVersion, Tag, Sha

\* A step of one run that leaves the registry alone: it is enough to look at
\* the place the run goes to.
LEMMA MoveKeeps ==
  ASSUME JobInv, NEW r \in Run, NEW s \in {"queued"} \cup Running \cup Ended, Goto(r, s),
         UNCHANGED <<main, registry, visible>>,
         abandoned' \subseteq abandoned \/ (abandoned' = abandoned \cup {r} /\ step[r] = "await"),
         s \in OnMain => Sha(r) \in main,
         s \in Matched => Tag(r) = PackageVersion(r),
         s \in Vetted => Sha(r) \in Acceptable,
         s \in Confirmed =>
           PackageVersion(r) \in visible /\ registry[PackageVersion(r)] = Sha(r)
  PROVE  JobInv'
<1>1. JobTyped'
  BY DEF Goto, JobInv, JobTyped
<1>2. GatesInv'
  BY DEF Goto, JobInv, JobTyped, GatesInv, Sha, Tag, PackageVersion
<1>3. PublishedIsVetted'
  BY DEF JobInv, PublishedIsVetted
<1>4. AnchorInv'
  BY DEF Goto, JobInv, JobTyped, AnchorInv, PackageVersion, Sha
<1> QED BY <1>1, <1>2, <1>3, <1>4 DEF JobInv

\* A request of a vetted run reaches the registry.
LEMMA AcceptKeeps ==
  ASSUME JobInv, NEW r \in Run, Accept(r), Sha(r) \in main \cap Acceptable
  PROVE  /\ registry' \in [Versions -> Commits \cup {None}]
         /\ \A v \in Versions : registry'[v] # None =>
              registry'[v] \in main \cap Acceptable /\ VersionOf[registry'[v]] = v
         /\ \A v \in Versions : registry[v] # None => registry'[v] = registry[v]
         /\ registry[PackageVersion(r)] = None => registry'[PackageVersion(r)] = Sha(r)
  BY RunFacts DEF Accept, JobInv, JobTyped, PublishedIsVetted, PackageVersion

\* What AcceptKeeps says of the registry is all the invariant needs.
LEMMA GrownRegistryKeeps ==
  ASSUME JobInv,
         registry' \in [Versions -> Commits \cup {None}],
         \A v \in Versions : registry'[v] # None =>
           registry'[v] \in main \cap Acceptable /\ VersionOf[registry'[v]] = v,
         \A v \in Versions : registry[v] # None => registry'[v] = registry[v],
         UNCHANGED <<main, visible>>
  PROVE  /\ PublishedIsVetted'
         /\ \A r \in Run : step[r] \in Confirmed =>
              PackageVersion(r) \in visible' /\ registry'[PackageVersion(r)] = Sha(r)
<1>1. \A r \in Run : PackageVersion(r) \in Versions /\ Sha(r) # None
  BY RunFacts, JobAssumption
<1> QED BY <1>1 DEF JobInv, PublishedIsVetted, AnchorInv

LEMMA AnswerKeeps ==
  ASSUME JobInv, NEW r \in Run, Answer(r) PROVE JobInv'
<1>1. Sha(r) \in main \cap Acceptable /\ Tag(r) = PackageVersion(r)
  BY DEF Answer, JobInv, GatesInv
<1>2. UNCHANGED <<main, visible, abandoned>> /\ Accept(r)
  BY DEF Answer
<1>3. PICK s \in {"poll", "failed"} : Goto(r, s)
  BY DEF Answer
<1>4. PublishedIsVetted' /\ registry' \in [Versions -> Commits \cup {None}]
  BY <1>1, <1>2, AcceptKeeps, GrownRegistryKeeps
<1>5. \A q \in Run : step[q] \in Confirmed =>
        PackageVersion(q) \in visible' /\ registry'[PackageVersion(q)] = Sha(q)
  BY <1>1, <1>2, AcceptKeeps, GrownRegistryKeeps
<1>6. JobTyped'
  BY <1>2, <1>3, <1>4 DEF Goto, JobInv, JobTyped
<1>7. GatesInv'
  BY <1>1, <1>2, <1>3 DEF Goto, JobInv, JobTyped, GatesInv, Sha, Tag, PackageVersion
<1>8. AnchorInv'
  BY <1>3, <1>5 DEF Goto, JobInv, JobTyped, AnchorInv, PackageVersion, Sha
<1> QED BY <1>4, <1>6, <1>7, <1>8 DEF JobInv

LEMMA LandLateKeeps ==
  ASSUME JobInv, NEW r \in Run, LandLate(r) PROVE JobInv'
<1>1. Sha(r) \in main \cap Acceptable
  BY DEF LandLate, JobInv, GatesInv
<1>2. /\ PublishedIsVetted' /\ registry' \in [Versions -> Commits \cup {None}]
      /\ \A q \in Run : step[q] \in Confirmed =>
           PackageVersion(q) \in visible' /\ registry'[PackageVersion(q)] = Sha(q)
  <2>1. CASE Accept(r)
    BY <1>1, <2>1, AcceptKeeps, GrownRegistryKeeps DEF LandLate
  <2>2. CASE UNCHANGED registry
    BY <2>2 DEF LandLate, JobInv, JobTyped, PublishedIsVetted, AnchorInv
  <2> QED BY <2>1, <2>2 DEF LandLate
<1> QED BY <1>2
  DEF LandLate, JobInv, JobTyped, GatesInv, AnchorInv, PackageVersion, Sha, Tag

LEMMA JobStepKeeps ==
  ASSUME JobInv, NEW r \in Run, JobStep(r) \/ Fails(r) PROVE JobInv'
<1>1. CASE Start(r)
  BY <1>1, MoveKeeps DEF Start, Goto
<1>2. CASE CheckAncestor(r)
  BY <1>2, MoveKeeps DEF CheckAncestor
<1>3. CASE CheckTag(r)
  BY <1>3, MoveKeeps DEF CheckTag, JobInv, GatesInv
<1>4. CASE CheckNpm(r)
  BY <1>4, MoveKeeps DEF CheckNpm, JobInv, GatesInv
<1>5. CASE CheckAnchor(r)
  BY <1>5, MoveKeeps DEF CheckAnchor, JobInv, GatesInv
<1>6. CASE Checks(r)
  BY <1>6, MoveKeeps DEF Checks, JobInv, GatesInv
<1>7. CASE Publish(r)
  BY <1>7, MoveKeeps DEF Publish, JobInv, GatesInv
<1>8. CASE Answer(r)
  BY <1>8, AnswerKeeps
<1>9. CASE Poll(r)
  <2>1. PICK answer \in BOOLEAN :
          /\ Views(PackageVersion(r), answer)
          /\ IF answer
             THEN Goto(r, IF registry[PackageVersion(r)] = Sha(r) THEN "smoke" ELSE "failed")
             ELSE Goto(r, AfterMiss(r))
    BY <1>9 DEF Poll
  <2>2. answer => PackageVersion(r) \in visible
    BY <2>1 DEF Views
  <2>3. UNCHANGED <<main, registry, visible, abandoned>> /\ step[r] = "poll"
    BY <1>9 DEF Poll
  <2> QED BY <2>1, <2>2, <2>3, MoveKeeps DEF AfterMiss, JobInv, GatesInv
<1>10. CASE SmokePublished(r)
  BY <1>10, MoveKeeps DEF SmokePublished, JobInv, GatesInv, AnchorInv
<1>11. CASE Fails(r)
  BY <1>11, MoveKeeps DEF Fails
<1> QED BY <1>1, <1>2, <1>3, <1>4, <1>5, <1>6, <1>7, <1>8, <1>9, <1>10, <1>11 DEF JobStep

LEMMA StepJobInv == JobInv /\ [Next]_vars => JobInv'
<1> SUFFICES ASSUME JobInv, [Next]_vars PROVE JobInv'
  OBVIOUS
<1>1. ASSUME NEW c \in Commits, Merge(c) PROVE JobInv'
  BY <1>1 DEF Merge, JobInv, JobTyped, GatesInv, PublishedIsVetted, AnchorInv, PackageVersion, Tag, Sha
<1>2. ASSUME NEW v \in Versions, Propagate(v) PROVE JobInv'
  BY <1>2 DEF Propagate, JobInv, JobTyped, GatesInv, PublishedIsVetted, AnchorInv, PackageVersion, Tag, Sha
<1>3. CASE UNCHANGED vars
  BY <1>3 DEF vars, JobInv, JobTyped, GatesInv, PublishedIsVetted, AnchorInv, PackageVersion, Tag, Sha
<1> QED BY <1>1, <1>2, <1>3, QueueKeeps, JobStepKeeps, LandLateKeeps DEF Next

LEMMA JobInvariant == Spec => []JobInv
  BY InitJobInv, StepJobInv, PTL DEF Spec

-----------------------------------------------------------------------------

\* What npm serves passed every gate of the job: moved tags, dead jobs and
\* late requests included.
THEOREM PublishedVetted == Spec => []PublishedIsVetted
<1>1. JobInv => PublishedIsVetted
  BY DEF JobInv
<1> QED BY <1>1, JobInvariant, PTL

\* A successful run vouches for the commit that npm serves under its tag.
THEOREM SuccessAnchored == Spec => []SuccessIsAnchored
<1>1. JobInv => SuccessIsAnchored
  BY DEF JobInv, GatesInv, AnchorInv, SuccessIsAnchored
<1> QED BY <1>1, JobInvariant, PTL

-----------------------------------------------------------------------------

LEMMA InitPromise == Init => Promise!Init
  BY DEF Init, Promise!Init, Reported, Versions

\* Nothing but the last step of a run changes which runs have succeeded.
LEMMA SameReports ==
  ASSUME \A q \in Run : step'[q] = "succeeded" <=> step[q] = "succeeded"
  PROVE  UNCHANGED Reported
  BY DEF Reported, Sha

\* A request that reaches the registry publishes, or changes nothing.
LEMMA AcceptPublishes ==
  ASSUME JobInv, NEW r \in Run, Accept(r), Sha(r) \in Acceptable, UNCHANGED Reported
  PROVE  Promise!Next \/ UNCHANGED <<registry, Reported>>
<1>1. CASE registry[PackageVersion(r)] = None
  <2>1. Promise!Publish(Sha(r))
    BY <1>1 DEF Accept, Promise!Publish, PackageVersion
  <2> QED BY <2>1, RunFacts DEF Promise!Next
<1>2. CASE registry[PackageVersion(r)] # None
  BY <1>2 DEF Accept
<1> QED BY <1>1, <1>2

LEMMA StepPromise ==
  JobInv /\ [Next]_vars => [Promise!Next]_<<registry, Reported>>
<1> SUFFICES ASSUME JobInv, [Next]_vars
             PROVE  Promise!Next \/ UNCHANGED <<registry, Reported>>
  OBVIOUS
<1>1. ASSUME NEW r \in Run, Answer(r)
      PROVE  Promise!Next \/ UNCHANGED <<registry, Reported>>
  <2>1. Accept(r) /\ Sha(r) \in Acceptable
    BY <1>1 DEF Answer, JobInv, GatesInv
  <2>2. UNCHANGED Reported
    BY <1>1, SameReports DEF Answer, Goto, JobInv, JobTyped
  <2> QED BY <2>1, <2>2, AcceptPublishes
<1>2. ASSUME NEW r \in Run, LandLate(r)
      PROVE  Promise!Next \/ UNCHANGED <<registry, Reported>>
  <2>1. (Accept(r) \/ UNCHANGED registry) /\ Sha(r) \in Acceptable
    BY <1>2 DEF LandLate, JobInv, GatesInv
  <2>2. UNCHANGED Reported
    BY <1>2, SameReports DEF LandLate
  <2> QED BY <2>1, <2>2, AcceptPublishes
<1>3. ASSUME NEW r \in Run, SmokePublished(r)
      PROVE  Promise!Next \/ UNCHANGED <<registry, Reported>>
  <2>1. registry[VersionOf[Sha(r)]] = Sha(r) /\ UNCHANGED registry
    BY <1>3 DEF SmokePublished, JobInv, AnchorInv, PackageVersion
  <2>2. \A q \in Run : step'[q] = "succeeded" <=> step[q] = "succeeded" \/ q = r
    BY <1>3 DEF SmokePublished, Goto, JobInv, JobTyped
  <2>3. Reported' = Reported \cup {Sha(r)}
    BY <2>2 DEF Reported, Sha
  <2>4. Promise!Report(Sha(r))
    BY <2>1, <2>3 DEF Promise!Report
  <2> QED BY <2>4, RunFacts DEF Promise!Next
<1>4. ASSUME NEW r \in Run,
             \/ Start(r) \/ CheckAncestor(r) \/ CheckTag(r) \/ CheckNpm(r)
             \/ CheckAnchor(r) \/ Checks(r) \/ Publish(r) \/ Poll(r) \/ Fails(r)
      PROVE  UNCHANGED <<registry, Reported>>
  <2>1. UNCHANGED registry
    BY <1>4 DEF Start, CheckAncestor, CheckTag, CheckNpm, CheckAnchor, Checks, Publish, Poll, Fails
  <2>2. step[r] # "succeeded" /\ \E s : s # "succeeded" /\ Goto(r, s)
    BY <1>4 DEF Start, CheckAncestor, CheckTag, CheckNpm, CheckAnchor, Checks, Publish, Poll,
        AfterMiss, Fails, Goto
  <2> QED BY <2>1, <2>2, SameReports DEF Goto, JobInv, JobTyped
<1>5. ASSUME NEW r \in Run, PushTag(r) \/ Rerun(r)
      PROVE  UNCHANGED <<registry, Reported>>
  BY <1>5, SameReports DEF PushTag, Rerun, Enqueue
<1>6. ASSUME NEW c \in Commits, Merge(c) PROVE UNCHANGED <<registry, Reported>>
  BY <1>6, SameReports DEF Merge
<1>7. ASSUME NEW v \in Versions, Propagate(v) PROVE UNCHANGED <<registry, Reported>>
  BY <1>7, SameReports DEF Propagate
<1>8. CASE UNCHANGED vars
  BY <1>8, SameReports DEF vars
<1> QED BY <1>1, <1>2, <1>3, <1>4, <1>5, <1>6, <1>7, <1>8 DEF Next, JobStep

\* The job implements PublishPromise: one source per version, for ever, and
\* success reported for that source only.
THEOREM JobKeepsPromise == Spec => KeepsPromise
  BY InitPromise, StepPromise, JobInvariant, PTL DEF Spec, KeepsPromise, Promise!Spec

-----------------------------------------------------------------------------
(* Types; the attempts of a run stay within max_attempts *)

\* A run that is still to poll has an attempt left.
AttemptsInv == \A r \in Run : step[r] \in Running \ {"smoke"} => attempts[r] < MaxAttempts

LEMMA InitTypes == Init => TypeOK /\ AttemptsInv
  BY JobAssumption DEF Init, TypeOK, AttemptsInv

\* Queueing a run takes it, or the one that waits, out of no step.
LEMMA QueueTypes ==
  ASSUME TypeOK, AttemptsInv, NEW r \in Run, PushTag(r) \/ Rerun(r)
  PROVE  TypeOK' /\ AttemptsInv'
<1>1. Enqueue(r) /\ UNCHANGED <<main, found, attempts, registry, visible, abandoned, faults>>
  BY DEF PushTag, Rerun
<1>2. tag' \in [Versions -> Commits \cup {None}]
  BY RunFacts DEF PushTag, Rerun, TypeOK
<1>3. \A q \in Run : step'[q] \in Running => step[q] = step'[q]
  BY <1>1 DEF Enqueue
<1>4. step' \in [Run -> {"none", "queued"} \cup Running \cup Ended]
  BY <1>1 DEF Enqueue, TypeOK
<1>5. AttemptsInv'
  BY <1>1, <1>3 DEF AttemptsInv
<1> QED BY <1>1, <1>2, <1>4, <1>5 DEF TypeOK

\* A step of one run that has an attempt left, or polls no more.
LEMMA MoveTypes ==
  ASSUME TypeOK, AttemptsInv, NEW r \in Run, NEW s \in Running \cup Ended, Goto(r, s),
         s \in Running \ {"smoke"} => step[r] \in Running \ {"smoke"},
         UNCHANGED <<main, tag, attempts, registry, visible>>,
         found' \in [Run -> BOOLEAN], abandoned' \subseteq Run, faults' \in 0 .. MaxFaults
  PROVE  TypeOK' /\ AttemptsInv'
<1>1. step' \in [Run -> {"none", "queued"} \cup Running \cup Ended]
  BY DEF Goto, TypeOK
<1>2. AttemptsInv'
  BY DEF Goto, TypeOK, AttemptsInv
<1> QED BY <1>1, <1>2 DEF TypeOK

LEMMA ViewsCounts ==
  ASSUME TypeOK, NEW v, NEW answer, Views(v, answer)
  PROVE  faults' \in 0 .. MaxFaults
  BY JobAssumption DEF Views, TypeOK

LEMMA PollTypes ==
  ASSUME TypeOK, AttemptsInv, NEW r \in Run, Poll(r)
  PROVE  TypeOK' /\ AttemptsInv'
<1>1. PICK answer \in BOOLEAN :
        /\ Views(PackageVersion(r), answer)
        /\ IF answer
           THEN /\ Goto(r, IF registry[PackageVersion(r)] = Sha(r) THEN "smoke" ELSE "failed")
                /\ UNCHANGED attempts
           ELSE CountAttempt(r) /\ Goto(r, AfterMiss(r))
  BY DEF Poll
<1>2. step[r] = "poll" /\ UNCHANGED <<main, tag, found, registry, visible, abandoned>>
  BY DEF Poll
<1>3. faults' \in 0 .. MaxFaults
  BY <1>1, ViewsCounts
<1>4. CASE answer
  BY <1>1, <1>2, <1>3, <1>4, MoveTypes DEF TypeOK
<1>5. CASE ~ answer
  <2>1. attempts[r] \in 0 .. MaxAttempts /\ attempts[r] < MaxAttempts
    BY <1>2 DEF TypeOK, AttemptsInv
  <2>2. attempts[r] + 1 \in 0 .. MaxAttempts
    BY <2>1, JobAssumption
  <2>3. attempts' = [attempts EXCEPT ![r] = attempts[r] + 1]
    BY <1>1, <1>5 DEF CountAttempt
  <2>4. attempts' \in [Run -> 0 .. MaxAttempts]
    BY <2>2, <2>3 DEF TypeOK
  <2>5. step' = [step EXCEPT ![r] = AfterMiss(r)]
    BY <1>1, <1>5 DEF Goto
  <2>6. step' \in [Run -> {"none", "queued"} \cup Running \cup Ended]
    BY <2>5 DEF AfterMiss, TypeOK
  <2>7. AttemptsInv'
    <3> SUFFICES ASSUME NEW q \in Run, step'[q] \in Running \ {"smoke"}
                 PROVE  attempts'[q] < MaxAttempts
      BY DEF AttemptsInv
    <3>1. CASE q = r
      BY <2>3, <2>5, <3>1 DEF AfterMiss, TypeOK
    <3>2. CASE q # r
      BY <2>3, <2>5, <3>2 DEF TypeOK, AttemptsInv
    <3> QED BY <3>1, <3>2
  <2> QED BY <1>2, <1>3, <2>4, <2>6, <2>7 DEF TypeOK
<1> QED BY <1>4, <1>5

LEMMA RegistryTypes ==
  ASSUME TypeOK, NEW r \in Run, Accept(r) \/ UNCHANGED registry
  PROVE  /\ registry' \in [Versions -> Commits \cup {None}]
         /\ visible \subseteq {v \in Versions : registry'[v] # None}
  BY RunFacts, JobAssumption DEF Accept, TypeOK

LEMMA JobStepTypes ==
  ASSUME TypeOK, AttemptsInv, NEW r \in Run, JobStep(r) \/ Fails(r)
  PROVE  TypeOK' /\ AttemptsInv'
<1>1. CASE Start(r)
  <2>1. TypeOK'
    BY <1>1, JobAssumption DEF Start, TypeOK
  <2>2. AttemptsInv'
    BY <1>1, JobAssumption DEF Start, TypeOK, AttemptsInv
  <2> QED BY <2>1, <2>2
<1>2. CASE CheckAncestor(r)
  BY <1>2, MoveTypes DEF CheckAncestor, TypeOK
<1>3. CASE CheckTag(r)
  BY <1>3, MoveTypes DEF CheckTag, TypeOK
<1>4. CASE CheckNpm(r)
  <2>1. PICK answer \in BOOLEAN : /\ Views(PackageVersion(r), answer)
                                  /\ found' = [found EXCEPT ![r] = answer]
                                  /\ Goto(r, IF answer THEN "anchor" ELSE "checks")
    BY <1>4 DEF CheckNpm
  <2>2. found' \in [Run -> BOOLEAN]
    BY <2>1 DEF TypeOK
  <2>3. faults' \in 0 .. MaxFaults
    BY <2>1, ViewsCounts
  <2> QED BY <1>4, <2>1, <2>2, <2>3, MoveTypes DEF CheckNpm, TypeOK
<1>5. CASE CheckAnchor(r)
  BY <1>5, MoveTypes DEF CheckAnchor, TypeOK
<1>6. CASE Checks(r)
  BY <1>6, MoveTypes DEF Checks, TypeOK
<1>7. CASE Publish(r)
  BY <1>7, MoveTypes DEF Publish, TypeOK
<1>8. CASE Answer(r)
  <2>1. /\ registry' \in [Versions -> Commits \cup {None}]
        /\ visible \subseteq {v \in Versions : registry'[v] # None}
    BY <1>8, RegistryTypes DEF Answer
  <2>2. step' \in [Run -> {"none", "queued"} \cup Running \cup Ended]
    BY <1>8 DEF Answer, Goto, TypeOK
  <2>3. AttemptsInv'
    BY <1>8 DEF Answer, Goto, TypeOK, AttemptsInv
  <2> QED BY <1>8, <2>1, <2>2, <2>3 DEF Answer, TypeOK
<1>9. CASE Poll(r)
  BY <1>9, PollTypes
<1>10. CASE SmokePublished(r)
  BY <1>10, MoveTypes DEF SmokePublished, TypeOK
<1>11. CASE Fails(r)
  <2>1. faults' \in 0 .. MaxFaults
    BY <1>11, JobAssumption DEF Fails, TypeOK
  <2> QED BY <1>11, <2>1, MoveTypes DEF Fails, TypeOK
<1> QED BY <1>1, <1>2, <1>3, <1>4, <1>5, <1>6, <1>7, <1>8, <1>9, <1>10, <1>11 DEF JobStep

\* What npm view sees is on npm, and a run polls no more often than max_attempts
\* says (release.yml:122-147), whatever was rerun and whatever failed.
THEOREM TypeCorrect == Spec => []TypeOK
<1>1. TypeOK /\ AttemptsInv /\ [Next]_vars => TypeOK' /\ AttemptsInv'
  <2> SUFFICES ASSUME TypeOK, AttemptsInv, [Next]_vars PROVE TypeOK' /\ AttemptsInv'
    OBVIOUS
  <2>1. ASSUME NEW c \in Commits, Merge(c) PROVE TypeOK' /\ AttemptsInv'
    BY <2>1 DEF Merge, TypeOK, AttemptsInv
  <2>2. ASSUME NEW v \in Versions, Propagate(v) PROVE TypeOK' /\ AttemptsInv'
    BY <2>2 DEF Propagate, TypeOK, AttemptsInv
  <2>3. ASSUME NEW r \in Run, LandLate(r) PROVE TypeOK' /\ AttemptsInv'
    <3>1. /\ registry' \in [Versions -> Commits \cup {None}]
          /\ visible \subseteq {v \in Versions : registry'[v] # None}
      BY <2>3, RegistryTypes DEF LandLate
    <3> QED BY <2>3, <3>1 DEF LandLate, TypeOK, AttemptsInv
  <2>4. CASE UNCHANGED vars
    BY <2>4 DEF vars, TypeOK, AttemptsInv
  <2> QED BY <2>1, <2>2, <2>3, <2>4, QueueTypes, JobStepTypes DEF Next
<1> QED BY <1>1, InitTypes, PTL DEF Spec
=============================================================================
