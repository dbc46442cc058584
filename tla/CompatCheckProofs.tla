-------------------------- MODULE CompatCheckProofs --------------------------
(***************************************************************************)
(* Safety of scripts/check-contract-compatibility.ts for any number of     *)
(* files, any set of commits and any number of disturbances and failures.  *)
(***************************************************************************)
EXTENDS CompatCheck, TLAPS

Earned ==
  /\ listing # {} /\ \A f \in listing : shown[f] # Nothing /\ tasks[f] = "fulfilled"
  /\ reads["headContracts"].readable
  /\ \E d \in MigrationDocument : GateOk(BaseVersion, HeadVersion, level, d)

Typed ==
  /\ pc \in Places
  /\ ref \in Snapshots /\ worktree \in Snapshots
  /\ listing \subseteq Files
  /\ tasks \in [Files -> Task]
  /\ shown \in [Files -> Snapshots \cup {Nothing}]
  /\ reads \in [Reads -> Snapshots \cup {Nothing}]

\* A file outside the listing has no task, a task that got past git show has
\* a text, and tasks are active only while run() waits for them.
TasksInv ==
  /\ \A f \in Files : f \notin listing => tasks[f] = "idle"
  /\ \A f \in Files : tasks[f] \in {"mkdir", "write", "fulfilled"} => shown[f] # Nothing
  /\ \A f \in Files : tasks[f] \in {"show", "mkdir", "write"} => pc = "copy"
  /\ pc = "copy" => listing # {}
  /\ pc \in {"read", "base", "gate"} =>
       listing # {} /\ \A f \in listing : tasks[f] = "fulfilled"

ReadsInv ==
  /\ reads["headContracts"] # Nothing => reads["headContracts"].readable
  /\ pc \in {"base", "gate"} => reads["headContracts"] # Nothing

\* A fault before the gate is a rejected copy that the join will find.
FaultsInv ==
  /\ faults /\ pc \notin {"gate", "cleanup", "returned"} =>
       pc = "copy" /\ \E f \in listing : tasks[f] = "rejected"
  /\ faults /\ pc = "gate" => level = "breaking"
  /\ faults /\ pc \in {"cleanup", "returned"} => code = 1 \/ level = "breaking"

EndInv ==
  /\ pc = "returned" => root # "exists"
  /\ pc \in {"cleanup", "returned"} /\ code = 0 => Earned

CheckInv == Typed /\ TasksInv /\ ReadsInv /\ FaultsInv /\ EndInv

USE DEF Places, Task, Reads

LEMMA InitCheckInv == Init => CheckInv
  BY SnapshotsAssumption
  DEF Init, CheckInv, Typed, TasksInv, ReadsInv, FaultsInv, EndInv

LEMMA MakeRootKeeps ==
  ASSUME CheckInv, MakeRoot PROVE CheckInv'
  BY DEF MakeRoot, Fault, Throw, CheckInv, Typed, TasksInv, ReadsInv, FaultsInv, EndInv

LEMMA ListFilesKeeps ==
  ASSUME CheckInv, ListFiles PROVE CheckInv'
<1>1. ref.files \subseteq Files
  BY SnapshotsAssumption DEF Snapshot, CheckInv, Typed
<1> QED BY <1>1
  DEF ListFiles, Fault, Throw, CheckInv, Typed, TasksInv, ReadsInv, FaultsInv, EndInv

LEMMA TaskKeeps ==
  ASSUME CheckInv, NEW f \in Files,
         Show(f) \/ MakeDirectory(f) \/ WriteFile(f) \/ TaskFails(f)
  PROVE  CheckInv'
<1>1. pc = "copy" /\ f \in listing
  BY DEF Show, MakeDirectory, WriteFile, TaskFails, Active, CheckInv, TasksInv
<1>2. CASE Show(f)
  BY <1>1, <1>2, SnapshotsAssumption
  DEF Show, CheckInv, Typed, TasksInv, ReadsInv, FaultsInv, EndInv
<1>3. CASE MakeDirectory(f)
  BY <1>1, <1>3
  DEF MakeDirectory, CheckInv, Typed, TasksInv, ReadsInv, FaultsInv, EndInv
<1>4. CASE WriteFile(f)
  BY <1>1, <1>4
  DEF WriteFile, CheckInv, Typed, TasksInv, ReadsInv, FaultsInv, EndInv
<1>5. CASE TaskFails(f)
  BY <1>1, <1>5
  DEF TaskFails, CheckInv, Typed, TasksInv, ReadsInv, FaultsInv, EndInv
<1> QED BY <1>2, <1>3, <1>4, <1>5

LEMMA JoinCopiesKeeps ==
  ASSUME CheckInv, JoinCopies PROVE CheckInv'
  BY DEF JoinCopies, Settled, Throw, CheckInv, Typed, TasksInv, ReadsInv, FaultsInv, EndInv

LEMMA ReadKeeps ==
  ASSUME CheckInv, NEW r \in Reads, Read(r) \/ ReadRejects(r) PROVE CheckInv'
<1>1. CASE Read(r)
  BY <1>1 DEF Read, CheckInv, Typed, TasksInv, ReadsInv, FaultsInv, EndInv
<1>2. CASE ReadRejects(r)
  BY <1>2 DEF ReadRejects, Fault, Throw, CheckInv, Typed, TasksInv, ReadsInv, FaultsInv, EndInv
<1> QED BY <1>1, <1>2

LEMMA JoinReadsKeeps ==
  ASSUME CheckInv, JoinReads PROVE CheckInv'
  BY DEF JoinReads, Throw, CheckInv, Typed, TasksInv, ReadsInv, FaultsInv, EndInv

LEMMA LoadBaseKeeps ==
  ASSUME CheckInv, LoadBase PROVE CheckInv'
  BY DEF LoadBase, UnreadableLevel, CheckInv, Typed, TasksInv, ReadsInv, FaultsInv, EndInv

LEMMA GateKeeps ==
  ASSUME CheckInv, Gate PROVE CheckInv'
<1>1. worktree.document \in MigrationDocument /\ "missing" \in MigrationDocument
  BY SnapshotsAssumption DEF Snapshot, MigrationDocument, CheckInv, Typed
<1>2. Typed' /\ TasksInv' /\ ReadsInv' /\ FaultsInv'
  BY DEF Gate, Fault, Throw, CheckInv, Typed, TasksInv, ReadsInv, FaultsInv
<1>3. pc' = "cleanup"
  BY DEF Gate, Fault, Throw
<1>4. ASSUME code' = 0 PROVE Earned'
  <2>1. \E d \in MigrationDocument : GateOk(BaseVersion, HeadVersion, level, d)
    BY <1>1, <1>4 DEF Gate, Fault, Throw
  <2>2. UNCHANGED <<listing, tasks, shown, reads, level>>
    BY DEF Gate
  <2>3. Earned
    BY <2>1 DEF Gate, Earned, CheckInv, TasksInv, ReadsInv, Typed
  <2> QED BY <2>2, <2>3 DEF Earned, BaseVersion, HeadVersion
<1> QED BY <1>2, <1>3, <1>4 DEF CheckInv, EndInv

LEMMA CleanupKeeps ==
  ASSUME CheckInv, Cleanup PROVE CheckInv'
<1>1. Earned => Earned'
  BY DEF Cleanup, Earned, BaseVersion, HeadVersion
<1> QED BY <1>1
  DEF Cleanup, CheckInv, Typed, TasksInv, ReadsInv, FaultsInv, EndInv

LEMMA DisturbKeeps ==
  ASSUME CheckInv, NEW s \in Snapshots, Disturb(s) PROVE CheckInv'
<1>1. Earned => Earned'
  BY DEF Disturb, Earned, BaseVersion, HeadVersion
<1> QED BY <1>1
  DEF Disturb, CheckInv, Typed, TasksInv, ReadsInv, FaultsInv, EndInv

LEMMA StepCheckInv == CheckInv /\ [Next]_vars => CheckInv'
<1> SUFFICES ASSUME CheckInv, [Next]_vars PROVE CheckInv'
  OBVIOUS
<1>1. CASE UNCHANGED vars
  <2>1. Earned => Earned'
    BY <1>1 DEF vars, Earned, BaseVersion, HeadVersion
  <2> QED BY <1>1, <2>1
    DEF vars, CheckInv, Typed, TasksInv, ReadsInv, FaultsInv, EndInv
<1>2. CASE Run
  BY <1>2, MakeRootKeeps, ListFilesKeeps, TaskKeeps, JoinCopiesKeeps, ReadKeeps,
     JoinReadsKeeps, LoadBaseKeeps, GateKeeps, CleanupKeeps DEF Run
<1>3. CASE \E s \in Snapshots : Disturb(s)
  BY <1>3, DisturbKeeps
<1> QED BY <1>1, <1>2, <1>3 DEF Next

LEMMA CheckInvariant == Spec => []CheckInv
  BY InitCheckInv, StepCheckInv, PTL DEF Spec

\* allSettled before the finally block is enough to leave no directory and no
\* running copy behind (the comment at line 156), whatever fails.
THEOREM NothingLeft == Spec => []LeavesNothingBehind
<1>1. CheckInv => LeavesNothingBehind
  BY DEF CheckInv, TasksInv, EndInv, LeavesNothingBehind, Active
<1> QED BY <1>1, CheckInvariant, PTL

\* Exit code 0 always rests on a complete copy of the base's contract files,
\* readable head contracts and an accepting gate.
THEOREM PassIsEarned == Spec => []ZeroIsEarned
<1>1. CheckInv => ZeroIsEarned
  BY DEF CheckInv, EndInv, Earned, ZeroIsEarned
<1> QED BY <1>1, CheckInvariant, PTL

\* No failure passes a change as anything but a breaking one.
THEOREM FaultsFailClosed == Spec => []FailsClosed
<1>1. CheckInv => FailsClosed
  BY DEF CheckInv, FaultsInv, FailsClosed
<1> QED BY <1>1, CheckInvariant, PTL

-----------------------------------------------------------------------------
(* The verdict of a run that nothing disturbs *)

Announced ==
  /\ ref.files # {} /\ ref.files \cap Unsafe = {}
  /\ worktree.readable
  /\ NoVersion \notin {ref.version, worktree.version}
  /\ GateOk(ref.version, worktree.version,
            IF ref.readable THEN Level[<<ref, worktree>>] ELSE "breaking",
            worktree.document)

\* The copies are those of the ref, and only unsafe files are refused.
CopiesQuiet ==
  /\ pc \in {"copy", "read", "base", "gate"} => listing = ref.files
  /\ pc = "copy" => \A f \in listing : tasks[f] = "rejected" <=> f \in Unsafe
  /\ \A f \in Files : tasks[f] \in {"mkdir", "write", "fulfilled"} => shown[f] = ref
  /\ \A f \in Files : tasks[f] = "fulfilled" /\ pc \notin {"cleanup", "returned"} => copied[f] = ref
  /\ pc \in {"read", "base", "gate"} => listing \cap Unsafe = {}

\* What was read is what is there still, and the level is that of the two.
ReadsQuiet ==
  /\ reads["basePackage"] \in {Nothing, ref}
  /\ reads["headContracts"] \in {Nothing, worktree}
  /\ reads["headPackage"] \in {Nothing, worktree}
  /\ pc \in {"base", "gate"} =>
       /\ \A r \in Reads : reads[r] # Nothing
       /\ NoVersion \notin {ref.version, worktree.version}
  /\ pc = "gate" => level = IF ref.readable THEN Level[<<ref, worktree>>] ELSE "breaking"

QuietInv ==
  /\ disturbances \in Nat /\ copied \in [Files -> Snapshots \cup {Nothing}]
  /\ disturbances = 0 /\ ~ faults =>
       /\ CopiesQuiet /\ ReadsQuiet
       /\ pc \in {"cleanup", "returned"} => (code = 0 <=> Announced)

\* The document is only looked at when it is needed.
LEMMA DocumentUnneeded ==
  ASSUME NEW base, NEW head, NEW l, NEW d, NEW e, ~ NeedsMigrationDocument(base, head, l)
  PROVE  GateOk(base, head, l, d) <=> GateOk(base, head, l, e)
  BY DEF GateOk, GateDiagnostics

LEMMA InitQuiet == Init => QuietInv
  BY DEF Init, QuietInv, CopiesQuiet, ReadsQuiet

LEMMA StartQuiet ==
  ASSUME CheckInv, QuietInv, MakeRoot \/ ListFiles PROVE QuietInv'
<1>1. CASE MakeRoot
  BY <1>1 DEF MakeRoot, Fault, Throw, QuietInv, CopiesQuiet, ReadsQuiet
<1>2. CASE ListFiles
  <2>1. ref.files \subseteq Files
    BY SnapshotsAssumption DEF Snapshot, CheckInv, Typed
  <2>2. CASE pc' = "copy"
    BY <1>2, <2>1, <2>2 DEF ListFiles, Fault, Throw, QuietInv, CopiesQuiet, ReadsQuiet
  <2>3. CASE pc' # "copy"
    BY <1>2, <2>3 DEF ListFiles, Fault, Throw, QuietInv, CopiesQuiet, ReadsQuiet, Announced
  <2> QED BY <2>2, <2>3
<1> QED BY <1>1, <1>2

LEMMA TaskQuiet ==
  ASSUME CheckInv, QuietInv, NEW f \in Files,
         Show(f) \/ MakeDirectory(f) \/ WriteFile(f) \/ TaskFails(f)
  PROVE  QuietInv'
<1>1. pc = "copy" /\ f \in listing /\ tasks \in [Files -> Task] /\ listing \subseteq Files
  BY DEF Show, MakeDirectory, WriteFile, TaskFails, Active, CheckInv, TasksInv, Typed
<1>2. CASE TaskFails(f)
  BY <1>2 DEF TaskFails, QuietInv
<1>3. ASSUME disturbances = 0, ~ faults, ~ TaskFails(f) PROVE CopiesQuiet'
  <2>1. CopiesQuiet
    BY <1>3 DEF QuietInv
  <2>2. CASE Show(f)
    <3>1. f \in ref.files
      BY <1>1, <2>1 DEF CopiesQuiet
    <3>2. shown' = [shown EXCEPT ![f] = ref] /\ shown \in [Files -> Snapshots \cup {Nothing}]
      BY <2>2, <3>1 DEF Show, CheckInv, Typed
    <3> QED BY <1>1, <2>1, <2>2, <3>1, <3>2 DEF Show, CopiesQuiet
  <2>3. CASE MakeDirectory(f)
    BY <1>1, <2>1, <2>3 DEF MakeDirectory, CopiesQuiet
  <2>4. CASE WriteFile(f)
    <3>1. shown[f] = ref /\ copied' = [copied EXCEPT ![f] = ref]
      BY <1>1, <2>1, <2>4 DEF CopiesQuiet, WriteFile
    <3>2. copied \in [Files -> Snapshots \cup {Nothing}]
      BY DEF QuietInv
    <3> QED BY <1>1, <2>1, <2>4, <3>1, <3>2 DEF WriteFile, CopiesQuiet
  <2> QED BY <1>3, <2>2, <2>3, <2>4
<1>4. ASSUME ~ TaskFails(f) PROVE QuietInv'
  <2>1. UNCHANGED <<pc, ref, worktree, disturbances, reads, level, faults, code>>
    BY <1>4 DEF Show, MakeDirectory, WriteFile
  <2>2. copied' \in [Files -> Snapshots \cup {Nothing}]
    BY <1>4 DEF Show, MakeDirectory, WriteFile, QuietInv, CheckInv, Typed
  <2> QED BY <1>1, <1>3, <1>4, <2>1, <2>2 DEF QuietInv, ReadsQuiet
<1> QED BY <1>2, <1>4

LEMMA JoinCopiesQuiet ==
  ASSUME CheckInv, QuietInv, JoinCopies PROVE QuietInv'
<1>1. ASSUME disturbances = 0, ~ faults PROVE listing = ref.files /\ CopiesQuiet /\ ReadsQuiet
  BY <1>1 DEF JoinCopies, QuietInv, CopiesQuiet
<1>2. CASE \E f \in listing : tasks[f] = "rejected"
  <2>1. pc' = "cleanup" /\ code' = 1
    BY <1>2 DEF JoinCopies, Throw
  <2>2. ASSUME disturbances = 0, ~ faults PROVE ~ Announced
    BY <1>1, <1>2, <2>2 DEF JoinCopies, CopiesQuiet, Announced
  <2> QED BY <1>1, <2>1, <2>2 DEF JoinCopies, QuietInv, CopiesQuiet, ReadsQuiet, Announced
<1>3. CASE \A f \in listing : tasks[f] = "fulfilled"
  BY <1>1, <1>3 DEF JoinCopies, Throw, QuietInv, CopiesQuiet, ReadsQuiet
<1> QED BY <1>2, <1>3 DEF JoinCopies

LEMMA ReadQuiet ==
  ASSUME CheckInv, QuietInv, NEW r \in Reads, Read(r) \/ ReadRejects(r) PROVE QuietInv'
<1>1. CASE Read(r)
  BY <1>1 DEF Read, CheckInv, Typed, QuietInv, CopiesQuiet, ReadsQuiet
<1>2. CASE ReadRejects(r)
  BY <1>2 DEF ReadRejects, Fault, Throw, QuietInv, CopiesQuiet, ReadsQuiet, Announced
<1> QED BY <1>1, <1>2

LEMMA JoinReadsQuiet ==
  ASSUME CheckInv, QuietInv, JoinReads PROVE QuietInv'
<1>1. ASSUME disturbances = 0, ~ faults
      PROVE  reads["basePackage"] = ref /\ reads["headPackage"] = worktree
  BY <1>1 DEF JoinReads, QuietInv, ReadsQuiet
<1> QED BY <1>1 DEF JoinReads, Throw, QuietInv, CopiesQuiet, ReadsQuiet, Announced

LEMMA LoadBaseQuiet ==
  ASSUME CheckInv, QuietInv, LoadBase PROVE QuietInv'
<1>1. CASE faults'
  BY <1>1 DEF LoadBase, QuietInv
<1>2. ASSUME disturbances = 0, ~ faults'
      PROVE  level' = IF ref.readable THEN Level[<<ref, worktree>>] ELSE "breaking"
  <2>1. ~ faults /\ CopiesQuiet /\ ReadsQuiet
    BY <1>2 DEF LoadBase, QuietInv
  <2>2. listing = ref.files /\ listing # {} /\ (\A f \in listing : copied[f] = ref)
    BY <2>1 DEF LoadBase, CheckInv, Typed, TasksInv, CopiesQuiet
  <2>3. IsCopyOf(ref) /\ ref \in Snapshots
    BY <2>2 DEF IsCopyOf, CheckInv, Typed
  <2>4. \A s \in Snapshots : IsCopyOf(s) => s = ref
    BY <2>2 DEF IsCopyOf
  <2>5. reads["headContracts"] = worktree
    BY <2>1 DEF LoadBase, ReadsQuiet
  <2> QED BY <1>2, <2>3, <2>4, <2>5 DEF LoadBase, UnreadableLevel
<1> QED BY <1>1, <1>2 DEF LoadBase, QuietInv, CopiesQuiet, ReadsQuiet

LEMMA GateQuiet ==
  ASSUME CheckInv, QuietInv, Gate PROVE QuietInv'
<1>1. CASE faults'
  BY <1>1 DEF Gate, Fault, Throw, QuietInv
<1>2. ASSUME disturbances = 0, ~ faults' PROVE code' = 0 <=> Announced
  <2>1. ~ faults /\ CopiesQuiet /\ ReadsQuiet
    BY <1>2 DEF Gate, Fault, QuietInv
  <2>2. /\ listing = ref.files /\ listing # {} /\ listing \cap Unsafe = {}
        /\ NoVersion \notin {ref.version, worktree.version}
        /\ level = IF ref.readable THEN Level[<<ref, worktree>>] ELSE "breaking"
    BY <2>1 DEF Gate, CheckInv, TasksInv, CopiesQuiet, ReadsQuiet
  <2>3. /\ reads["basePackage"] = ref /\ reads["headPackage"] = worktree
        /\ worktree.readable
    BY <2>1 DEF Gate, CheckInv, ReadsInv, ReadsQuiet
  <2>4. code' = 0 <=> GateOk(ref.version, worktree.version, level, worktree.document)
    BY <1>2, <2>3, DocumentUnneeded DEF Gate, Fault, BaseVersion, HeadVersion
  <2> QED BY <2>2, <2>3, <2>4 DEF Announced
<1>3. pc' = "cleanup" /\ UNCHANGED <<ref, worktree, disturbances, copied, tasks, shown, reads>>
  BY DEF Gate, Fault, Throw
<1>4. ~ faults' => ~ faults
  BY DEF Gate, Fault
<1>5. Announced' <=> Announced
  BY <1>3 DEF Announced
<1> QED BY <1>1, <1>2, <1>3, <1>4, <1>5 DEF QuietInv, CopiesQuiet, ReadsQuiet

LEMMA CleanupQuiet ==
  ASSUME CheckInv, QuietInv, Cleanup PROVE QuietInv'
<1>1. Announced' <=> Announced
  BY DEF Cleanup, Announced
<1> QED BY <1>1 DEF Cleanup, QuietInv, CopiesQuiet, ReadsQuiet

LEMMA StepQuiet == CheckInv /\ QuietInv /\ [Next]_vars => QuietInv'
<1> SUFFICES ASSUME CheckInv, QuietInv, [Next]_vars PROVE QuietInv'
  OBVIOUS
<1>1. CASE UNCHANGED vars
  <2>1. Announced' <=> Announced
    BY <1>1 DEF vars, Announced
  <2> QED BY <1>1, <2>1 DEF vars, QuietInv, CopiesQuiet, ReadsQuiet
<1>2. CASE Run
  BY <1>2, StartQuiet, TaskQuiet, JoinCopiesQuiet, ReadQuiet, JoinReadsQuiet, LoadBaseQuiet,
     GateQuiet, CleanupQuiet DEF Run
<1>3. CASE \E s \in Snapshots : Disturb(s)
  BY <1>3 DEF Disturb, QuietInv
<1> QED BY <1>1, <1>2, <1>3 DEF Next

\* Undisturbed, the script is exact for any files, snapshots and order of its
\* tasks: exit code 0 means that the version of the working tree announces what
\* separates it from the base, and whenever it does the code is 0.
THEOREM UndisturbedIsExact == Spec => []VerdictIsExact
<1>1. QuietInv => VerdictIsExact
  BY DEF QuietInv, VerdictIsExact, Announced
<1> QED BY <1>1, InitQuiet, StepQuiet, CheckInvariant, PTL DEF Spec

-----------------------------------------------------------------------------
(* Types *)

OtherTypes ==
  /\ disturbances \in 0 .. MaxDisturbances
  /\ root \in {"none", "exists", "removed", "stuck"}
  /\ copied \in [Files -> Snapshots \cup {Nothing}]
  /\ level \in ChangeLevel
  /\ faults \in BOOLEAN
  /\ code \in {0, 1}

LEMMA LoadBaseTypes ==
  ASSUME CheckInv, OtherTypes, LoadBase PROVE OtherTypes'
<1>1. reads["headContracts"] \in Snapshots
  BY DEF LoadBase, CheckInv, ReadsInv, Typed
<1>2. \A s \in Snapshots : Level[<<s, reads["headContracts"]>>] \in ChangeLevel
  BY <1>1, SnapshotsAssumption
<1>3. level' \in ChangeLevel
  BY <1>2 DEF LoadBase, UnreadableLevel, ChangeLevel
<1>4. faults' \in BOOLEAN
  BY DEF LoadBase, OtherTypes
<1> QED BY <1>3, <1>4 DEF LoadBase, OtherTypes

LEMMA StepOtherTypes == CheckInv /\ OtherTypes /\ [Next]_vars => OtherTypes'
<1> SUFFICES ASSUME CheckInv, OtherTypes, [Next]_vars PROVE OtherTypes'
  OBVIOUS
<1>1. CASE MakeRoot
  BY <1>1 DEF MakeRoot, Fault, Throw, OtherTypes
<1>2. CASE ListFiles
  BY <1>2 DEF ListFiles, Fault, Throw, OtherTypes
<1>3. CASE JoinCopies
  BY <1>3 DEF JoinCopies, Throw, OtherTypes
<1>4. CASE JoinReads
  BY <1>4 DEF JoinReads, Throw, OtherTypes
<1>5. CASE LoadBase
  BY <1>5, LoadBaseTypes
<1>6. CASE Gate
  BY <1>6 DEF Gate, Fault, Throw, OtherTypes
<1>7. CASE Cleanup
  BY <1>7 DEF Cleanup, OtherTypes
<1>8. ASSUME NEW f \in Files, Show(f) \/ MakeDirectory(f) \/ TaskFails(f) PROVE OtherTypes'
  BY <1>8 DEF Show, MakeDirectory, TaskFails, OtherTypes
<1>9. ASSUME NEW f \in Files, WriteFile(f) PROVE OtherTypes'
  BY <1>9 DEF WriteFile, OtherTypes, CheckInv, Typed
<1>10. ASSUME NEW r \in Reads, Read(r) \/ ReadRejects(r) PROVE OtherTypes'
  BY <1>10 DEF Read, ReadRejects, Fault, Throw, OtherTypes
<1>11. ASSUME NEW s \in Snapshots, Disturb(s) PROVE OtherTypes'
  BY <1>11, SnapshotsAssumption DEF Disturb, OtherTypes
<1>12. CASE UNCHANGED vars
  BY <1>12 DEF vars, OtherTypes
<1> QED BY <1>1, <1>2, <1>3, <1>4, <1>5, <1>6, <1>7, <1>8, <1>9, <1>10, <1>11, <1>12 DEF Next, Run

\* The variables have their types: above all, the level the gate gets is always
\* one the comparer knows, also for a base that is a mixture of commits.
THEOREM TypeCorrect == Spec => []TypeOK
<1>1. Init => OtherTypes
  <2>1. 0 \in 0 .. MaxDisturbances
    BY SnapshotsAssumption
  <2>2. "none" \in ChangeLevel
    BY DEF ChangeLevel
  <2> QED BY <2>1, <2>2 DEF Init, OtherTypes
<1>2. CheckInv /\ OtherTypes => TypeOK
  BY DEF CheckInv, Typed, OtherTypes, TypeOK
<1> QED BY <1>1, <1>2, StepOtherTypes, CheckInvariant, PTL DEF Spec
=============================================================================
