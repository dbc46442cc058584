----------------------------- MODULE CompatCheck -----------------------------
(***************************************************************************)
(* One run of scripts/check-contract-compatibility.ts: copy the contracts  *)
(* at a git ref into a temporary directory, load both sides, compare, pass *)
(* the level to the SemVer gate and remove the directory on every way out. *)
(*                                                                         *)
(* A commit, and the working tree, is a snapshot: the version and the      *)
(* contract files it has (NoVersion when package.json names none), whether *)
(* the current parser can load them, and its migration document for the    *)
(* base at hand.  The ref may move and the working tree may be edited      *)
(* during the run (disturbances); git, the file system and the loaders may *)
(* fail at any step.                                                       *)
(***************************************************************************)
EXTENDS VersionGate, FiniteSets

CONSTANTS
  Files,            \* paths under contracts/
  Unsafe,           \* those assertSafeContractPath refuses
  Snapshots,        \* states of the ref and of the working tree
  Level,            \* Level[<<base, head>>] of two readable snapshots
  NoVersion,        \* package.json without a string version
  Nothing,          \* not read, not written
  MaxDisturbances   \* bound on moves of the ref and edits of the tree

Snapshot ==
  [version : Version \cup {NotSemVer, NoVersion}, files : SUBSET Files,
   readable : BOOLEAN, document : MigrationDocument]

ASSUME SnapshotsAssumption ==
  /\ Snapshots \subseteq Snapshot
  /\ Level \in [Snapshots \X Snapshots -> ChangeLevel]
  /\ NoVersion \notin Version \cup {NotSemVer}
  /\ Nothing \notin Snapshots
  /\ Unsafe \subseteq Files /\ IsFiniteSet(Files)
  /\ MaxDisturbances \in Nat

\* The three reads of the second Promise.all.
Reads == {"headContracts", "basePackage", "headPackage"}

VARIABLES
  pc,           \* where run() is
  ref,          \* the snapshot the ref names now
  worktree,     \* the snapshot of the working tree now
  disturbances, \* changes of either during the run
  root,         \* the temporary directory; "stuck" when rm has failed
  listing,      \* the files listed at the ref
  copied,       \* copied[f]: the snapshot whose f is in the directory
  tasks,        \* tasks[f]: the copy of f, see Task
  shown,        \* shown[f]: the snapshot git show read f from
  reads,        \* reads[r]: the snapshot r was read from, Nothing before that
  level,        \* the level of the report
  faults,       \* did a step fail that depends on git or the file system?
  code          \* exit code that run() is about to return

vars == <<pc, ref, worktree, disturbances, root, listing, copied, tasks, shown, reads, level, faults, code>>

Task == {"idle", "show", "mkdir", "write", "fulfilled", "rejected"}

Active == {f \in Files : tasks[f] \in {"show", "mkdir", "write"}}

Places == {"mkdtemp", "list", "copy", "read", "base", "gate", "cleanup", "returned"}

TypeOK ==
  /\ pc \in Places
  /\ ref \in Snapshots /\ worktree \in Snapshots
  /\ disturbances \in 0 .. MaxDisturbances
  /\ root \in {"none", "exists", "removed", "stuck"}
  /\ listing \subseteq Files
  /\ copied \in [Files -> Snapshots \cup {Nothing}]
  /\ tasks \in [Files -> Task]
  /\ shown \in [Files -> Snapshots \cup {Nothing}]
  /\ reads \in [Reads -> Snapshots \cup {Nothing}]
  /\ level \in ChangeLevel
  /\ faults \in BOOLEAN
  /\ code \in {0, 1}

Init ==
  /\ pc = "mkdtemp"
  /\ ref \in Snapshots
  /\ worktree \in Snapshots
  /\ disturbances = 0
  /\ root = "none"
  /\ listing = {}
  /\ copied = [f \in Files |-> Nothing]
  /\ tasks = [f \in Files |-> "idle"]
  /\ shown = [f \in Files |-> Nothing]
  /\ reads = [r \in Reads |-> Nothing]
  /\ level = "none"
  /\ faults = FALSE
  /\ code = 0

-----------------------------------------------------------------------------

\* catch: the run will return 1 after its finally block.
Throw == pc' = "cleanup" /\ code' = 1

\* A step that depends on git or on the file system fails.
Fault == Throw /\ faults' = TRUE

MakeRoot ==
  /\ pc = "mkdtemp"
  /\ \/ root' = "exists" /\ pc' = "list" /\ UNCHANGED <<faults, code>>
     \/ Fault /\ UNCHANGED root
  /\ UNCHANGED <<ref, worktree, disturbances, listing, copied, tasks, shown, reads, level>>

\* git ls-tree, then one task per file; all of them start before any awaits.
ListFiles ==
  /\ pc = "list"
  /\ \/ Fault /\ UNCHANGED <<listing, tasks>>
     \/ ref.files = {} /\ Throw /\ UNCHANGED <<listing, tasks, faults>>
     \/ /\ ref.files # {}
        /\ listing' = ref.files
        /\ tasks' = [f \in Files |-> IF f \notin ref.files THEN "idle"
                                    ELSE IF f \in Unsafe THEN "rejected" ELSE "show"]
        /\ pc' = "copy"
        /\ UNCHANGED <<faults, code>>
  /\ UNCHANGED <<ref, worktree, disturbances, root, copied, shown, reads, level>>

TaskFails(f) ==
  /\ f \in Active
  /\ tasks' = [tasks EXCEPT ![f] = "rejected"]
  /\ faults' = TRUE
  /\ UNCHANGED <<pc, ref, worktree, disturbances, root, listing, copied, shown, reads, level, code>>

\* git show <ref>:<path>, which resolves the ref again: it may have moved to
\* a commit that has no such file.
Show(f) ==
  /\ tasks[f] = "show"
  /\ IF f \in ref.files
     THEN tasks' = [tasks EXCEPT ![f] = "mkdir"] /\ shown' = [shown EXCEPT ![f] = ref]
     ELSE tasks' = [tasks EXCEPT ![f] = "rejected"] /\ UNCHANGED shown
  /\ UNCHANGED <<pc, ref, worktree, disturbances, root, listing, copied, reads, level, faults, code>>

\* mkdir -p creates the temporary directory again if it is gone.
MakeDirectory(f) ==
  /\ tasks[f] = "mkdir"
  /\ root' = "exists"
  /\ tasks' = [tasks EXCEPT ![f] = "write"]
  /\ UNCHANGED <<pc, ref, worktree, disturbances, listing, copied, shown, reads, level, faults, code>>

WriteFile(f) ==
  /\ tasks[f] = "write"
  /\ copied' = [copied EXCEPT ![f] = shown[f]]
  /\ tasks' = [tasks EXCEPT ![f] = "fulfilled"]
  /\ UNCHANGED <<pc, ref, worktree, disturbances, root, listing, shown, reads, level, faults, code>>

\* Mutants of Settled: Promise.all, which rejects with the first rejection, and
\* a join that waits for every task to fulfil.
SettledAtFirstRejection(fs) ==
  (\E f \in fs : tasks[f] = "rejected") \/ \A f \in fs : tasks[f] = "fulfilled"

SettledWhenFulfilled(fs) == \A f \in fs : tasks[f] = "fulfilled"

\* Promise.allSettled, then the first rejection is thrown.
Settled(fs) == \A f \in fs : tasks[f] \in {"fulfilled", "rejected"}

\* Mutant of JoinCopies: the results of allSettled are not looked at.
JoinCopiesUnseen ==
  /\ pc = "copy"
  /\ Settled(listing)
  /\ pc' = "read"
  /\ UNCHANGED <<ref, worktree, disturbances, root, listing, copied, tasks, shown, reads, level,
                 faults, code>>

JoinCopies ==
  /\ pc = "copy"
  /\ Settled(listing)
  /\ \/ /\ \E f \in listing : tasks[f] = "rejected"
        /\ Throw
     \/ /\ \A f \in listing : tasks[f] = "fulfilled"
        /\ pc' = "read"
        /\ UNCHANGED code
  /\ UNCHANGED <<ref, worktree, disturbances, root, listing, copied, tasks, shown, reads, level, faults>>

\* One of the three reads fulfils.
Read(r) ==
  /\ pc = "read"
  /\ reads[r] = Nothing
  /\ r = "headContracts" => worktree.readable
  /\ reads' = [reads EXCEPT ![r] = IF r = "basePackage" THEN ref ELSE worktree]
  /\ UNCHANGED <<pc, ref, worktree, disturbances, root, listing, copied, tasks, shown, level, faults, code>>

\* One of them rejects and Promise.all with it; the others are left to run
\* and only ever read.
ReadRejects(r) ==
  /\ pc = "read"
  /\ reads[r] = Nothing
  /\ \/ Fault
     \/ r = "headContracts" /\ ~ worktree.readable /\ Throw /\ UNCHANGED faults
  /\ UNCHANGED <<ref, worktree, disturbances, root, listing, copied, tasks, shown, reads, level>>

\* Both package.json texts are parsed.
JoinReads ==
  /\ pc = "read"
  /\ \A r \in Reads : reads[r] # Nothing
  /\ IF reads["basePackage"].version = NoVersion \/ reads["headPackage"].version = NoVersion
     THEN Throw
     ELSE pc' = "base" /\ UNCHANGED code
  /\ UNCHANGED <<ref, worktree, disturbances, root, listing, copied, tasks, shown, reads, level, faults>>

\* Mutant of UnreadableLevel: no change at all.
UnreadableLevelNone == "none"

\* The level a base that cannot be loaded is given.
UnreadableLevel == "breaking"

\* The directory holds the contracts of one commit.
IsCopyOf(s) ==
  /\ listing = s.files
  /\ \A f \in listing : copied[f] = s

\* compareAgainstMaterializedBase: the loader reads the temporary directory.
\* Whatever keeps it from reading the base is reported as a breaking change;
\* a mixture of commits may load and amount to anything.
LoadBase ==
  /\ pc = "base"
  /\ pc' = "gate"
  /\ \/ /\ faults' = TRUE
        /\ level' = UnreadableLevel
     \/ /\ UNCHANGED faults
        /\ \/ \E s \in Snapshots :
                /\ IsCopyOf(s)
                /\ level' = IF s.readable THEN Level[<<s, reads["headContracts"]>>]
                            ELSE UnreadableLevel
           \/ /\ \A s \in Snapshots : ~ IsCopyOf(s)
              /\ level' \in ChangeLevel
  /\ UNCHANGED <<ref, worktree, disturbances, root, listing, copied, tasks, shown, reads, code>>

BaseVersion == reads["basePackage"].version
HeadVersion == reads["headPackage"].version

\* Mutant of Gate: the verdict of the preliminary evaluation is final.
PreliminaryGate ==
  /\ pc = "gate"
  /\ code' = IF GateOk(BaseVersion, HeadVersion, level, "missing") THEN 0 ELSE 1
  /\ pc' = "cleanup"
  /\ UNCHANGED <<ref, worktree, disturbances, root, listing, copied, tasks, shown, reads, level,
                 faults>>

\* The gate runs without the document first and again with it, if it asks for
\* one; reading the document is the await in between.
Gate ==
  /\ pc = "gate"
  /\ LET document == IF NeedsMigrationDocument(BaseVersion, HeadVersion, level)
                     THEN worktree.document ELSE "missing"
     IN \/ /\ code' = IF GateOk(BaseVersion, HeadVersion, level, document) THEN 0 ELSE 1
           /\ pc' = "cleanup"
           /\ UNCHANGED faults
        \/ NeedsMigrationDocument(BaseVersion, HeadVersion, level) /\ Fault
  /\ UNCHANGED <<ref, worktree, disturbances, root, listing, copied, tasks, shown, reads, level>>

\* finally: rm -r, if the directory was made; when rm itself fails run()
\* rejects and the process exits with 1.
Cleanup ==
  /\ pc = "cleanup"
  /\ pc' = "returned"
  /\ IF root = "none" THEN UNCHANGED <<root, copied, faults, code>>
     ELSE \/ /\ root' = "removed"
             /\ copied' = [f \in Files |-> Nothing]
             /\ UNCHANGED <<faults, code>>
          \/ root' = "stuck" /\ faults' = TRUE /\ code' = 1 /\ UNCHANGED copied
  /\ UNCHANGED <<ref, worktree, disturbances, listing, tasks, shown, reads, level>>

\* A fetch moves the ref, or somebody edits the working tree.
Disturb(s) ==
  /\ pc # "returned"
  /\ disturbances < MaxDisturbances
  /\ disturbances' = disturbances + 1
  /\ \/ ref' = s /\ UNCHANGED worktree
     \/ worktree' = s /\ UNCHANGED ref
  /\ UNCHANGED <<pc, root, listing, copied, tasks, shown, reads, level, faults, code>>

Run ==
  \/ MakeRoot \/ ListFiles \/ JoinCopies \/ JoinReads \/ LoadBase \/ Gate \/ Cleanup
  \/ \E f \in Files : Show(f) \/ MakeDirectory(f) \/ WriteFile(f) \/ TaskFails(f)
  \/ \E r \in Reads : Read(r) \/ ReadRejects(r)

Next == Run \/ \E s \in Snapshots : Disturb(s)

\* Child processes and file operations settle, one way or another.
Spec == Init /\ [][Next]_vars /\ WF_vars(Run)
-----------------------------------------------------------------------------

\* The comment at line 156: no copy is still running when the directory is
\* removed, so none of them makes it again; the directory is gone on every
\* way out, unless removing it failed.
LeavesNothingBehind ==
  pc = "returned" => root # "exists" /\ Active = {}

\* Exit code 0 is earned: every file at the ref was copied, whatever moved or
\* failed meanwhile, and the gate accepts the reported level between the two
\* versions that were read.
ZeroIsEarned ==
  pc = "returned" /\ code = 0 =>
    /\ listing # {} /\ \A f \in listing : shown[f] # Nothing /\ tasks[f] = "fulfilled"
    /\ reads["headContracts"].readable
    /\ \E d \in MigrationDocument : GateOk(BaseVersion, HeadVersion, level, d)

\* A failure of git, of the file system or of the base loader never lets a
\* change through: the run fails, or it calls the change breaking.
FailsClosed ==
  pc = "returned" /\ faults => code = 1 \/ level = "breaking"

\* Left alone, the script returns 0 exactly for a working tree whose change
\* against the base is announced by its version.
VerdictIsExact ==
  pc = "returned" /\ disturbances = 0 /\ ~ faults =>
    (code = 0 <=>
       /\ ref.files # {} /\ ref.files \cap Unsafe = {}
       /\ worktree.readable
       /\ NoVersion \notin {ref.version, worktree.version}
       /\ GateOk(ref.version, worktree.version,
                 IF ref.readable THEN Level[<<ref, worktree>>] ELSE "breaking",
                 worktree.document))

\* The script ends.
Terminates == <>(pc = "returned")
=============================================================================
