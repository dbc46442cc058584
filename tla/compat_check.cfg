\* One run of the script over nine commits, with one move of the ref or edit
\* of the working tree.  The behaviour stops when run() has returned.
CONSTANTS
  NotSemVer = NotSemVer
  Files = {"a.yaml", "b.yaml", "no:file"}
  Unsafe = {"no:file"}
  Snapshots <- MCSnapshots
  Level <- MCLevel
  NoVersion = NoVersion
  Nothing = Nothing
  MaxDisturbances = 1
SPECIFICATION Spec
INVARIANTS
  LeavesNothingBehind
  ZeroIsEarned
  FailsClosed
  VerdictIsExact
PROPERTIES
  Terminates
CHECK_DEADLOCK FALSE
