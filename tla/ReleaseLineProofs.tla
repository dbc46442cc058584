------------------------- MODULE ReleaseLineProofs -------------------------
(***************************************************************************)
(* The promises of ReleaseLine for every contract set, every comparer that *)
(* satisfies LevelAssumption, every set of versions and any length of      *)
(* main, from facts about the SemVer gate that hold of every version.      *)
(*                                                                         *)
(* Announces is a transitive relation on commits (AnnouncesTransitive)     *)
(* that the check establishes between a commit and its base                *)
(* (PassingAnnounces).  Each invariant says between which positions a      *)
(* chain of passed checks exists; a step adds one link at most.            *)
(***************************************************************************)
EXTENDS ReleaseLine, TLAPS

\* AtMost is a total order on versions: the fact every argument about a
\* chain of releases rests on.
LEMMA AtMostOrder ==
  ASSUME NEW u \in Version, NEW v \in Version, NEW w \in Version
  PROVE  /\ AtMost(u, u)
         /\ AtMost(u, v) \/ AtMost(v, u)
         /\ AtMost(u, v) /\ AtMost(v, u) => u = v
         /\ AtMost(u, v) /\ AtMost(v, w) => AtMost(u, w)
BY DEF AtMost, Before, Version

LEMMA WeightType ==
  ASSUME NEW level \in ChangeLevel
  PROVE  Weight(level) \in 0 .. 3
BY DEF ChangeLevel, Weight

LEMMA AllowanceType ==
  ASSUME NEW u \in Version, NEW v \in Version
  PROVE  Allowance(u, v) \in 0 .. 3
BY DEF Allowance

\* Between u and w nothing may separate a pair of versions by more than u
\* and w themselves announce.
LEMMA AllowanceMonotone ==
  ASSUME NEW u \in Version, NEW v \in Version, NEW w \in Version,
         AtMost(u, v), AtMost(v, w)
  PROVE  /\ Allowance(u, v) <= Allowance(u, w)
         /\ Allowance(v, w) <= Allowance(u, w)
<1>1. CASE u = w
  BY <1>1, AtMostOrder DEF Allowance
<1>2. CASE u # w /\ u.major = w.major /\ u.minor = w.minor
  <2>1. v.major = u.major /\ v.minor = u.minor
    BY <1>2 DEF AtMost, Before, Version
  <2> QED BY <1>2, <2>1 DEF Allowance
<1>3. CASE u # w /\ u.major = w.major /\ u.minor # w.minor /\ u.major > 0
  <2>1. v.major = u.major
    BY <1>3 DEF AtMost, Before, Version
  <2> QED BY <1>3, <2>1 DEF Allowance
<1>4. CASE u.major # w.major \/ (u.minor # w.minor /\ ~ (u.major > 0))
  BY <1>4, AllowanceType DEF Allowance, Version
<1> QED BY <1>1, <1>2, <1>3, <1>4

\* A passed gate parsed both versions, did not go back, and never let a
\* change through that the two version numbers do not announce.
THEOREM GateSound ==
  ASSUME NEW base \in Version \cup {NotSemVer},
         NEW head \in Version \cup {NotSemVer},
         NEW level \in ChangeLevel, NEW document \in MigrationDocument,
         GateOk(base, head, level, document)
  PROVE  /\ base \in Version /\ head \in Version
         /\ AtMost(base, head)
         /\ Weight(level) <= Allowance(base, head)
         /\ level = "breaking" => document = "complete"
<1>1. base # NotSemVer /\ head # NotSemVer
  BY DEF GateOk, GateDiagnostics
<1>2. base \in Version /\ head \in Version
  BY <1>1
<1>3. AtMost(base, head)
  BY <1>1 DEF GateOk, GateDiagnostics, AtMost
<1>4. ~ Before(head, MinimumVersion(base, RequiredBump(level, base)))
  BY <1>1, <1>3 DEF GateOk, GateDiagnostics, AtMost
<1>5. level = "breaking" => document = "complete"
  BY <1>1 DEF GateOk, GateDiagnostics, NeedsMigrationDocument
<1>6. Weight(level) <= Allowance(base, head)
  <2>1. CASE level = "none"
    BY <2>1, <1>2, AllowanceType DEF Weight
  <2>2. CASE level = "patch"
    <3>1. ~ Before(head, [major |-> base.major, minor |-> base.minor, patch |-> base.patch + 1])
      BY <1>4, <2>2 DEF MinimumVersion, RequiredBump
    <3>2. base # head
      BY <1>2, <3>1 DEF Before, Version
    <3> QED BY <2>2, <3>2 DEF Weight, Allowance
  <2>3. CASE level = "feature"
    <3>1. ~ Before(head, [major |-> base.major, minor |-> base.minor + 1, patch |-> 0])
      BY <1>4, <2>3 DEF MinimumVersion, RequiredBump
    <3>2. ~ (base.major = head.major /\ base.minor = head.minor)
      BY <1>2, <3>1 DEF Before, Version
    <3> QED BY <2>3, <3>2 DEF Weight, Allowance
  <2>4. CASE level = "breaking" /\ base.major = 0
    <3>1. ~ Before(head, [major |-> base.major, minor |-> base.minor + 1, patch |-> 0])
      BY <1>1, <1>4, <2>4 DEF MinimumVersion, RequiredBump
    <3>2. ~ (base.major = head.major /\ base.minor = head.minor)
      BY <1>2, <3>1 DEF Before, Version
    <3> QED BY <2>4, <3>2 DEF Weight, Allowance
  <2>5. CASE level = "breaking" /\ base.major # 0
    <3>1. ~ Before(head, [major |-> base.major + 1, minor |-> 0, patch |-> 0])
      BY <1>4, <2>5 DEF MinimumVersion, RequiredBump
    <3>2. base.major # head.major
      BY <1>2, <3>1 DEF Before, Version
    <3> QED BY <2>5, <3>2 DEF Weight, Allowance
  <2> QED BY <2>1, <2>2, <2>3, <2>4, <2>5 DEF ChangeLevel
<1> QED BY <1>2, <1>3, <1>5, <1>6

-----------------------------------------------------------------------------

LEMMA PassingAnnounces ==
  ASSUME NEW base \in Commit, NEW head \in Commit, Passes(base, head)
  PROVE  Announces(base, head)
<1> DEFINE level == Level[<<base.contract, head.contract>>]
           document == IF base.version \in head.documents THEN "complete" ELSE "missing"
<1>1. level \in ChangeLevel
  BY LevelAssumption DEF Commit
<1>2. document \in MigrationDocument
  BY DEF MigrationDocument
<1>3. base.version \in Version \cup {NotSemVer} /\ head.version \in Version \cup {NotSemVer}
  BY VersionsAssumption DEF Commit
<1>4. GateOk(base.version, head.version, level, document)
  BY DEF Passes
<1> HIDE DEF level, document
<1>5. /\ base.version \in Version /\ head.version \in Version
      /\ AtMost(base.version, head.version)
      /\ Weight(level) <= Allowance(base.version, head.version)
  BY <1>1, <1>2, <1>3, <1>4, GateSound
<1> QED BY <1>5 DEF Announces, level

LEMMA AnnouncesTransitive ==
  ASSUME NEW x \in Commit, NEW y \in Commit, NEW z \in Commit,
         Announces(x, y), Announces(y, z)
  PROVE  Announces(x, z)
<1> DEFINE L(a, b) == Level[<<a.contract, b.contract>>]
<1>1. x.version \in Version /\ y.version \in Version /\ z.version \in Version
  BY DEF Announces
<1>2. AtMost(x.version, z.version)
  BY <1>1, AtMostOrder DEF Announces
<1>3. /\ Allowance(x.version, y.version) <= Allowance(x.version, z.version)
      /\ Allowance(y.version, z.version) <= Allowance(x.version, z.version)
  BY <1>1, AllowanceMonotone DEF Announces
<1>4. /\ L(x, y) \in ChangeLevel /\ L(y, z) \in ChangeLevel /\ L(x, z) \in ChangeLevel
      /\ \/ Weight(L(x, z)) <= Weight(L(x, y))
         \/ Weight(L(x, z)) <= Weight(L(y, z))
  BY LevelAssumption DEF Commit
<1>5. /\ Weight(L(x, y)) <= Allowance(x.version, y.version)
      /\ Weight(L(y, z)) <= Allowance(y.version, z.version)
  BY DEF Announces
<1>6. /\ Weight(L(x, y)) \in 0 .. 3 /\ Weight(L(y, z)) \in 0 .. 3 /\ Weight(L(x, z)) \in 0 .. 3
      /\ Allowance(x.version, y.version) \in 0 .. 3
      /\ Allowance(y.version, z.version) \in 0 .. 3
      /\ Allowance(x.version, z.version) \in 0 .. 3
  BY <1>1, <1>4, WeightType, AllowanceType
<1> HIDE DEF L
<1>7. Weight(L(x, z)) <= Allowance(x.version, z.version)
  BY <1>3, <1>4, <1>5, <1>6
<1> QED BY <1>1, <1>2, <1>7 DEF Announces, L

-----------------------------------------------------------------------------

LEMMA InitTypeOK == Init => TypeOK
BY DEF Init, TypeOK, Positions

\* A push leaves the commits of main where they are.
LEMMA PushKeeps ==
  ASSUME TypeOK, NEW commit \in Commit, Push(commit)
  PROVE  /\ Len(main) \in Nat
         /\ Len(main') = Len(main) + 1
         /\ main' \in Seq(Commit)
         /\ \A p \in Positions : p \in Positions' /\ main'[p] = main[p]
         /\ Positions' = Positions \cup {Len(main) + 1}
BY DEF TypeOK, Push, Positions

LEMMA StepTypeOK == TypeOK /\ [Next]_vars => TypeOK'
<1> SUFFICES ASSUME TypeOK, [Next]_vars PROVE TypeOK'
  OBVIOUS
<1>1. ASSUME NEW commit \in Commit, Push(commit) PROVE TypeOK'
  <2>1. PICK n \in Nat : n = Len(main)
    BY DEF TypeOK
  <2>2. Positions = 1 .. n /\ Positions' = 1 .. n + 1 /\ Len(main') = n + 1 /\ main' \in Seq(Commit)
    BY <1>1, <2>1, PushKeeps DEF Positions
  <2>3. ci' \in [Positions' -> CiOutcome]
    BY <1>1, <2>1, <2>2 DEF Push, TypeOK, CiOutcome
  <2>4. baseline' \in [Positions' -> 0 .. Len(main')]
    BY <1>1, <2>1, <2>2 DEF Push, TypeOK
  <2>5. chain' \in [Positions' -> SUBSET Positions']
    BY <1>1, <2>1, <2>2 DEF Push, TypeOK
  <2> QED BY <1>1, <2>2, <2>3, <2>4, <2>5 DEF Push, TypeOK
<1>2. ASSUME NEW p \in Positions, CiPasses(p) \/ CiFails(p) PROVE TypeOK'
  BY <1>2 DEF TypeOK, CiPasses, CiFails, CiOutcome, Positions
<1>3. ASSUME NEW p \in Positions, Tag(p) PROVE TypeOK'
  BY <1>3 DEF TypeOK, Tag, Positions
<1>4. ASSUME NEW p \in tagged, NEW b \in tagged \cup {0}, Compare(p, b) PROVE TypeOK'
  <2>1. p \in Positions /\ b \in 0 .. Len(main) /\ (b # 0 => b \in Positions)
    BY DEF TypeOK, Positions
  <2>2. chain' \in [Positions -> SUBSET Positions]
    BY <1>4, <2>1 DEF TypeOK, Compare
  <2>3. baseline' \in [Positions -> 0 .. Len(main)]
    BY <1>4, <2>1 DEF TypeOK, Compare
  <2> QED BY <1>4, <2>1, <2>2, <2>3 DEF TypeOK, Compare, Positions
<1>5. ASSUME NEW p \in running, Publish(p) \/ Abort(p) PROVE TypeOK'
  BY <1>5 DEF TypeOK, Publish, Abort, Positions
<1>6. CASE UNCHANGED vars
  BY <1>6 DEF TypeOK, vars, Positions
<1> QED BY <1>1, <1>2, <1>3, <1>4, <1>5, <1>6 DEF Next

\* Type correctness: commits are commits, and what is published has been
\* tagged and compared.
THEOREM TypeCorrect == Spec => []TypeOK
BY InitTypeOK, StepTypeOK, PTL DEF Spec

-----------------------------------------------------------------------------

\* Only the tip of main has a running CI: a push cancels the run before it.
CiOfTip == \A p \in Positions : ci[p] = "running" => p = Len(main)

LEMMA PushAnnounced ==
  ASSUME TypeOK, NEW commit \in Commit, Push(commit)
  PROVE  \A p, q \in Positions : Announced(p, q)' = Announced(p, q)
<1>1. \A p \in Positions : main'[p] = main[p]
  BY PushKeeps
<1> QED BY <1>1 DEF Announced

\* Every step but a push leaves main, and with it Announced, alone.
LEMMA SameMain ==
  ASSUME UNCHANGED main
  PROVE  /\ Positions' = Positions
         /\ \A p, q \in Positions : Announced(p, q)' = Announced(p, q)
BY DEF Positions, Announced

LEMMA StepCiOfTip ==
  ASSUME TypeOK, CiOfTip, [Next]_vars
  PROVE  CiOfTip'
<1>1. ASSUME NEW commit \in Commit, Push(commit) PROVE CiOfTip'
  <2>1. PICK n \in Nat : n = Len(main) /\ Positions = 1 .. n /\ Positions' = 1 .. n + 1
                         /\ Len(main') = n + 1
    BY <1>1, PushKeeps DEF Positions
  <2>2. ci' = [p \in 1 .. n + 1 |-> IF p > n THEN "running"
                                    ELSE IF ci[p] = "running" THEN "cancelled" ELSE ci[p]]
    BY <1>1, <2>1 DEF Push
  <2>3. ASSUME NEW p \in 1 .. n + 1, p <= n PROVE ci'[p] # "running"
    BY <2>2, <2>3
  <2> QED BY <2>1, <2>3 DEF CiOfTip
<1>2. ASSUME NEW p \in Positions, CiPasses(p) \/ CiFails(p) PROVE CiOfTip'
  BY <1>2 DEF TypeOK, CiPasses, CiFails, CiOfTip, Positions
<1>3. ASSUME UNCHANGED <<main, ci>> PROVE CiOfTip'
  BY <1>3 DEF CiOfTip, Positions
<1> QED BY <1>1, <1>2, <1>3 DEF Next, Tag, Compare, Publish, Abort, vars

LEMMA StepMainAnnounces ==
  ASSUME TypeOK, CiOfTip, MainAnnouncesChanges, [Next]_vars
  PROVE  MainAnnouncesChanges'
<1>1. ASSUME NEW commit \in Commit, Push(commit) PROVE MainAnnouncesChanges'
  <2>1. PICK n \in Nat : n = Len(main) /\ Positions = 1 .. n /\ Positions' = 1 .. n + 1
    BY <1>1, PushKeeps DEF Positions
  <2>2. ci' = [p \in 1 .. n + 1 |-> IF p > n THEN "running"
                                    ELSE IF ci[p] = "running" THEN "cancelled" ELSE ci[p]]
    BY <1>1, <2>1 DEF Push
  <2>3. ASSUME NEW p \in Positions', NEW q \in Positions', p < q,
               \A r \in p + 1 .. q : ci'[r] = "passed"
        PROVE  Announced(p, q)'
    <3>1. q # n + 1
      BY <2>1, <2>2, <2>3
    <3>2. p \in Positions /\ q \in Positions
      BY <2>1, <2>3, <3>1
    <3>3. \A r \in p + 1 .. q : ci[r] = "passed"
      BY <2>1, <2>2, <2>3, <3>1, <3>2
    <3>4. Announced(p, q)
      BY <2>3, <3>2, <3>3 DEF MainAnnouncesChanges
    <3> QED BY <1>1, <3>2, <3>4, PushAnnounced
  <2> QED BY <2>3 DEF MainAnnouncesChanges
<1>2. ASSUME NEW n \in Positions, CiPasses(n) PROVE MainAnnouncesChanges'
  <2>1. n = Len(main) /\ Positions = 1 .. n /\ n \in Nat /\ Positions' = Positions
    BY <1>2 DEF CiPasses, CiOfTip, Positions, TypeOK
  <2>2. \A p, q \in Positions : Announced(p, q)' = Announced(p, q)
    BY <1>2, SameMain DEF CiPasses
  <2>3. \A r \in 1 .. n - 1 : ci'[r] = ci[r]
    BY <1>2, <2>1 DEF CiPasses, TypeOK
  <2>4. ASSUME NEW p \in Positions, NEW q \in Positions, p < q, q < n,
               \A r \in p + 1 .. q : ci'[r] = "passed"
        PROVE  Announced(p, q)
    <3>1. \A r \in p + 1 .. q : ci[r] = "passed"
      BY <2>1, <2>3, <2>4
    <3> QED BY <2>4, <3>1 DEF MainAnnouncesChanges
  <2>5. ASSUME NEW p \in Positions, p < n, \A r \in p + 1 .. n : ci'[r] = "passed"
        PROVE  Announced(p, n)
    <3>1. n - 1 \in Positions /\ main[n - 1] \in Commit /\ main[n] \in Commit
          /\ main[p] \in Commit
      BY <2>1, <2>5 DEF TypeOK
    <3>2. Announces(main[n - 1], main[n])
      BY <1>2, <2>1, <2>5, <3>1, PassingAnnounces DEF CiPasses, CheckPasses
    <3>3. CASE p = n - 1
      BY <3>2, <3>3 DEF Announced
    <3>4. CASE p < n - 1
      <4>1. Announces(main[p], main[n - 1])
        BY <2>1, <2>4, <2>5, <3>1, <3>4 DEF Announced
      <4> QED BY <3>1, <3>2, <4>1, AnnouncesTransitive DEF Announced
    <3> QED BY <2>1, <2>5, <3>3, <3>4
  <2> QED BY <2>1, <2>2, <2>4, <2>5 DEF MainAnnouncesChanges
<1>3. ASSUME NEW n \in Positions, CiFails(n) PROVE MainAnnouncesChanges'
  <2>1. n = Len(main) /\ Positions = 1 .. n /\ n \in Nat /\ Positions' = Positions
    BY <1>3 DEF CiFails, CiOfTip, Positions, TypeOK
  <2>2. \A p, q \in Positions : Announced(p, q)' = Announced(p, q)
    BY <1>3, SameMain DEF CiFails
  <2>3. ci'[n] = "failed" /\ \A r \in 1 .. n - 1 : ci'[r] = ci[r]
    BY <1>3, <2>1 DEF CiFails, TypeOK
  <2>4. ASSUME NEW p \in Positions, NEW q \in Positions, p < q,
               \A r \in p + 1 .. q : ci'[r] = "passed"
        PROVE  Announced(p, q)
    <3>1. q < n
      BY <2>1, <2>3, <2>4
    <3>2. \A r \in p + 1 .. q : ci[r] = "passed"
      BY <2>1, <2>3, <2>4, <3>1
    <3> QED BY <2>4, <3>2 DEF MainAnnouncesChanges
  <2> QED BY <2>1, <2>2, <2>4 DEF MainAnnouncesChanges
<1>4. ASSUME UNCHANGED <<main, ci>> PROVE MainAnnouncesChanges'
  BY <1>4, SameMain DEF MainAnnouncesChanges
<1> QED BY <1>1, <1>2, <1>3, <1>4 DEF Next, Tag, Compare, Publish, Abort, vars

\* Along any stretch of main whose CI runs all passed, the versions announce
\* what changed between its ends, though ci.yml compares neighbours only.
THEOREM MainLineAnnounced == Spec => []MainAnnouncesChanges
<1>1. Init => CiOfTip /\ MainAnnouncesChanges
  BY DEF Init, CiOfTip, MainAnnouncesChanges, Positions
<1>2. TypeOK /\ CiOfTip /\ MainAnnouncesChanges /\ [Next]_vars
        => CiOfTip' /\ MainAnnouncesChanges'
  BY StepCiOfTip, StepMainAnnounces
<1> QED BY <1>1, <1>2, TypeCorrect, PTL DEF Spec

-----------------------------------------------------------------------------

\* The chain of every position, released or not, is announced.
ChainsAnnounced ==
  \A p \in Positions : \A q \in chain[p] : q \in Positions /\ q < p /\ Announced(q, p)

\* The compatibility step of p against b adds the link from b to p.
LEMMA CompareAnnounces ==
  ASSUME TypeOK, NEW p \in tagged, NEW b \in tagged, IsPrecedingTag(b, p), CheckPasses(b, p)
  PROVE  /\ b \in Positions /\ p \in Positions /\ b < p
         /\ main[b] \in Commit /\ main[p] \in Commit
         /\ Announces(main[b], main[p])
<1>1. b \in Positions /\ p \in Positions /\ b < p
  BY DEF TypeOK, IsPrecedingTag, PrecedingTags
<1>2. main[b] \in Commit /\ main[p] \in Commit
  BY <1>1 DEF TypeOK, Positions
<1> QED BY <1>1, <1>2, PassingAnnounces DEF CheckPasses

LEMMA StepChainsAnnounced ==
  ASSUME TypeOK, ChainsAnnounced, [Next]_vars
  PROVE  ChainsAnnounced'
<1>1. ASSUME NEW commit \in Commit, Push(commit) PROVE ChainsAnnounced'
  <2>1. PICK n \in Nat : n = Len(main) /\ Positions = 1 .. n /\ Positions' = 1 .. n + 1
    BY <1>1, PushKeeps DEF Positions
  <2>2. chain' = [p \in 1 .. n + 1 |-> IF p > n THEN {} ELSE chain[p]]
    BY <1>1, <2>1 DEF Push
  <2>3. ASSUME NEW p \in Positions', NEW q \in chain'[p]
        PROVE  q \in Positions' /\ q < p /\ Announced(q, p)'
    <3>1. p \in Positions /\ q \in chain[p]
      BY <2>1, <2>2, <2>3
    <3>2. q \in Positions /\ q < p /\ Announced(q, p)
      BY <3>1 DEF ChainsAnnounced
    <3> QED BY <1>1, <2>1, <3>1, <3>2, PushAnnounced
  <2> QED BY <2>3 DEF ChainsAnnounced
<1>2. ASSUME NEW p \in tagged, NEW b \in tagged \cup {0}, Compare(p, b) PROVE ChainsAnnounced'
  <2>1. Positions' = Positions /\ \A x, y \in Positions : Announced(x, y)' = Announced(x, y)
    BY <1>2, SameMain DEF Compare
  <2>2. p \in Positions /\ chain \in [Positions -> SUBSET Positions]
    BY DEF TypeOK
  <2>3. \A x \in Positions : x # p => chain'[x] = chain[x]
    BY <1>2, <2>2 DEF Compare
  <2>4. ASSUME NEW q \in chain'[p] PROVE q \in Positions /\ q < p /\ Announced(q, p)
    <3>1. b # 0 /\ chain'[p] = {b} \cup chain[b]
      BY <1>2, <2>2, <2>4 DEF Compare
    <3>2. IsPrecedingTag(b, p) /\ CheckPasses(b, p)
      BY <1>2, <3>1 DEF Compare
    <3>3. /\ b \in Positions /\ b < p /\ main[b] \in Commit /\ main[p] \in Commit
          /\ Announces(main[b], main[p])
      BY <3>1, <3>2, CompareAnnounces
    <3>4. CASE q = b
      BY <3>3, <3>4 DEF Announced
    <3>5. CASE q \in chain[b]
      <4>1. q \in Positions /\ q < b /\ Announces(main[q], main[b])
        BY <3>3, <3>5 DEF ChainsAnnounced, Announced
      <4>2. main[q] \in Commit /\ q < p
        BY <2>2, <3>3, <4>1 DEF TypeOK, Positions
      <4> QED BY <3>3, <4>1, <4>2, AnnouncesTransitive DEF Announced
    <3> QED BY <2>4, <3>1, <3>4, <3>5
  <2> QED BY <2>1, <2>2, <2>3, <2>4 DEF ChainsAnnounced
<1>3. ASSUME UNCHANGED <<main, chain>> PROVE ChainsAnnounced'
  BY <1>3, SameMain DEF ChainsAnnounced
<1> QED BY <1>1, <1>2, <1>3 DEF Next, CiPasses, CiFails, Tag, Publish, Abort, vars

\* A release announces what separates it from every version its checks reach
\* from base to base, in whatever order tags and releases happen.
THEOREM ReleasesAnnounced == Spec => []ReleaseAnnouncesChanges
<1>1. Init => ChainsAnnounced
  BY DEF Init, ChainsAnnounced, Positions
<1>2. TypeOK /\ ChainsAnnounced /\ [Next]_vars => ChainsAnnounced'
  BY StepChainsAnnounced
<1>3. TypeOK /\ ChainsAnnounced => ReleaseAnnouncesChanges
  BY DEF TypeOK, ChainsAnnounced, ReleaseAnnouncesChanges
<1> QED BY <1>1, <1>2, <1>3, TypeCorrect, PTL DEF Spec

-----------------------------------------------------------------------------

\* Tags p < q whose release runs between them, q's included, all compared.
Linked(p, q) ==
  /\ p < q
  /\ q \in compared
  /\ \A t \in tagged : p < t /\ t < q => t \in compared

TagsAnnounced == \A p, q \in tagged : Linked(p, q) => Announced(p, q)

LEMMA StepTagsAnnounced ==
  ASSUME Orderly, TypeOK, TagsAnnounced, [Next]_vars
  PROVE  TagsAnnounced'
<1>1. ASSUME NEW commit \in Commit, Push(commit) PROVE TagsAnnounced'
  <2>1. UNCHANGED <<tagged, compared>> /\ tagged \subseteq Positions
    BY <1>1 DEF Push, TypeOK
  <2> QED BY <1>1, <2>1, PushAnnounced DEF TagsAnnounced, Linked
<1>2. ASSUME NEW p \in Positions, Tag(p) PROVE TagsAnnounced'
  <2>1. /\ tagged' = tagged \cup {p} /\ compared' = compared /\ p \notin compared
        /\ tagged \subseteq Positions /\ compared \subseteq tagged
        /\ \A q \in tagged : q < p
    BY <1>2 DEF Tag, TypeOK
  <2>2. \A x, y \in Positions : Announced(x, y)' = Announced(x, y)
    BY <1>2, SameMain DEF Tag
  <2>3. ASSUME NEW x \in tagged', NEW y \in tagged', Linked(x, y)' PROVE Announced(x, y)
    <3>1. y \in tagged /\ x < y /\ x \in Positions /\ y \in Positions
      BY <2>1, <2>3 DEF Linked
    <3>2. x \in tagged
      BY <2>1, <2>3, <3>1 DEF Positions
    <3> QED BY <2>1, <2>3, <3>1, <3>2 DEF TagsAnnounced, Linked
  <2> QED BY <2>1, <2>2, <2>3 DEF TagsAnnounced
<1>3. ASSUME NEW p \in tagged, NEW b \in tagged \cup {0}, Compare(p, b) PROVE TagsAnnounced'
  <2>1. /\ tagged' = tagged /\ compared' = compared \cup {p}
        /\ tagged \subseteq Positions /\ Positions \subseteq Nat
    BY <1>3 DEF Compare, TypeOK, Positions
  <2>2. \A x, y \in Positions : Announced(x, y)' = Announced(x, y)
    BY <1>3, SameMain DEF Compare
  <2>3. ASSUME NEW x \in tagged, x < p, \A t \in tagged : x < t /\ t < p => t \in compared
        PROVE  Announced(x, p)
    <3>1. IsPrecedingTag(b, p) /\ CheckPasses(b, p) /\ b \in tagged /\ x <= b
      BY <1>3, <2>1, <2>3 DEF Compare, PrecedingTags, IsPrecedingTag
    <3>2. /\ b \in Positions /\ b < p /\ main[b] \in Commit /\ main[p] \in Commit
          /\ Announces(main[b], main[p])
      BY <3>1, CompareAnnounces
    <3>3. CASE x = b
      BY <3>2, <3>3 DEF Announced
    <3>4. CASE x # b
      <4>1. x < b /\ Linked(x, b)
        BY <2>1, <2>3, <3>1, <3>2, <3>4 DEF Linked
      <4>2. Announces(main[x], main[b]) /\ main[x] \in Commit
        BY <2>1, <3>1, <4>1 DEF TagsAnnounced, Announced, TypeOK, Positions
      <4> QED BY <3>2, <4>2, AnnouncesTransitive DEF Announced
    <3> QED BY <3>3, <3>4
  <2>4. ASSUME NEW x \in tagged, NEW y \in tagged, Linked(x, y)' PROVE Announced(x, y)
    <3>1. /\ x < y /\ y \in compared \cup {p}
          /\ \A t \in tagged : x < t /\ t < y => t \in compared \cup {p}
      BY <2>1, <2>4 DEF Linked
    <3>2. CASE y = p
      <4>1. \A t \in tagged : x < t /\ t < p => t \in compared
        BY <2>1, <3>1, <3>2
      <4> QED BY <2>3, <3>1, <3>2, <4>1
    <3>3. CASE y # p /\ x < p /\ p < y
      <4>1. Announced(x, p)
        <5>1. \A t \in tagged : x < t /\ t < p => t \in compared
          BY <2>1, <3>1, <3>3
        <5> QED BY <2>3, <3>3, <5>1
      <4>2. Linked(p, y)
        BY <2>1, <3>1, <3>3 DEF Linked
      <4>3. Announced(p, y)
        BY <4>2 DEF TagsAnnounced
      <4>4. main[x] \in Commit /\ main[p] \in Commit /\ main[y] \in Commit
        BY <2>1 DEF TypeOK, Positions
      <4> QED BY <4>1, <4>3, <4>4, AnnouncesTransitive DEF Announced
    <3>4. CASE y # p /\ ~ (x < p /\ p < y)
      <4>1. Linked(x, y)
        BY <2>1, <3>1, <3>4 DEF Linked
      <4> QED BY <4>1 DEF TagsAnnounced
    <3> QED BY <3>2, <3>3, <3>4
  <2> QED BY <2>1, <2>2, <2>4 DEF TagsAnnounced
<1>4. ASSUME UNCHANGED <<main, tagged, compared>> PROVE TagsAnnounced'
  BY <1>4, SameMain DEF TagsAnnounced, Linked, TypeOK
<1> QED BY <1>1, <1>2, <1>3, <1>4 DEF Next, CiPasses, CiFails, Publish, Abort, vars

\* With tags that follow main, any two published versions announce what
\* separates them as long as no tag between them escaped its comparison.
THEOREM PublishedAnnounced == Orderly => (Spec => []PublishedAnnounceChanges)
<1> SUFFICES ASSUME Orderly PROVE Spec => []PublishedAnnounceChanges
  OBVIOUS
<1>1. Init => TagsAnnounced
  BY DEF Init, TagsAnnounced
<1>2. TypeOK /\ TagsAnnounced /\ [Next]_vars => TagsAnnounced'
  BY StepTagsAnnounced
<1>3. TypeOK /\ TagsAnnounced => PublishedAnnounceChanges
  BY DEF TypeOK, TagsAnnounced, PublishedAnnounceChanges, Linked
<1> QED BY <1>1, <1>2, <1>3, TypeCorrect, PTL DEF Spec
=============================================================================
