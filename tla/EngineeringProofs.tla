------------------------- MODULE EngineeringProofs -------------------------
(* The engineering harness for every set of tasks, rules and changes:      *)
(* types, human approval before dispatch, one task per problem, workers    *)
(* that stay apart, verified candidates, durable bundles, owned tasks, and *)
(* that the harness only ever moves its registry by the registry's own     *)
(* operations.                                                             *)
EXTENDS EngineeringHarness, FiniteSetTheorems, TLAPS

-----------------------------------------------------------------------------
(* The registry alone.                                                     *)

\* Every transition's target is a status of the table.
LEMMA AllowedStatus ==
    ASSUME NEW s \in Status \cup {"absent"}
    PROVE  Allowed[s] \subseteq Status
BY DEF Allowed, Status, Verified

\* The registry and its file hold task records only.
THEOREM RegistryTypes == RegistrySpec => []RegistryTypeOK
<1>1. RegistryInit => RegistryTypeOK
  BY DEF RegistryInit, RegistryTypeOK, Absent, Record
<1>2. RegistryTypeOK /\ [RegistryNext]_regVars => RegistryTypeOK'
  <2> SUFFICES ASSUME RegistryTypeOK, [RegistryNext]_regVars PROVE RegistryTypeOK'
    OBVIOUS
  <2> USE DEF RegistryTypeOK, Record
  <2> "proposed" \in Status /\ "merged" \in Status
    BY DEF Status, Verified
  <2> "problem" \in Ref /\ "recurrence" \in Ref /\ "approval" \in Ref /\ "merge" \in Ref
    BY DEF Ref
  <2>1. ASSUME NEW t \in Task, Add(t) PROVE RegistryTypeOK'
    <3>1. CASE SameProblem(t) = {} /\ reg' = [reg EXCEPT ![t] =
                 [status |-> "proposed", approved |-> FALSE, evidence |-> {"problem"}]]
      BY <2>1, <3>1 DEF Add
    <3>2. ASSUME NEW d \in SameProblem(t),
                 reg' = [reg EXCEPT ![d].evidence = @ \cup {"recurrence"}]
          PROVE  RegistryTypeOK'
      BY <2>1, <3>2 DEF Add, SameProblem, Known
    <3> QED BY <2>1, <3>1, <3>2 DEF Add
  <2>2. ASSUME NEW t \in Task, RecordHumanApproval(t) PROVE RegistryTypeOK'
    <3>1. reg[t].evidence \cup {"approval"} \in SUBSET Ref /\ reg[t].status \in Status \cup {"absent"}
      BY <2>2
    <3>2. [reg[t] EXCEPT !.approved = TRUE, !.evidence = @ \cup {"approval"}] \in Record
      BY <2>2, <3>1
    <3> QED BY <2>2, <3>2 DEF RecordHumanApproval
  <2>3. ASSUME NEW t \in Task, NEW a \in Actor, RecordVerifiedMerge(t, a)
        PROVE  RegistryTypeOK'
    <3>1. reg[t].evidence \cup {"merge"} \in SUBSET Ref
      BY <2>3
    <3>2. [reg[t] EXCEPT !.status = "merged", !.evidence = @ \cup {"merge"}] \in Record
      BY <2>3, <3>1
    <3> QED BY <2>3, <3>2 DEF RecordVerifiedMerge, Move
  <2>4. ASSUME NEW t \in Task, NEW a \in Actor, NEW target \in Status,
               NEW refs \in SUBSET Ref, Transition(t, target, a, refs)
        PROVE  RegistryTypeOK'
    <3>1. reg[t].evidence \cup refs \in SUBSET Ref
      BY <2>4
    <3>2. [reg[t] EXCEPT !.status = target, !.evidence = @ \cup refs] \in Record
      BY <2>4, <3>1
    <3> QED BY <2>4, <3>2 DEF Transition, Move
  <2>5. CASE Save
    BY <2>5 DEF Save
  <2>6. CASE Load
    BY <2>6 DEF Load
  <2>7. CASE UNCHANGED regVars
    BY <2>7 DEF regVars
  <2> QED BY <2>1, <2>2, <2>3, <2>4, <2>5, <2>6, <2>7 DEF RegistryNext
<1> QED BY <1>1, <1>2, PTL DEF RegistrySpec

\* A transition leads into Dispatched from outside only through "ready".
LEMMA ReadyIsTheDoor ==
    ASSUME NEW s \in Status \cup {"absent"}, NEW target \in Allowed[s],
           target \in Dispatched, s \notin Dispatched
    PROVE  target = "ready"
BY DEF Allowed, Status, Verified, Dispatched

\* A step that moves a task keeps the approval rule.
LEMMA MoveKeepsApproval ==
    ASSUME RegistryTypeOK, ApprovedBeforeWork, NEW t \in Task, NEW target \in Status,
           NEW actor, NEW refs \in SUBSET Ref, CanMove(t, target, actor),
           Move(t, target, refs)
    PROVE  Approved(reg')
<1>1. reg[t].status \in Status \cup {"absent"}
  BY DEF RegistryTypeOK, Record
<1>2. t \in NeedsApproval /\ target \in Dispatched => reg[t].approved
  <2>1. CASE reg[t].status \in Dispatched
    BY <2>1 DEF ApprovedBeforeWork, Approved
  <2>2. CASE reg[t].status \notin Dispatched
    BY <1>1, <2>2, ReadyIsTheDoor DEF CanMove
  <2> QED BY <2>1, <2>2
<1> QED BY <1>2, RegistryConstants DEF ApprovedBeforeWork, Approved, Move, RegistryTypeOK, Record

\* No task that needs approval is dispatched without it, in memory or on disk.
THEOREM ApprovalHolds == RegistrySpec => []ApprovedBeforeWork
<1>1. RegistryInit => ApprovedBeforeWork
  BY RegistryConstants DEF RegistryInit, ApprovedBeforeWork, Approved, Absent, Dispatched, Verified
<1>2. RegistryTypeOK /\ ApprovedBeforeWork /\ [RegistryNext]_regVars => ApprovedBeforeWork'
  <2> SUFFICES ASSUME RegistryTypeOK, ApprovedBeforeWork, [RegistryNext]_regVars
               PROVE  ApprovedBeforeWork'
    OBVIOUS
  <2>1. ASSUME NEW t \in Task, Add(t) PROVE ApprovedBeforeWork'
    BY <2>1, RegistryConstants
       DEF Add, SameProblem, Known, ApprovedBeforeWork, Approved, RegistryTypeOK, Record,
           Dispatched, Verified
  <2>2. ASSUME NEW t \in Task, RecordHumanApproval(t) PROVE ApprovedBeforeWork'
    BY <2>2, RegistryConstants
       DEF RecordHumanApproval, ApprovedBeforeWork, Approved, RegistryTypeOK, Record
  <2>3. ASSUME NEW t \in Task, NEW a \in Actor, RecordVerifiedMerge(t, a)
        PROVE  ApprovedBeforeWork'
    <3>1. Approved(reg')
      BY <2>3, MoveKeepsApproval DEF RecordVerifiedMerge, Status, Verified, Ref
    <3> QED BY <2>3, <3>1 DEF RecordVerifiedMerge, ApprovedBeforeWork, Approved
  <2>4. ASSUME NEW t \in Task, NEW a \in Actor, NEW target \in Status,
               NEW refs \in SUBSET Ref, Transition(t, target, a, refs)
        PROVE  ApprovedBeforeWork'
    <3>1. Approved(reg')
      BY <2>4, MoveKeepsApproval DEF Transition
    <3> QED BY <2>4, <3>1 DEF Transition, ApprovedBeforeWork, Approved
  <2>5. CASE Save
    BY <2>5 DEF Save, ApprovedBeforeWork, Approved
  <2>6. CASE Load
    BY <2>6 DEF Load, ApprovedBeforeWork, Approved
  <2>7. CASE UNCHANGED regVars
    BY <2>7 DEF regVars, ApprovedBeforeWork, Approved
  <2> QED BY <2>1, <2>2, <2>3, <2>4, <2>5, <2>6, <2>7 DEF RegistryNext
<1> QED BY <1>1, <1>2, RegistryTypes, PTL DEF RegistrySpec

\* A step that keeps which tasks the registry knows keeps one task per problem.
LEMMA SameTasks ==
    ASSUME OnePerProblem(reg),
           \A t \in Task : reg'[t].status # "absent" => reg[t].status # "absent"
    PROVE  OnePerProblem(reg')
BY DEF OnePerProblem

\* A problem never has two tasks, in memory or on disk.
THEOREM ProblemsAreLinked == RegistrySpec => []OneTaskPerProblem
<1>1. RegistryInit => OneTaskPerProblem
  BY DEF RegistryInit, OneTaskPerProblem, OnePerProblem, Absent
<1>2. RegistryTypeOK /\ OneTaskPerProblem /\ [RegistryNext]_regVars => OneTaskPerProblem'
  <2> SUFFICES ASSUME RegistryTypeOK, OneTaskPerProblem, [RegistryNext]_regVars
               PROVE  OneTaskPerProblem'
    OBVIOUS
  <2>1. ASSUME NEW t \in Task, Add(t) PROVE OneTaskPerProblem'
    BY <2>1 DEF Add, SameProblem, Known, OneTaskPerProblem, OnePerProblem, RegistryTypeOK, Record
  <2>2. ASSUME NEW t \in Task, RecordHumanApproval(t) PROVE OneTaskPerProblem'
    BY <2>2 DEF RecordHumanApproval, OneTaskPerProblem, OnePerProblem, RegistryTypeOK, Record
  <2>3. ASSUME NEW t \in Task, NEW a \in Actor, NEW target \in Status,
               NEW refs \in SUBSET Ref, CanMove(t, target, a), Move(t, target, refs)
        PROVE  OnePerProblem(reg')
    <3>1. reg[t].status # "absent"
      BY <2>3 DEF CanMove, Allowed, Status, Verified
    <3> QED BY <2>3, <3>1, SameTasks DEF Move, RegistryTypeOK, Record, OneTaskPerProblem
  <2>4. ASSUME NEW t \in Task, NEW a \in Actor, RecordVerifiedMerge(t, a)
        PROVE  OneTaskPerProblem'
    <3>1. OnePerProblem(reg')
      BY <2>3, <2>4 DEF RecordVerifiedMerge, Status, Verified, Ref
    <3> QED BY <2>4, <3>1 DEF RecordVerifiedMerge, OneTaskPerProblem, OnePerProblem
  <2>5. ASSUME NEW t \in Task, NEW a \in Actor, NEW target \in Status,
               NEW refs \in SUBSET Ref, Transition(t, target, a, refs)
        PROVE  OneTaskPerProblem'
    <3>1. OnePerProblem(reg')
      BY <2>3, <2>5 DEF Transition
    <3> QED BY <2>5, <3>1 DEF Transition, OneTaskPerProblem, OnePerProblem
  <2>6. CASE Save
    BY <2>6 DEF Save, OneTaskPerProblem, OnePerProblem
  <2>7. CASE Load
    BY <2>7 DEF Load, OneTaskPerProblem, OnePerProblem
  <2>8. CASE UNCHANGED regVars
    BY <2>8 DEF regVars, OneTaskPerProblem, OnePerProblem
  <2> QED BY <2>1, <2>2, <2>4, <2>5, <2>6, <2>7, <2>8 DEF RegistryNext
<1> QED BY <1>1, <1>2, RegistryTypes, PTL DEF RegistrySpec

-----------------------------------------------------------------------------
(* Path rules and the plan.                                                *)

\* A set of numbers that is not empty has a least one.
LEMMA LeastExists ==
    ASSUME NEW I \in SUBSET Nat, I # {}
    PROVE  \E x \in I : \A y \in I : x <= y
<1> DEFINE R == {p \in Nat \X Nat : p[1] < p[2]}
<1>1. IsWellFoundedOn(R, Nat)
  BY NatLessThanWellFounded DEF OpToRel
<1>2. \A x, y \in Nat : <<y, x>> \notin R => x <= y
  OBVIOUS
<1> HIDE DEF R
<1>3. \E x \in I : \A y \in I : ~ (<<y, x>> \in R)
  BY <1>1, WFMin
<1> QED BY <1>2, <1>3

LEMMA MinIn ==
    ASSUME NEW I \in SUBSET Nat, I # {}
    PROVE  Min(I) \in I
BY LeastExists DEF Min

\* Where the literal prefix of a rule ends: before its first part with a wildcard,
\* so no later than before the last part of a recursive rule.
LEMMA PrefixEnds ==
    ASSUME NEW rule \in Seq(STRING)
    PROVE  /\ LiteralPrefix(rule) \in 0 .. Len(rule)
           /\ Recursive(rule) => LiteralPrefix(rule) # 0
<1> DEFINE I == {i \in 1 .. Len(rule) : rule[i] \in Wild}
<1>1. LiteralPrefix(rule) = IF I # {} THEN Min(I) ELSE 0
  BY DEF LiteralPrefix, SelectInSeq
<1>2. I \subseteq 1 .. Len(rule) /\ Len(rule) \in Nat
  OBVIOUS
<1>3. I # {} => Min(I) \in I
  <2> HIDE DEF I
  <2>1. I \in SUBSET Nat
    BY <1>2
  <2> QED BY <2>1, MinIn
<1>4. Recursive(rule) => I # {}
  <2>1. Star \in Wild
    BY HarnessConstants
  <2> SUFFICES ASSUME Recursive(rule) PROVE Len(rule) \in I
    OBVIOUS
  <2>2. Len(rule) \in 1 .. Len(rule) /\ rule[Len(rule)] \in Wild
    BY <1>2, <2>1 DEF Recursive
  <2> QED BY <2>2
<1> HIDE DEF I
<1>5. CASE I = {}
  BY <1>1, <1>2, <1>4, <1>5
<1>6. CASE I # {}
  <2>1. LiteralPrefix(rule) = Min(I) /\ Min(I) \in 1 .. Len(rule)
    BY <1>1, <1>2, <1>3, <1>6
  <2> QED BY <1>2, <2>1
<1> QED BY <1>5, <1>6

\* The literal prefix of a rule is again a sequence of parts.
LEMMA PrefixType ==
    ASSUME NEW rule \in Seq(STRING)
    PROVE  Prefix(rule) \in Seq(STRING)
<1>3. LiteralPrefix(rule) \in 0 .. Len(rule)
  BY PrefixEnds
<1>4. CASE LiteralPrefix(rule) = 0
  BY <1>4 DEF Prefix
<1>5. CASE LiteralPrefix(rule) \in 1 .. Len(rule)
  <2> DEFINE k == LiteralPrefix(rule)
  <2>1. k \in 1 .. Len(rule)
    BY <1>5
  <2>2. Prefix(rule) = SubSeq(rule, 1, k - 1)
    BY <1>5 DEF Prefix
  <2> HIDE DEF k
  <2>3. SubSeq(rule, 1, k - 1) \in Seq(STRING)
    BY <2>1
  <2> QED BY <2>2, <2>3
<1> QED BY <1>3, <1>4, <1>5

\* A path that a rule takes lies under the literal prefix of the rule, unless the
\* rule is a glob that takes it from elsewhere.
LEMMA MatchUnderPrefix ==
    ASSUME NEW rule \in Seq(STRING), NEW path \in Seq(STRING),
           PathMatches(path, rule), ~Astray(path, rule)
    PROVE  IsPrefix(Prefix(rule), path)
<1>1. CASE Recursive(rule)
  <2> DEFINE k == LiteralPrefix(rule)
             n == Len(rule)
  <2>1. k \in 1 .. n /\ n \in Nat /\ n > 1
    BY <1>1, PrefixEnds DEF Recursive
  <2>2. Prefix(rule) = SubSeq(rule, 1, k - 1)
    BY <2>1 DEF Prefix
  <2>3. IsPrefix(Front(rule), path) /\ Front(rule) = SubSeq(rule, 1, n - 1)
    BY <1>1 DEF PathMatches, Glob, Front
  <2> HIDE DEF k, n
  <2>4. n - 1 <= Len(path) /\ \A i \in 1 .. n - 1 : rule[i] = path[i]
    <3>1. n = Len(rule)
      BY DEF n
    <3>2. Len(SubSeq(rule, 1, n - 1)) = n - 1
      BY <2>1, <3>1
    <3>3. n - 1 <= Len(path) /\ SubSeq(SubSeq(rule, 1, n - 1), 1, n - 1) = SubSeq(path, 1, n - 1)
      BY <2>3, <3>2 DEF IsPrefix
    <3>4. ASSUME NEW i \in 1 .. n - 1 PROVE rule[i] = path[i]
      <4>1. SubSeq(SubSeq(rule, 1, n - 1), 1, n - 1)[i] = rule[i]
        BY <2>1, <3>1
      <4>2. SubSeq(path, 1, n - 1)[i] = path[i]
        BY <2>1, <3>3
      <4> QED BY <3>3, <4>1, <4>2
    <3> QED BY <3>3, <3>4
  <2>5. k - 1 <= Len(path) /\ Len(SubSeq(rule, 1, k - 1)) = k - 1
    BY <2>1, <2>4 DEF n
  <2>6. SubSeq(SubSeq(rule, 1, k - 1), 1, k - 1) = SubSeq(path, 1, k - 1)
    BY <2>1, <2>4, <2>5 DEF n
  <2> QED BY <2>2, <2>5, <2>6 DEF IsPrefix
<1>2. CASE ~Recursive(rule) /\ Glob(rule)
  BY <1>2 DEF PathMatches, Astray
<1>3. CASE ~Recursive(rule) /\ ~Glob(rule)
  BY <1>3 DEF PathMatches, Glob, Prefix
<1> QED BY <1>1, <1>2, <1>3

\* Of two prefixes of one path, one is a prefix of the other.
LEMMA PrefixesOfOnePath ==
    ASSUME NEW a \in Seq(STRING), NEW b \in Seq(STRING), NEW path \in Seq(STRING),
           IsPrefix(a, path), IsPrefix(b, path), Len(a) <= Len(b)
    PROVE  IsPrefix(a, b)
<1>1. \A i \in 1 .. Len(a) : a[i] = path[i]
  <2> SUFFICES ASSUME NEW i \in 1 .. Len(a) PROVE a[i] = path[i]
    OBVIOUS
  <2>1. SubSeq(a, 1, Len(a))[i] = a[i] /\ SubSeq(path, 1, Len(a))[i] = path[i]
    BY DEF IsPrefix
  <2> QED BY <2>1 DEF IsPrefix
<1>2. \A i \in 1 .. Len(b) : b[i] = path[i]
  <2> SUFFICES ASSUME NEW i \in 1 .. Len(b) PROVE b[i] = path[i]
    OBVIOUS
  <2>1. SubSeq(b, 1, Len(b))[i] = b[i] /\ SubSeq(path, 1, Len(b))[i] = path[i]
    BY DEF IsPrefix
  <2> QED BY <2>1 DEF IsPrefix
<1>3. \A i \in 1 .. Len(a) : a[i] = b[i]
  BY <1>1, <1>2
<1> QED BY <1>3 DEF IsPrefix

\* tasks_conflict does not depend on the order of its arguments.
LEMMA ConflictIsSymmetric ==
    ASSUME NEW t, NEW u, TasksConflict(t, u)
    PROVE  TasksConflict(u, t)
BY DEF TasksConflict, RulesMayOverlap

\* What the conflict check is for: rules of two tasks that do not conflict take no
\* path together, but for globs that take it from outside their prefix.
LEMMA NoCommonPath ==
    ASSUME NEW t \in Task, NEW u \in Task, ~TasksConflict(t, u), NEW path \in Seq(STRING),
           NEW left \in AllowedPaths[t], NEW right \in AllowedPaths[u],
           PathMatches(path, left), PathMatches(path, right)
    PROVE  Astray(path, left) \/ Astray(path, right)
<1> SUFFICES ASSUME ~Astray(path, left), ~Astray(path, right) PROVE FALSE
  OBVIOUS
<1>1. left \in Seq(STRING) /\ right \in Seq(STRING)
  BY HarnessConstants
<1>2. Prefix(left) \in Seq(STRING) /\ Prefix(right) \in Seq(STRING)
  BY <1>1, PrefixType
<1>3. IsPrefix(Prefix(left), path) /\ IsPrefix(Prefix(right), path)
  BY <1>1, MatchUnderPrefix
<1>4. Len(Prefix(left)) <= Len(Prefix(right)) \/ Len(Prefix(right)) <= Len(Prefix(left))
  BY <1>2
<1>5. RulesMayOverlap(left, right)
  BY <1>2, <1>3, <1>4, PrefixesOfOnePath DEF RulesMayOverlap
<1> QED BY <1>5 DEF TasksConflict

\* A set of tasks that is not empty has one of the highest rank.
LEMMA LastOfTasks ==
    ASSUME NEW P \in SUBSET Task, P # {}
    PROVE  \E t \in P : \A u \in P : Rank[u] <= Rank[t]
<1> DEFINE Above(t) == {u \in P : Rank[t] < Rank[u]}
<1> DEFINE All == {Above(t) : t \in P}
<1>1. IsFiniteSet(P)
  BY HarnessConstants, FS_Subset
<1>2. All \subseteq FiniteSubsetsOf(P) /\ All # {}
  <2>1. \A t \in P : Above(t) \in SUBSET P
    OBVIOUS
  <2>2. \A t \in P : IsFiniteSet(Above(t))
    BY <1>1, <2>1, FS_Subset
  <2> QED BY <2>1, <2>2 DEF FiniteSubsetsOf
<1>3. PICK A \in All : \A B \in All : <<B, A>> \notin StrictSubsetOrdering(P)
  BY <1>2, WFMin, FS_StrictSubsetOrderingWellFounded
<1>4. PICK t \in P : A = Above(t)
  OBVIOUS
<1>5. \A u \in P : Rank[u] <= Rank[t]
  <2> SUFFICES ASSUME NEW u \in P, ~(Rank[u] <= Rank[t]) PROVE FALSE
    OBVIOUS
  <2>1. Rank[t] \in Nat /\ Rank[u] \in Nat
    BY HarnessConstants
  <2>2. u \in Above(t) /\ u \notin Above(u)
    BY <2>1
  <2>3. \A v \in P : Rank[v] \in Nat
    BY HarnessConstants
  <2>4. Above(u) \subseteq Above(t)
    BY <2>1, <2>2, <2>3
  <2>5. <<Above(u), Above(t)>> \in StrictSubsetOrdering(P)
    BY <2>2, <2>4 DEF StrictSubsetOrdering
  <2> QED BY <1>3, <1>4, <2>5
<1> QED BY <1>5

\* What the scheduler promises of a plan: its tasks do not conflict with one
\* another and there are no more of them than workers.
LEMMA PlanIsApart ==
    ASSUME NEW tasks \in SUBSET Task, NEW taken \in SUBSET tasks, IsPlan(taken, tasks)
    PROVE  /\ \A t, u \in taken : t # u => ~TasksConflict(t, u)
           /\ Cardinality(taken) <= Capacity
<1>1. \A t, u \in taken : Rank[u] < Rank[t] => ~TasksConflict(t, u)
  BY DEF IsPlan, Before
<1>2. \A t, u \in taken : t # u => Rank[u] < Rank[t] \/ Rank[t] < Rank[u]
  BY HarnessConstants
<1>3. \A t, u \in taken : t # u => ~TasksConflict(t, u)
  BY <1>1, <1>2, ConflictIsSymmetric
<1>4. Cardinality(taken) <= Capacity
  <2>1. CASE taken = {}
    BY <2>1, FS_EmptySet, HarnessConstants
  <2>2. CASE taken # {}
    <3>1. PICK t \in taken : \A u \in taken : Rank[u] <= Rank[t]
      BY <2>2, LastOfTasks
    <3>2. taken = Before(taken, t) \cup {t} /\ t \notin Before(taken, t)
      BY <1>2, <3>1, HarnessConstants DEF Before
    <3>3. IsFiniteSet(Before(taken, t))
      BY FS_Subset, HarnessConstants DEF Before
    <3>4. Cardinality(taken) = Cardinality(Before(taken, t)) + 1
      BY <3>2, <3>3, FS_AddElement
    <3>5. Cardinality(Before(taken, t)) < Capacity
      BY DEF IsPlan
    <3>6. Cardinality(Before(taken, t)) \in Nat
      BY <3>3, FS_CardinalityType
    <3> QED BY <3>4, <3>5, <3>6, HarnessConstants
  <2> QED BY <2>1, <2>2
<1> QED BY <1>3, <1>4

\* A set of tasks that is not empty has one of the lowest rank.
LEMMA FirstOfTasks ==
    ASSUME NEW D \in SUBSET Task, D # {}
    PROVE  \E t \in D : \A u \in D : Rank[t] <= Rank[u]
<1> DEFINE I == {Rank[t] : t \in D}
<1>1. I \in SUBSET Nat /\ I # {}
  BY HarnessConstants
<1> HIDE DEF I
<1>2. \E x \in I : \A y \in I : x <= y
  BY <1>1, LeastExists
<1> QED BY <1>2 DEF I

\* The order of the tasks leaves the scheduler no choice.
LEMMA PlanIsUnique ==
    ASSUME NEW tasks \in SUBSET Task, NEW P \in SUBSET tasks, NEW Q \in SUBSET tasks,
           IsPlan(P, tasks), IsPlan(Q, tasks)
    PROVE  P = Q
<1> DEFINE D == (P \ Q) \cup (Q \ P)
<1> SUFFICES ASSUME D # {} PROVE FALSE
  OBVIOUS
<1>1. PICK t \in D : \A u \in D : Rank[t] <= Rank[u]
  BY FirstOfTasks
<1>2. \A u \in Task : Rank[u] < Rank[t] => u \notin D
  BY <1>1, HarnessConstants
<1>3. Before(P, t) = Before(Q, t)
  BY <1>2 DEF Before
<1>4. t \in P <=> t \in Q
  BY <1>3 DEF IsPlan
<1> QED BY <1>1, <1>4

\* One more task, behind all the others, extends a plan.
LEMMA PlanExtends ==
    ASSUME NEW tasks \in SUBSET Task, NEW P \in SUBSET tasks, IsPlan(P, tasks),
           NEW t \in Task, \A u \in tasks : Rank[u] < Rank[t]
    PROVE  \E Q \in SUBSET (tasks \cup {t}) : IsPlan(Q, tasks \cup {t})
<1> DEFINE fits == /\ DependenciesVerified(t)
                   /\ Cardinality(P) < Capacity
                   /\ \A u \in P : ~TasksConflict(t, u)
<1> DEFINE Q == P \cup {u \in {t} : fits}
<1>1. \A u \in Task : Rank[u] \in Nat
  BY HarnessConstants
<1>2. Before(Q, t) = P
  BY <1>1 DEF Before
<1>3. \A u \in tasks : Before(Q, u) = Before(P, u)
  BY <1>1 DEF Before
<1>4. t \notin tasks
  BY <1>1
<1>5. t \in Q <=> fits
  BY <1>4
<1>6. \A u \in tasks : u \in Q <=> u \in P
  BY <1>4
<1>7. \A u \in tasks \cup {t} :
          u \in Q <=> /\ DependenciesVerified(u)
                      /\ Cardinality(Before(Q, u)) < Capacity
                      /\ \A v \in Before(Q, u) : ~TasksConflict(u, v)
  <2> SUFFICES ASSUME NEW u \in tasks \cup {t}
               PROVE  u \in Q <=> /\ DependenciesVerified(u)
                                  /\ Cardinality(Before(Q, u)) < Capacity
                                  /\ \A v \in Before(Q, u) : ~TasksConflict(u, v)
    OBVIOUS
  <2> HIDE DEF Q
  <2>1. CASE u = t
    BY <1>2, <1>5, <2>1
  <2>2. CASE u \in tasks
    BY <1>3, <1>6, <2>2 DEF IsPlan
  <2> QED BY <2>1, <2>2
<1>8. Q \in SUBSET (tasks \cup {t})
  OBVIOUS
<1> HIDE DEF Q
<1>9. IsPlan(Q, tasks \cup {t})
  BY <1>7 DEF IsPlan
<1> QED BY <1>8, <1>9

\* The scheduler always comes to a plan, and to one only.
THEOREM PlanIsDetermined ==
    ASSUME NEW tasks \in SUBSET Task
    PROVE  /\ \E P \in SUBSET tasks : IsPlan(P, tasks)
           /\ \A P, Q \in SUBSET tasks : IsPlan(P, tasks) /\ IsPlan(Q, tasks) => P = Q
<1> DEFINE Below(n) == {t \in tasks : Rank[t] < n}
<1> DEFINE Planned(n) == \E P \in SUBSET Below(n) : IsPlan(P, Below(n))
<1> DEFINE Bad == {n \in Nat : ~Planned(n)}
<1>1. Planned(0)
  <2>1. Below(0) = {}
    BY HarnessConstants
  <2> QED BY <2>1 DEF IsPlan
<1>2. ASSUME NEW n \in Nat, Planned(n) PROVE Planned(n + 1)
  <2>1. Below(n + 1) = Below(n) \cup {t \in tasks : Rank[t] = n}
    BY HarnessConstants
  <2>2. CASE {t \in tasks : Rank[t] = n} = {}
    BY <1>2, <2>1, <2>2
  <2>3. CASE {t \in tasks : Rank[t] = n} # {}
    <3>1. PICK t \in tasks : Rank[t] = n
      BY <2>3
    <3>2. {u \in tasks : Rank[u] = n} = {t}
      BY <3>1, HarnessConstants
    <3>3. PICK P \in SUBSET Below(n) : IsPlan(P, Below(n))
      BY <1>2
    <3>4. \A u \in Below(n) : Rank[u] < Rank[t]
      BY <3>1
    <3>5. Below(n) \in SUBSET Task /\ t \in Task
      OBVIOUS
    <3>6. Below(n + 1) = Below(n) \cup {t}
      BY <2>1, <3>2
    <3> HIDE DEF Below
    <3>7. \E Q \in SUBSET (Below(n) \cup {t}) : IsPlan(Q, Below(n) \cup {t})
      BY <3>3, <3>4, <3>5, PlanExtends
    <3> QED BY <3>6, <3>7
  <2> QED BY <2>2, <2>3
<1>3. Bad = {}
  <2> SUFFICES ASSUME Bad # {} PROVE FALSE
    OBVIOUS
  <2>1. Bad \in SUBSET Nat /\ \A n \in Nat : n \notin Bad => Planned(n)
    OBVIOUS
  <2>2. \A n \in Bad : ~Planned(n)
    OBVIOUS
  <2> HIDE DEF Bad, Planned
  <2>3. PICK m \in Bad : \A y \in Bad : m <= y
    BY <2>1, LeastExists
  <2>4. m \in Nat /\ m # 0
    BY <1>1, <2>1, <2>2
  <2>5. m - 1 \in Nat /\ ~(m <= m - 1) /\ (m - 1) + 1 = m
    BY <2>4
  <2>6. m - 1 \notin Bad
    BY <2>3, <2>5
  <2>7. Planned(m)
    BY <1>2, <2>1, <2>5, <2>6
  <2> QED BY <2>2, <2>7
<1>4. \E n \in Nat : Below(n) = tasks
  <2>1. CASE tasks = {}
    BY <2>1
  <2>2. CASE tasks # {}
    <3>1. PICK t \in tasks : \A u \in tasks : Rank[u] <= Rank[t]
      BY <2>2, LastOfTasks
    <3>2. Rank[t] + 1 \in Nat /\ \A u \in tasks : Rank[u] < Rank[t] + 1
      BY <3>1, HarnessConstants
    <3>3. Below(Rank[t] + 1) = tasks
      BY <3>2
    <3> QED BY <3>2, <3>3
  <2> QED BY <2>1, <2>2
<1>5. \E P \in SUBSET tasks : IsPlan(P, tasks)
  <2>1. PICK n \in Nat : Below(n) = tasks
    BY <1>4
  <2>2. Planned(n)
    BY <1>3
  <2> HIDE DEF Below
  <2> QED BY <2>1, <2>2
<1> QED BY <1>5, PlanIsUnique

-----------------------------------------------------------------------------
(* The harness moves its registry by the registry's operations.            *)

\* A transition with evidence of the known kinds is a step of the registry.
LEMMA TransitionIsRegistryStep ==
    ASSUME NEW t \in Task, NEW target \in Status, NEW actor \in Actor, NEW refs \in SUBSET Ref,
           Transition(t, target, actor, refs)
    PROVE  RegistryNext
BY DEF RegistryNext

\* Whatever thread, operator or crash takes a step, the registry is left alone or
\* moved by one of its own operations.
LEMMA HarnessMovesRegistry ==
    ASSUME [HarnessNext]_harnessVars
    PROVE  [RegistryNext]_regVars
<1> USE DEF Rest
<1>0. /\ {} \in SUBSET Ref /\ {"worker"} \in SUBSET Ref /\ {"review"} \in SUBSET Ref
      /\ {"ready", "running", "verification", "passed", "failed", "merge_candidate", "blocked",
          "triaged", "released", "measured"} \subseteq Status
      /\ {"coordinator", "worker", "verifier", "human"} \subseteq Actor
  BY DEF Ref, Status, Verified, Actor
<1>1. ASSUME NEW t \in Task, Attempt(t) PROVE [RegistryNext]_regVars
  <2>1. CASE Prepare(t)
    BY <1>0, <2>1, TransitionIsRegistryStep DEF Prepare, regVars
  <2>2. CASE Start(t)
    BY <1>0, <2>2, TransitionIsRegistryStep DEF Start, regVars
  <2>3. CASE Lease(t)
    BY <2>3 DEF Lease
  <2>4. CASE Work(t)
    BY <1>0, <2>4, TransitionIsRegistryStep DEF Work, regVars
  <2>5. CASE Verify(t)
    BY <2>5 DEF Verify
  <2>6. CASE Gate(t)
    BY <1>0, <2>6, TransitionIsRegistryStep DEF Gate, regVars
  <2>7. CASE Promote(t)
    BY <1>0, <2>7, TransitionIsRegistryStep DEF Promote
  <2>8. CASE Except(t)
    BY <1>0, <2>8, TransitionIsRegistryStep DEF Except
  <2>9. CASE Clean(t)
    BY <2>9 DEF Clean
  <2>10. CASE Judge(t)
    BY <2>10 DEF Judge
  <2>11. CASE WriteReleaseCandidate(t)
    BY <2>11 DEF WriteReleaseCandidate
  <2>12. ASSUME NEW pc, NEW next, SaveAt(t, pc, next) PROVE [RegistryNext]_regVars
    BY <2>12 DEF SaveAt, RegistryNext
  <2> QED
    BY <1>1, <2>1, <2>2, <2>3, <2>4, <2>5, <2>6, <2>7, <2>8, <2>9, <2>10, <2>11, <2>12 DEF Attempt
<1>2. ASSUME NEW t \in Task, Operate(t) PROVE [RegistryNext]_regVars
  <2>1. CASE Add(t)
    BY <2>1 DEF RegistryNext
  <2>2. CASE RecordHumanApproval(t)
    BY <2>2 DEF RegistryNext
  <2>3. ASSUME NEW target \in {"triaged", "ready", "blocked", "released", "measured"},
               Transition(t, target, "human", {})
        PROVE  [RegistryNext]_regVars
    BY <1>0, <2>3, TransitionIsRegistryStep
  <2>4. CASE RecordVerifiedMerge(t, "human")
    BY <1>0, <2>4 DEF RegistryNext
  <2> QED BY <1>2, <2>1, <2>2, <2>3, <2>4 DEF Operate
<1>3. CASE OperatorSave
  BY <1>3 DEF OperatorSave, RegistryNext
<1>4. CASE Crash
  BY <1>4 DEF Crash, RegistryNext
<1>5. CASE RunReady \/ MainMoves \/ TagMoves \/ UNCHANGED harnessVars
  BY <1>5 DEF RunReady, MainMoves, TagMoves, harnessVars
<1> QED BY <1>1, <1>2, <1>3, <1>4, <1>5 DEF HarnessNext

\* The harness implements the registry: along every run of batches, retries,
\* operator calls and crashes the registry goes through a behaviour of its own
\* specification, so that whatever holds of the registry alone holds under it.
THEOREM HarnessImplementsRegistry == HarnessSpec => RegistrySpec
<1>1. HarnessInit => RegistryInit
  BY DEF HarnessInit
<1>2. [HarnessNext]_harnessVars => [RegistryNext]_regVars
  BY HarnessMovesRegistry
<1> QED BY <1>1, <1>2, PTL DEF HarnessSpec, RegistrySpec

\* No high-risk task is dispatched, retried or verified by the harness without a
\* human's approval, and no problem ever has two tasks.
THEOREM HarnessAsksForApproval == HarnessSpec => [](ApprovedBeforeWork /\ OneTaskPerProblem)
BY HarnessImplementsRegistry, ApprovalHolds, ProblemsAreLinked, PTL

-----------------------------------------------------------------------------
(* What the harness keeps between its steps.                               *)

Step == {"none", "prepare", "prepare_save", "start", "start_save", "lease", "work",
         "verify", "gate", "promote", "finish_save", "except", "except_save",
         "clean", "judge", "done", "raised"}

\* An attempt is a record with these fields; what is counted of the failures
\* before it matters to no invariant.
AttemptOK(a) ==
    /\ a = [pc |-> a.pc, n |-> a.n, base |-> a.base, paths |-> a.paths, why |-> a.why,
            err |-> a.err, fails |-> a.fails, retried |-> a.retried]
    /\ a.pc \in Step /\ a.n \in 0 .. MaxIterations /\ a.base \in 0 .. MaxMain
    /\ a.paths \subseteq Seq(STRING) /\ a.why \subseteq Reason
    /\ a.err \in Exception \cup {"none"}
    /\ a.pc \notin {"none", "done", "raised"} => a.n >= 1

Counters ==
    /\ batch \in 0 .. MaxBatches /\ main \in 0 .. MaxMain /\ crashes \in 0 .. MaxCrashes
    /\ tag \in BOOLEAN /\ bundle \subseteq Task /\ wedged \subseteq Task
    /\ trees \subseteq Task \X (1 .. MaxIterations)

Tables ==
    /\ DOMAIN att = Task /\ att = [t \in Task |-> att[t]]
    /\ DOMAIN result = Task /\ result = [t \in Task |-> result[t]]

ResultOK(t) == result[t] = {} \/ \E c \in result[t] : result[t] = {c}

\* The status of a task says where its thread is, and between two attempts a
\* task is not running, unless its worktree was refused.
InStep(t) ==
    LET pc     == att[t].pc
        status == reg[t].status
    IN  /\ pc \in {"prepare_save", "start"} => status = "ready"
        /\ pc \in {"start_save", "lease", "work"} => status = "running"
        /\ pc \in {"verify", "gate"} => status = "verification"
        /\ pc = "promote" => status = "passed"
        /\ pc = "finish_save" => status \in {"merge_candidate", "failed"}
        /\ pc = "except" => status \in {"running", "verification"}
        /\ pc = "except_save" => status = "blocked"
        /\ pc \in {"prepare", "clean", "judge"} =>
              status \notin {"running", "verification"} \/ t \in wedged

\* An attempt has an exception from its except clause on, and none before.
Excepted(t) ==
    /\ att[t].pc \in {"except", "except_save"} => att[t].err # "none"
    /\ att[t].pc \in {"prepare", "prepare_save", "start", "start_save", "lease", "work",
                      "verify", "gate", "promote", "finish_save"} => att[t].err = "none"

\* At the gate no reason means that the candidate stayed in its scope.  An attempt
\* that ends without a reason or an exception has passed: its task is verified,
\* after the save also in the file.
Passed(t) ==
    /\ att[t].pc = "gate" /\ att[t].why = {} => ~OutOfScope(t, att[t].paths)
    /\ att[t].pc = "promote" => att[t].why = {}
    /\ att[t].pc = "finish_save" /\ att[t].why = {} => reg[t].status = "merge_candidate"
    /\ att[t].pc \in {"clean", "judge"} /\ Fingerprint(att[t]) = {} =>
          reg[t].status \in Verified /\ disk[t].status \in Verified

\* A verified record, in memory or in the file, has an admissible result.
Backed(t, r) ==
    r.status \in Verified =>
        /\ \E c \in result[t] : \A path \in c.paths : MayTouch(t, path)
        /\ "review" \in r.evidence

\* A bundle's task is verified in the file and in memory.
Durable(t) == t \in bundle => reg[t].status \in Verified /\ disk[t].status \in Verified

Owned(t) ==
    crashes = 0 /\ reg[t].status \in {"running", "verification"} =>
        Active(t) \/ t \in wedged

TaskInv(t) ==
    /\ AttemptOK(att[t]) /\ ResultOK(t)
    /\ InStep(t) /\ Excepted(t) /\ Passed(t)
    /\ Backed(t, reg[t]) /\ Backed(t, disk[t]) /\ Durable(t) /\ Owned(t)

\* Scheduled together means: no conflict, and no more than there are workers.
Apart ==
    /\ Cardinality({t \in Task : Active(t)}) <= Capacity
    /\ \A t, u \in Task : Active(t) /\ Active(u) /\ t # u => ~TasksConflict(t, u)

HarnessInv == RegistryTypeOK /\ Counters /\ Tables /\ Apart /\ \A t \in Task : TaskInv(t)

\* A step of one thread leaves the others' attempts and records alone; all it can
\* do to them is to save them.
Spared(u) ==
    /\ att'[u] = att[u] /\ reg'[u] = reg[u] /\ disk'[u] \in {disk[u], reg[u]}
    /\ result'[u] = result[u]
    /\ (u \in bundle') = (u \in bundle)
    /\ wedged \subseteq wedged'
    /\ crashes' = crashes

LEMMA SparedKeepsTask ==
    ASSUME NEW u \in Task, TaskInv(u), Spared(u)
    PROVE  TaskInv(u)'
<1> USE DEF TaskInv, Spared
<1>1. AttemptOK(att[u])' /\ ResultOK(u)'
  BY DEF AttemptOK, ResultOK
<1>2. InStep(u)' /\ Excepted(u)'
  BY DEF InStep, Excepted
<1>3. Passed(u)'
  BY DEF Passed, OutOfScope, Fingerprint
<1>4. Backed(u, reg[u])' /\ Backed(u, disk[u])'
  BY DEF Backed, MayTouch
<1>5. Durable(u)' /\ Owned(u)'
  BY DEF Durable, Owned, Active
<1> QED BY <1>1, <1>2, <1>3, <1>4, <1>5

-----------------------------------------------------------------------------
(* One step of a thread.                                                   *)

\* What a thread's step has to establish: its own task's part of the invariant,
\* and that it spares the other tasks.
StepOK(t) ==
    /\ Active(t) /\ Tables' /\ Counters' /\ TaskInv(t)'
    /\ \A u \in Task \ {t} : Spared(u)

LEMMA StepKeepsInv ==
    ASSUME HarnessInv, RegistryTypeOK', NEW t \in Task, StepOK(t)
    PROVE  HarnessInv'
<1>1. \A u \in Task : TaskInv(u)'
  BY SparedKeepsTask DEF HarnessInv, StepOK
<1>2. Apart'
  <2>1. \A u \in Task : Active(u)' => Active(u)
    BY DEF StepOK, Spared, Active
  <2>2. {u \in Task : Active(u)'} \subseteq {u \in Task : Active(u)}
    BY <2>1
  <2>3. IsFiniteSet({u \in Task : Active(u)})
    BY FS_Subset, HarnessConstants
  <2>4. IsFiniteSet({u \in Task : Active(u)'})
    BY <2>2, <2>3, FS_Subset
  <2>5. Cardinality({u \in Task : Active(u)'}) <= Cardinality({u \in Task : Active(u)})
    BY <2>2, <2>3, FS_Subset
  <2>6. Cardinality({u \in Task : Active(u)}) \in Nat /\ Cardinality({u \in Task : Active(u)'}) \in Nat
    BY <2>3, <2>4, FS_CardinalityType
  <2>7. Cardinality({u \in Task : Active(u)'}) <= Capacity
    BY <2>5, <2>6, HarnessConstants DEF HarnessInv, Apart
  <2> QED BY <2>1, <2>7 DEF HarnessInv, Apart, TasksConflict, RulesMayOverlap
<1> QED BY <1>1, <1>2 DEF HarnessInv, StepOK

\* A transition changes one record and takes an edge of the table.
LEMMA TransitionFacts ==
    ASSUME RegistryTypeOK, NEW t \in Task, NEW target, NEW actor, NEW refs,
           Transition(t, target, actor, refs)
    PROVE  /\ target \in Allowed[reg[t].status] /\ reg'[t].status = target
           /\ reg'[t].evidence = reg[t].evidence \cup refs
           /\ \A u \in Task \ {t} : reg'[u] = reg[u]
           /\ disk' = disk
BY DEF Transition, CanMove, Move, RegistryTypeOK, Record

\* What the edges of the table are.
LEMMA Edges ==
    /\ \A s \in Status \cup {"absent"} :
          /\ "running" \in Allowed[s] => s = "ready"
          /\ "verification" \in Allowed[s] => s = "running"
          /\ "passed" \in Allowed[s] => s = "verification"
          /\ "merged" \in Allowed[s] => s = "merge_candidate"
          /\ "released" \in Allowed[s] => s = "merged"
          /\ "measured" \in Allowed[s] => s = "released"
          /\ {"triaged", "ready", "blocked"} \cap Allowed[s] # {} => s \notin Verified
    /\ "failed" \in Allowed["verification"] /\ "merge_candidate" \in Allowed["passed"]
BY DEF Allowed, Status, Verified

\* An attempt that is set up anew is well formed, whatever it has counted.
LEMMA FreshAttempt ==
    ASSUME NEW pc \in Step, NEW n \in 0 .. MaxIterations, NEW fails, NEW retried,
           pc \notin {"none", "done", "raised"} => n >= 1
    PROVE  LET a == Fresh(pc, n, fails, retried)
           IN  AttemptOK(a) /\ a.pc = pc /\ a.n = n /\ a.why = {} /\ a.err = "none"
BY HarnessConstants DEF AttemptOK, Fresh

LEMMA OverAttempt ==
    ASSUME NEW pc \in {"none", "done", "raised"}
    PROVE  AttemptOK(Over(pc)) /\ Over(pc).pc = pc
<1> DEFINE None == <<>>
<1> DEFINE No == FALSE
<1>1. Over(pc) = Fresh(pc, 0, None, No)
  BY Zenon DEF Over
<1>2. pc \in Step /\ 0 \in 0 .. MaxIterations
  BY HarnessConstants DEF Step
<1> HIDE DEF None, No
<1>3. AttemptOK(Fresh(pc, 0, None, No)) /\ Fresh(pc, 0, None, No).pc = pc
  BY <1>2, HarnessConstants DEF AttemptOK, Fresh
<1> QED BY <1>1, <1>3

\* A step of the control point alone.
LEMMA GoFacts ==
    ASSUME Tables, NEW t \in Task, AttemptOK(att[t]), NEW pc \in Step, Go(t, pc),
           att[t].n >= 1
    PROVE  /\ AttemptOK(att'[t]) /\ att'[t].pc = pc
           /\ att'[t].n = att[t].n /\ att'[t].base = att[t].base /\ att'[t].paths = att[t].paths
           /\ att'[t].why = att[t].why /\ att'[t].err = att[t].err
           /\ \A u \in Task \ {t} : att'[u] = att[u]
           /\ DOMAIN att' = Task /\ att' = [u \in Task |-> att'[u]]
<1> USE DEF Tables, Go
<1>1. DOMAIN att' = Task /\ att' = [u \in Task |-> att'[u]]
  OBVIOUS
<1>2. \A u \in Task \ {t} : att'[u] = att[u]
  OBVIOUS
<1>3. att'[t] = [att[t] EXCEPT !.pc = pc]
  OBVIOUS
<1>4. att'[t] = [pc |-> pc, n |-> att[t].n, base |-> att[t].base, paths |-> att[t].paths,
                 why |-> att[t].why, err |-> att[t].err, fails |-> att[t].fails,
                 retried |-> att[t].retried]
  BY <1>3 DEF AttemptOK
<1>5. AttemptOK(att'[t])
  BY <1>4 DEF AttemptOK
<1> QED BY <1>1, <1>2, <1>4, <1>5

LEMMA RaiseFacts ==
    ASSUME Tables, NEW t \in Task, AttemptOK(att[t]), NEW pc \in Step, NEW kind \in Exception,
           Raise(t, pc, kind), att[t].n >= 1
    PROVE  /\ AttemptOK(att'[t]) /\ att'[t].pc = pc /\ att'[t].err = kind /\ kind # "none"
           /\ att'[t].why = att[t].why
           /\ \A u \in Task \ {t} : att'[u] = att[u]
           /\ DOMAIN att' = Task /\ att' = [u \in Task |-> att'[u]]
<1> USE DEF Tables, Raise
<1>1. DOMAIN att' = Task /\ att' = [u \in Task |-> att'[u]]
  OBVIOUS
<1>2. \A u \in Task \ {t} : att'[u] = att[u]
  OBVIOUS
<1>3. att'[t] = [att[t] EXCEPT !.pc = pc, !.err = kind, !.base = 0, !.paths = {}]
  OBVIOUS
<1>4. att'[t] = [pc |-> pc, n |-> att[t].n, base |-> 0, paths |-> {},
                 why |-> att[t].why, err |-> kind, fails |-> att[t].fails,
                 retried |-> att[t].retried]
  BY <1>3 DEF AttemptOK
<1>5. AttemptOK(att'[t]) /\ kind # "none"
  BY <1>4, HarnessConstants DEF AttemptOK, Exception
<1> QED BY <1>1, <1>2, <1>4, <1>5

\* At its control points a thread is active and has counted at least one attempt.
LEMMA AtFacts ==
    ASSUME HarnessInv, NEW t \in Task, NEW pc \in Step \ {"none", "done", "raised"}, At(t, pc)
    PROVE  Active(t) /\ att[t].n >= 1 /\ AttemptOK(att[t]) /\ Tables /\ RegistryTypeOK
BY DEF HarnessInv, TaskInv, AttemptOK, At, Active

\* A step that only moves t, and may save, spares the others.
LEMMA QuietStep ==
    ASSUME HarnessInv, NEW t \in Task, Active(t),
           DOMAIN att' = Task, att' = [u \in Task |-> att'[u]],
           \A u \in Task \ {t} : att'[u] = att[u] /\ reg'[u] = reg[u],
           disk' = disk \/ disk' = reg,
           UNCHANGED <<trees, result, Rest>>, TaskInv(t)'
    PROVE  StepOK(t)
<1>1. Tables' /\ Counters'
  BY DEF HarnessInv, Tables, Counters, Rest
<1>2. \A u \in Task \ {t} : Spared(u)
  BY DEF Spared, Rest
<1> QED BY <1>1, <1>2 DEF StepOK

LEMMA PrepareOK ==
    ASSUME HarnessInv, NEW t \in Task, Prepare(t)
    PROVE  StepOK(t)
<1>0. At(t, "prepare") /\ UNCHANGED <<trees, result, Rest>>
  BY DEF Prepare
<1>1. Active(t) /\ att[t].n >= 1 /\ AttemptOK(att[t]) /\ Tables /\ RegistryTypeOK /\ TaskInv(t)
  BY <1>0, AtFacts DEF HarnessInv, Step
<1>2. CASE reg[t].status \in {"failed", "blocked"} /\ Transition(t, "ready", "coordinator", {})
           /\ Go(t, "prepare_save")
  <2>1. /\ AttemptOK(att'[t]) /\ att'[t].pc = "prepare_save" /\ att'[t].err = att[t].err
        /\ \A u \in Task \ {t} : att'[u] = att[u]
        /\ DOMAIN att' = Task /\ att' = [u \in Task |-> att'[u]]
    BY <1>1, <1>2, GoFacts DEF Step
  <2>2. reg'[t].status = "ready" /\ disk' = disk /\ \A u \in Task \ {t} : reg'[u] = reg[u]
    BY <1>1, <1>2, TransitionFacts
  <2>3. TaskInv(t)'
    BY <1>0, <1>1, <1>2, <2>1, <2>2
       DEF TaskInv, At, ResultOK, InStep, Excepted, Passed, Backed, Durable, Owned, Active,
           Verified, Rest, MayTouch
  <2> QED BY <1>0, <1>1, <2>1, <2>2, <2>3, QuietStep
<1>3. CASE reg[t].status = "ready" /\ Go(t, "start") /\ UNCHANGED regVars
  <2>1. /\ AttemptOK(att'[t]) /\ att'[t].pc = "start" /\ att'[t].err = att[t].err
        /\ \A u \in Task \ {t} : att'[u] = att[u]
        /\ DOMAIN att' = Task /\ att' = [u \in Task |-> att'[u]]
    BY <1>1, <1>3, GoFacts DEF Step
  <2>3. TaskInv(t)'
    BY <1>0, <1>1, <1>3, <2>1
       DEF TaskInv, At, ResultOK, InStep, Excepted, Passed, Backed, Durable, Owned, Active,
           Verified, Rest, MayTouch, regVars
  <2> QED BY <1>0, <1>1, <1>3, <2>1, <2>3, QuietStep DEF regVars
<1>4. CASE /\ reg[t].status \notin {"failed", "blocked", "ready"}
           /\ att' = [att EXCEPT ![t] = Over("raised")]
           /\ UNCHANGED regVars
  <2>1. /\ att'[t] = Over("raised")
        /\ \A u \in Task \ {t} : att'[u] = att[u]
        /\ DOMAIN att' = Task /\ att' = [u \in Task |-> att'[u]]
    BY <1>1, <1>4 DEF Tables
  <2>2. AttemptOK(att'[t]) /\ att'[t].pc = "raised"
    BY <2>1, OverAttempt
  <2>3. TaskInv(t)'
    BY <1>0, <1>1, <1>4, <2>2
       DEF TaskInv, At, ResultOK, InStep, Excepted, Passed, Backed, Durable, Owned, Active,
           Verified, Rest, MayTouch, regVars
  <2> QED BY <1>0, <1>1, <1>4, <2>1, <2>3, QuietStep DEF regVars
<1> QED BY <1>2, <1>3, <1>4 DEF Prepare

LEMMA StartOK ==
    ASSUME HarnessInv, NEW t \in Task, Start(t)
    PROVE  StepOK(t)
<1>0. At(t, "start") /\ UNCHANGED <<trees, result, Rest>>
  BY DEF Start
<1>1. Active(t) /\ att[t].n >= 1 /\ AttemptOK(att[t]) /\ Tables /\ RegistryTypeOK /\ TaskInv(t)
  BY <1>0, AtFacts DEF HarnessInv, Step
<1>2. CASE /\ Transition(t, "running", "coordinator", {})
           /\ att' = [att EXCEPT ![t].pc = "start_save", ![t].base = main]
  <2>0. /\ att'[t] = [att[t] EXCEPT !.pc = "start_save", !.base = main]
        /\ \A u \in Task \ {t} : att'[u] = att[u]
        /\ DOMAIN att' = Task /\ att' = [u \in Task |-> att'[u]]
    BY <1>1, <1>2 DEF Tables
  <2>1. AttemptOK(att'[t]) /\ att'[t].pc = "start_save" /\ att'[t].err = att[t].err
    <3>1. main \in 0 .. MaxMain
      BY DEF HarnessInv, Counters
    <3> QED BY <1>1, <2>0, <3>1 DEF AttemptOK, Step
  <2>2. /\ reg'[t].status = "running" /\ reg[t].evidence \subseteq reg'[t].evidence
        /\ disk' = disk /\ \A u \in Task \ {t} : reg'[u] = reg[u]
    BY <1>1, <1>2, TransitionFacts
  <2>3. TaskInv(t)'
    BY <1>0, <1>1, <1>2, <2>1, <2>2
       DEF TaskInv, At, ResultOK, InStep, Excepted, Passed, Backed, Durable, Owned, Active,
           Verified, Rest, MayTouch
  <2> QED BY <1>0, <1>1, <2>0, <2>2, <2>3, QuietStep
<1>3. CASE Raise(t, "judge", "integrity") /\ UNCHANGED regVars
  <2>1. /\ AttemptOK(att'[t]) /\ att'[t].pc = "judge" /\ att'[t].err # "none"
        /\ \A u \in Task \ {t} : att'[u] = att[u]
        /\ DOMAIN att' = Task /\ att' = [u \in Task |-> att'[u]]
    BY <1>1, <1>3, RaiseFacts DEF Step, Exception
  <2>3. TaskInv(t)'
    BY <1>0, <1>1, <1>3, <2>1
       DEF TaskInv, At, ResultOK, InStep, Excepted, Passed, Backed, Durable, Owned, Active,
           Verified, Rest, MayTouch, regVars, Fingerprint
  <2> QED BY <1>0, <1>1, <1>3, <2>1, <2>3, QuietStep DEF regVars
<1> QED BY <1>2, <1>3 DEF Start

LEMMA LeaseOK ==
    ASSUME HarnessInv, NEW t \in Task, Lease(t)
    PROVE  StepOK(t)
<1>0. At(t, "lease") /\ UNCHANGED <<regVars, result, batch, main, tag, bundle, crashes>>
  BY DEF Lease
<1>1. Active(t) /\ att[t].n >= 1 /\ AttemptOK(att[t]) /\ Tables /\ RegistryTypeOK /\ TaskInv(t)
  BY <1>0, AtFacts DEF HarnessInv, Step
<1>2. CASE Create(t) /\ Go(t, "work") /\ UNCHANGED wedged
  <2>1. /\ AttemptOK(att'[t]) /\ att'[t].pc = "work" /\ att'[t].err = att[t].err
        /\ att'[t].why = att[t].why /\ att'[t].paths = att[t].paths
        /\ \A u \in Task \ {t} : att'[u] = att[u]
        /\ DOMAIN att' = Task /\ att' = [u \in Task |-> att'[u]]
    BY <1>1, <1>2, GoFacts DEF Step
  <2>3. TaskInv(t)'
    BY <1>0, <1>1, <1>2, <2>1
       DEF TaskInv, At, ResultOK, InStep, Excepted, Passed, Backed, Durable, Owned, Active,
           Verified, Rest, MayTouch, regVars
  <2>4. Tree(t) \in Task \X (1 .. MaxIterations)
    BY <1>1, HarnessConstants DEF Tree, AttemptOK
  <2>5. Tables' /\ Counters'
    BY <1>0, <1>1, <1>2, <2>1, <2>4 DEF HarnessInv, Tables, Counters, Create
  <2>6. \A u \in Task \ {t} : Spared(u)
    BY <1>0, <1>2, <2>1 DEF Spared, regVars
  <2> QED BY <1>1, <2>3, <2>5, <2>6 DEF StepOK
<1>3. CASE Raise(t, "judge", "error") /\ wedged' = wedged \cup {t} /\ UNCHANGED trees
  <2>1. /\ AttemptOK(att'[t]) /\ att'[t].pc = "judge" /\ att'[t].err # "none"
        /\ \A u \in Task \ {t} : att'[u] = att[u]
        /\ DOMAIN att' = Task /\ att' = [u \in Task |-> att'[u]]
    BY <1>1, <1>3, RaiseFacts DEF Step, Exception
  <2>3. TaskInv(t)'
    BY <1>0, <1>1, <1>3, <2>1
       DEF TaskInv, At, ResultOK, InStep, Excepted, Passed, Backed, Durable, Owned, Active,
           Verified, Rest, MayTouch, regVars, Fingerprint
  <2>5. Tables' /\ Counters'
    BY <1>0, <1>1, <1>3, <2>1 DEF HarnessInv, Tables, Counters
  <2>6. \A u \in Task \ {t} : Spared(u)
    BY <1>0, <1>3, <2>1 DEF Spared, regVars
  <2> QED BY <1>1, <2>3, <2>5, <2>6 DEF StepOK
<1> QED BY <1>2, <1>3 DEF Lease

LEMMA WorkOK ==
    ASSUME HarnessInv, NEW t \in Task, Work(t)
    PROVE  StepOK(t)
<1>0. At(t, "work") /\ UNCHANGED <<trees, result, Rest>>
  BY DEF Work
<1>1. Active(t) /\ att[t].n >= 1 /\ AttemptOK(att[t]) /\ Tables /\ RegistryTypeOK /\ TaskInv(t)
  BY <1>0, AtFacts DEF HarnessInv, Step
<1>2. ASSUME Transition(t, "verification", "worker", {"worker"}), NEW paths \in Changes,
             att' = [att EXCEPT ![t].pc = "verify", ![t].paths = paths]
      PROVE  StepOK(t)
  <2>0. /\ att'[t] = [att[t] EXCEPT !.pc = "verify", !.paths = paths]
        /\ \A u \in Task \ {t} : att'[u] = att[u]
        /\ DOMAIN att' = Task /\ att' = [u \in Task |-> att'[u]]
    BY <1>1, <1>2 DEF Tables
  <2>1. AttemptOK(att'[t]) /\ att'[t].pc = "verify" /\ att'[t].err = att[t].err
    <3>1. att'[t] = [pc |-> "verify", n |-> att[t].n, base |-> att[t].base, paths |-> paths,
                     why |-> att[t].why, err |-> att[t].err, fails |-> att[t].fails,
                     retried |-> att[t].retried]
      BY <1>1, <2>0 DEF AttemptOK
    <3>2. paths \subseteq Seq(STRING)
      BY HarnessConstants
    <3> QED BY <1>1, <3>1, <3>2 DEF AttemptOK, Step
  <2>2. /\ reg'[t].status = "verification" /\ reg[t].evidence \subseteq reg'[t].evidence
        /\ disk' = disk /\ \A u \in Task \ {t} : reg'[u] = reg[u]
    BY <1>1, <1>2, TransitionFacts
  <2>3. TaskInv(t)'
    BY <1>0, <1>1, <1>2, <2>1, <2>2
       DEF TaskInv, At, ResultOK, InStep, Excepted, Passed, Backed, Durable, Owned, Active,
           Verified, Rest, MayTouch
  <2> QED BY <1>0, <1>1, <2>0, <2>2, <2>3, QuietStep
<1>3. ASSUME NEW kind \in Exception, Raise(t, "except", kind), UNCHANGED regVars
      PROVE  StepOK(t)
  <2>1. /\ AttemptOK(att'[t]) /\ att'[t].pc = "except" /\ att'[t].err # "none"
        /\ \A u \in Task \ {t} : att'[u] = att[u]
        /\ DOMAIN att' = Task /\ att' = [u \in Task |-> att'[u]]
    BY <1>1, <1>3, RaiseFacts DEF Step, Exception
  <2>3. TaskInv(t)'
    BY <1>0, <1>1, <1>3, <2>1
       DEF TaskInv, At, ResultOK, InStep, Excepted, Passed, Backed, Durable, Owned, Active,
           Verified, Rest, MayTouch, regVars, Fingerprint
  <2> QED BY <1>0, <1>1, <1>3, <2>1, <2>3, QuietStep DEF regVars
<1> QED BY <1>2, <1>3 DEF Work, Exception

LEMMA VerifyOK ==
    ASSUME HarnessInv, NEW t \in Task, Verify(t)
    PROVE  StepOK(t)
<1>0. At(t, "verify") /\ UNCHANGED <<regVars, trees, result, Rest>>
  BY DEF Verify
<1>1. Active(t) /\ att[t].n >= 1 /\ AttemptOK(att[t]) /\ Tables /\ RegistryTypeOK /\ TaskInv(t)
  BY <1>0, AtFacts DEF HarnessInv, Step
<1>2. ASSUME NEW weakened \in Weakenings, NEW failed \in CommandFailures,
             NEW refused \in ReviewFailures, NEW conflict \in Conflicts,
             att' = [att EXCEPT ![t].pc = "gate",
                 ![t].why = Reasons(t, att[t].paths, att[t].base,
                                    weakened \cup failed \cup refused \cup conflict)]
      PROVE  StepOK(t)
  <2> DEFINE why == Reasons(t, att[t].paths, att[t].base,
                            weakened \cup failed \cup refused \cup conflict)
  <2>0. /\ why \subseteq Reason
        /\ why = {} => ~OutOfScope(t, att[t].paths)
    BY DEF Reasons, Reason, CommandFailures, ReviewFailures, Weakenings, Conflicts
  <2>00. att' = [att EXCEPT ![t].pc = "gate", ![t].why = why]
    BY <1>2
  <2> HIDE DEF why
  <2>1. /\ att'[t] = [pc |-> "gate", n |-> att[t].n, base |-> att[t].base, paths |-> att[t].paths,
                      why |-> why, err |-> att[t].err, fails |-> att[t].fails,
                      retried |-> att[t].retried]
        /\ \A u \in Task \ {t} : att'[u] = att[u]
        /\ DOMAIN att' = Task /\ att' = [u \in Task |-> att'[u]]
    BY <1>1, <2>00 DEF Tables, AttemptOK
  <2>2. AttemptOK(att'[t])
    BY <1>1, <2>0, <2>1 DEF AttemptOK, Step
  <2>3. att[t].err = "none"
    BY <1>0, <1>1 DEF TaskInv, Excepted, At
  <2>4. Passed(t)' /\ Excepted(t)'
    BY <2>0, <2>1, <2>3 DEF Passed, Excepted, OutOfScope
  <2>5. TaskInv(t)'
    BY <1>0, <1>1, <2>1, <2>2, <2>4
       DEF TaskInv, At, ResultOK, InStep, Backed, Durable, Owned, Active, Rest, MayTouch, regVars
  <2> QED BY <1>0, <1>1, <2>1, <2>5, QuietStep DEF regVars
<1>3. ASSUME NEW kind \in Exception, Raise(t, "except", kind) PROVE StepOK(t)
  <2>1. /\ AttemptOK(att'[t]) /\ att'[t].pc = "except" /\ att'[t].err # "none"
        /\ \A u \in Task \ {t} : att'[u] = att[u]
        /\ DOMAIN att' = Task /\ att' = [u \in Task |-> att'[u]]
    BY <1>1, <1>3, RaiseFacts DEF Step, Exception
  <2>3. TaskInv(t)'
    BY <1>0, <1>1, <1>3, <2>1
       DEF TaskInv, At, ResultOK, InStep, Excepted, Passed, Backed, Durable, Owned, Active,
           Verified, Rest, MayTouch, regVars, Fingerprint
  <2> QED BY <1>0, <1>1, <1>3, <2>1, <2>3, QuietStep DEF regVars
<1> QED BY <1>2, <1>3 DEF Verify

LEMMA PromoteOK ==
    ASSUME HarnessInv, NEW t \in Task, Promote(t)
    PROVE  StepOK(t)
<1>0. At(t, "promote") /\ UNCHANGED <<trees, result, Rest>>
  BY DEF Promote
<1>1. Active(t) /\ att[t].n >= 1 /\ AttemptOK(att[t]) /\ Tables /\ RegistryTypeOK /\ TaskInv(t)
  BY <1>0, AtFacts DEF HarnessInv, Step
<1>2. Transition(t, "merge_candidate", "verifier", {}) /\ Go(t, "finish_save")
  BY DEF Promote
<1> QED
  <2>1. /\ AttemptOK(att'[t]) /\ att'[t].pc = "finish_save" /\ att'[t].err = att[t].err
        /\ att'[t].why = att[t].why /\ att'[t].paths = att[t].paths
        /\ \A u \in Task \ {t} : att'[u] = att[u]
        /\ DOMAIN att' = Task /\ att' = [u \in Task |-> att'[u]]
    BY <1>1, <1>2, GoFacts DEF Step
  <2>2. /\ reg'[t].status = "merge_candidate" /\ reg[t].evidence \subseteq reg'[t].evidence
        /\ disk' = disk /\ \A u \in Task \ {t} : reg'[u] = reg[u]
    BY <1>1, <1>2, TransitionFacts
  <2>3. TaskInv(t)'
    BY <1>0, <1>1, <2>1, <2>2
       DEF TaskInv, At, ResultOK, InStep, Excepted, Passed, Backed, Durable, Owned, Active,
           Verified, Rest, MayTouch
  <2> QED BY <1>0, <1>1, <2>1, <2>2, <2>3, QuietStep

LEMMA ExceptOK ==
    ASSUME HarnessInv, NEW t \in Task, Except(t)
    PROVE  StepOK(t)
<1>0. At(t, "except") /\ UNCHANGED <<trees, result, Rest>>
  BY DEF Except
<1>1. Active(t) /\ att[t].n >= 1 /\ AttemptOK(att[t]) /\ Tables /\ RegistryTypeOK /\ TaskInv(t)
  BY <1>0, AtFacts DEF HarnessInv, Step
<1>2. Transition(t, "blocked", "coordinator", {}) /\ Go(t, "except_save")
  BY DEF Except
<1> QED
  <2>1. /\ AttemptOK(att'[t]) /\ att'[t].pc = "except_save" /\ att'[t].err = att[t].err
        /\ att'[t].why = att[t].why /\ att'[t].paths = att[t].paths
        /\ \A u \in Task \ {t} : att'[u] = att[u]
        /\ DOMAIN att' = Task /\ att' = [u \in Task |-> att'[u]]
    BY <1>1, <1>2, GoFacts DEF Step
  <2>2. /\ reg'[t].status = "blocked" /\ reg[t].evidence \subseteq reg'[t].evidence
        /\ disk' = disk /\ \A u \in Task \ {t} : reg'[u] = reg[u]
    BY <1>1, <1>2, TransitionFacts
  <2>3. TaskInv(t)'
    BY <1>0, <1>1, <2>1, <2>2
       DEF TaskInv, At, ResultOK, InStep, Excepted, Passed, Backed, Durable, Owned, Active,
           Verified, Rest, MayTouch
  <2> QED BY <1>0, <1>1, <2>1, <2>2, <2>3, QuietStep

LEMMA CleanOK ==
    ASSUME HarnessInv, NEW t \in Task, Clean(t)
    PROVE  StepOK(t)
<1>0. At(t, "clean") /\ UNCHANGED <<regVars, trees, result, Rest>>
  BY DEF Clean
<1>1. Active(t) /\ att[t].n >= 1 /\ AttemptOK(att[t]) /\ Tables /\ RegistryTypeOK /\ TaskInv(t)
  BY <1>0, AtFacts DEF HarnessInv, Step
<1>2. CASE Go(t, "judge")
  <2>1. /\ AttemptOK(att'[t]) /\ att'[t].pc = "judge" /\ att'[t].err = att[t].err
        /\ att'[t].why = att[t].why /\ att'[t].paths = att[t].paths
        /\ \A u \in Task \ {t} : att'[u] = att[u]
        /\ DOMAIN att' = Task /\ att' = [u \in Task |-> att'[u]]
    BY <1>1, <1>2, GoFacts DEF Step
  <2>3. TaskInv(t)'
    BY <1>0, <1>1, <2>1
       DEF TaskInv, At, ResultOK, InStep, Excepted, Passed, Backed, Durable, Owned, Active,
           Verified, Rest, MayTouch, regVars, Fingerprint
  <2> QED BY <1>0, <1>1, <2>1, <2>3, QuietStep DEF regVars
<1>3. CASE Raise(t, "judge", "error")
  <2>1. /\ AttemptOK(att'[t]) /\ att'[t].pc = "judge" /\ att'[t].err # "none"
        /\ \A u \in Task \ {t} : att'[u] = att[u]
        /\ DOMAIN att' = Task /\ att' = [u \in Task |-> att'[u]]
    BY <1>1, <1>3, RaiseFacts DEF Step, Exception
  <2>3. TaskInv(t)'
    BY <1>0, <1>1, <2>1
       DEF TaskInv, At, ResultOK, InStep, Excepted, Passed, Backed, Durable, Owned, Active,
           Verified, Rest, MayTouch, regVars, Fingerprint
  <2> QED BY <1>0, <1>1, <2>1, <2>3, QuietStep DEF regVars
<1> QED BY <1>2, <1>3 DEF Clean, Cleanup

LEMMA GateOK ==
    ASSUME HarnessInv, NEW t \in Task, Gate(t)
    PROVE  StepOK(t)
<1>0. At(t, "gate") /\ UNCHANGED <<trees, Rest>>
  BY DEF Gate
<1>1. Active(t) /\ att[t].n >= 1 /\ AttemptOK(att[t]) /\ Tables /\ RegistryTypeOK /\ TaskInv(t)
  BY <1>0, AtFacts DEF HarnessInv, Step
<1>2. att[t].err = "none" /\ reg[t].status = "verification"
  BY <1>0, <1>1 DEF TaskInv, Excepted, InStep, At
<1>3. CASE /\ att[t].why = {}
           /\ Transition(t, "passed", "verifier", {"review"})
           /\ result' = [result EXCEPT ![t] = {[base |-> att[t].base, paths |-> att[t].paths]}]
           /\ att' = [att EXCEPT ![t].pc = "promote", ![t].base = 0, ![t].paths = {}]
  <2>1. /\ att'[t] = [pc |-> "promote", n |-> att[t].n, base |-> 0, paths |-> {},
                      why |-> att[t].why, err |-> att[t].err, fails |-> att[t].fails,
                      retried |-> att[t].retried]
        /\ \A u \in Task \ {t} : att'[u] = att[u]
        /\ DOMAIN att' = Task /\ att' = [u \in Task |-> att'[u]]
    BY <1>1, <1>3 DEF Tables, AttemptOK
  <2>2. AttemptOK(att'[t])
    BY <1>1, <2>1, HarnessConstants DEF AttemptOK, Step
  <2>3. /\ reg'[t].status = "passed" /\ "review" \in reg'[t].evidence
        /\ disk' = disk /\ \A u \in Task \ {t} : reg'[u] = reg[u]
    BY <1>1, <1>3, TransitionFacts
  <2>4. /\ result'[t] = {[base |-> att[t].base, paths |-> att[t].paths]}
        /\ \A u \in Task \ {t} : result'[u] = result[u]
        /\ DOMAIN result' = Task /\ result' = [u \in Task |-> result'[u]]
    BY <1>1, <1>3 DEF Tables
  <2>5. \A path \in att[t].paths : MayTouch(t, path)
    BY <1>0, <1>1, <1>3 DEF TaskInv, Passed, At, OutOfScope, MayTouch
  <2>6. PICK c \in result'[t] : result'[t] = {c} /\ \A path \in c.paths : MayTouch(t, path)
    BY <2>4, <2>5
  <2>7. \A path : MayTouch(t, path) <=> MayTouch(t, path)'
    BY DEF MayTouch
  <2>8. Backed(t, reg[t])' /\ Backed(t, disk[t])' /\ ResultOK(t)'
    BY <1>1, <2>3, <2>6, <2>7 DEF Backed, ResultOK, TaskInv
  <2>9. TaskInv(t)'
    BY <1>0, <1>1, <1>2, <1>3, <2>1, <2>2, <2>3, <2>8
       DEF TaskInv, InStep, Excepted, Passed, Durable, Owned, Active, Verified, Rest
  <2>10. Tables' /\ Counters'
    BY <1>0, <2>1, <2>4 DEF HarnessInv, Tables, Counters, Rest
  <2>11. \A u \in Task \ {t} : Spared(u)
    BY <1>0, <2>1, <2>3, <2>4 DEF Spared, Rest
  <2> QED BY <1>1, <2>9, <2>10, <2>11 DEF StepOK
<1>4. CASE Raise(t, "except", "integrity") /\ UNCHANGED <<regVars, result>>
  <2>1. /\ AttemptOK(att'[t]) /\ att'[t].pc = "except" /\ att'[t].err # "none"
        /\ \A u \in Task \ {t} : att'[u] = att[u]
        /\ DOMAIN att' = Task /\ att' = [u \in Task |-> att'[u]]
    BY <1>1, <1>4, RaiseFacts DEF Step, Exception
  <2>3. TaskInv(t)'
    BY <1>0, <1>1, <1>2, <1>4, <2>1
       DEF TaskInv, At, ResultOK, InStep, Excepted, Passed, Backed, Durable, Owned, Active,
           Verified, Rest, MayTouch, regVars, Fingerprint
  <2> QED BY <1>0, <1>1, <1>4, <2>1, <2>3, QuietStep DEF regVars
<1>5. CASE /\ att[t].why # {}
           /\ Transition(t, "failed", "verifier", {"review"})
           /\ att' = [att EXCEPT ![t].pc = "finish_save", ![t].base = 0, ![t].paths = {}]
           /\ UNCHANGED result
  <2>1. /\ att'[t] = [pc |-> "finish_save", n |-> att[t].n, base |-> 0, paths |-> {},
                      why |-> att[t].why, err |-> att[t].err, fails |-> att[t].fails,
                      retried |-> att[t].retried]
        /\ \A u \in Task \ {t} : att'[u] = att[u]
        /\ DOMAIN att' = Task /\ att' = [u \in Task |-> att'[u]]
    BY <1>1, <1>5 DEF Tables, AttemptOK
  <2>4. AttemptOK(att'[t])
    BY <1>1, <2>1, HarnessConstants DEF AttemptOK, Step
  <2>2. /\ reg'[t].status = "failed" /\ reg[t].evidence \subseteq reg'[t].evidence
        /\ disk' = disk /\ \A u \in Task \ {t} : reg'[u] = reg[u]
    BY <1>1, <1>5, TransitionFacts
  <2>3. TaskInv(t)'
    BY <1>0, <1>1, <1>2, <1>5, <2>1, <2>2, <2>4
       DEF TaskInv, At, ResultOK, InStep, Excepted, Passed, Backed, Durable, Owned, Active,
           Verified, Rest, MayTouch
  <2> QED BY <1>0, <1>1, <1>5, <2>1, <2>2, <2>3, QuietStep
<1> QED BY <1>3, <1>4, <1>5 DEF Gate

LEMMA JudgeOK ==
    ASSUME HarnessInv, NEW t \in Task, Judge(t)
    PROVE  StepOK(t)
<1> DEFINE print == Fingerprint(att[t])
<1> DEFINE open == CircuitOpens(att[t], print)
<1> DEFINE stop == att[t].err = "integrity" \/ (open /\ ~MayRetry(att[t])) \/ att[t].n = MaxIterations
<1> DEFINE fails == (print :> FailureCount(att[t], print)) @@ att[t].fails
<1> DEFINE retried == att[t].retried \/ open
<1> DEFINE last == Over("done")
<1> DEFINE again == Fresh("prepare", att[t].n + 1, fails, retried)
<1>0. At(t, "judge") /\ UNCHANGED <<regVars, trees, result, Rest>>
  BY DEF Judge
<1>1. Active(t) /\ att[t].n >= 1 /\ AttemptOK(att[t]) /\ Tables /\ RegistryTypeOK /\ TaskInv(t)
  BY <1>0, AtFacts DEF HarnessInv, Step
<1>2. att' = [att EXCEPT ![t] = IF stop THEN last ELSE again]
  BY Zenon DEF Judge
<1>3. ~stop => att[t].n # MaxIterations
  OBVIOUS
<1> HIDE DEF stop, last, fails, retried
<1>4. CASE stop
  <2>1. /\ att'[t] = last
        /\ \A u \in Task \ {t} : att'[u] = att[u]
        /\ DOMAIN att' = Task /\ att' = [u \in Task |-> att'[u]]
    BY <1>1, <1>2, <1>4 DEF Tables
  <2>2. AttemptOK(att'[t]) /\ att'[t].pc = "done"
    BY <2>1, OverAttempt DEF last
  <2>3. TaskInv(t)'
    BY <1>0, <1>1, <2>2
       DEF TaskInv, At, ResultOK, InStep, Excepted, Passed, Backed, Durable, Owned, Active,
           Verified, Rest, MayTouch, regVars
  <2> QED BY <1>0, <1>1, <2>1, <2>3, QuietStep DEF regVars
<1>5. CASE ~stop
  <2> HIDE DEF again
  <2>1. /\ att'[t] = again
        /\ \A u \in Task \ {t} : att'[u] = att[u]
        /\ DOMAIN att' = Task /\ att' = [u \in Task |-> att'[u]]
    BY <1>1, <1>2, <1>5 DEF Tables
  <2>2. "prepare" \in Step /\ att[t].n + 1 \in 0 .. MaxIterations /\ att[t].n + 1 >= 1
    BY <1>1, <1>3, <1>5, HarnessConstants DEF AttemptOK, Step
  <2>3. AttemptOK(att'[t]) /\ att'[t].pc = "prepare" /\ att'[t].err = "none"
    BY <2>1, <2>2, FreshAttempt DEF again
  <2>4. TaskInv(t)'
    BY <1>0, <1>1, <2>3
       DEF TaskInv, At, ResultOK, InStep, Excepted, Passed, Backed, Durable, Owned, Active,
           Verified, Rest, MayTouch, regVars
  <2> QED BY <1>0, <1>1, <2>1, <2>4, QuietStep DEF regVars
<1> QED BY <1>4, <1>5

LEMMA WriteReleaseCandidateOK ==
    ASSUME HarnessInv, NEW t \in Task, WriteReleaseCandidate(t)
    PROVE  StepOK(t)
<1>0. /\ At(t, "judge") /\ bundle' = bundle \cup {t} /\ Fingerprint(att[t]) = {}
      /\ UNCHANGED <<regVars, trees, result, batch, main, tag, wedged, crashes>>
  BY DEF WriteReleaseCandidate, WriteBundle
<1>1. Active(t) /\ att[t].n >= 1 /\ AttemptOK(att[t]) /\ Tables /\ RegistryTypeOK /\ TaskInv(t)
  BY <1>0, AtFacts DEF HarnessInv, Step
<1>2. /\ att'[t] = Over("done")
      /\ \A u \in Task \ {t} : att'[u] = att[u]
      /\ DOMAIN att' = Task /\ att' = [u \in Task |-> att'[u]]
  BY <1>1 DEF Tables, WriteReleaseCandidate
<1>3. AttemptOK(att'[t]) /\ att'[t].pc = "done"
  BY <1>2, OverAttempt
<1>4. reg[t].status \in Verified /\ disk[t].status \in Verified
  BY <1>0, <1>1 DEF TaskInv, Passed, At
<1>5. TaskInv(t)'
  BY <1>0, <1>1, <1>3, <1>4
     DEF TaskInv, At, ResultOK, InStep, Excepted, Passed, Backed, Durable, Owned, Active,
         MayTouch, regVars
<1>6. Tables' /\ Counters'
  BY <1>0, <1>2 DEF HarnessInv, Tables, Counters
<1>7. \A u \in Task \ {t} : Spared(u)
  BY <1>0, <1>2 DEF Spared, regVars
<1> QED BY <1>1, <1>5, <1>6, <1>7 DEF StepOK

LEMMA SaveAtOK ==
    ASSUME HarnessInv, NEW t \in Task, NEW pc, NEW next, SaveAt(t, pc, next),
           <<pc, next>> \in {<<"prepare_save", "start">>, <<"start_save", "lease">>,
                            <<"finish_save", "clean">>, <<"except_save", "clean">>}
    PROVE  StepOK(t)
<1>0. At(t, pc) /\ Go(t, next) /\ disk' = reg /\ reg' = reg /\ UNCHANGED <<trees, result, Rest>>
  BY DEF SaveAt, Save
<1>1. pc \in Step \ {"none", "done", "raised"} /\ next \in Step
  BY DEF Step
<1>2. Active(t) /\ att[t].n >= 1 /\ AttemptOK(att[t]) /\ Tables /\ RegistryTypeOK /\ TaskInv(t)
  BY <1>0, <1>1, AtFacts DEF HarnessInv
<1>3. /\ AttemptOK(att'[t]) /\ att'[t].pc = next /\ att'[t].err = att[t].err
      /\ att'[t].why = att[t].why /\ att'[t].paths = att[t].paths
      /\ \A u \in Task \ {t} : att'[u] = att[u]
      /\ DOMAIN att' = Task /\ att' = [u \in Task |-> att'[u]]
  BY <1>0, <1>1, <1>2, GoFacts
<1>4. InStep(t)' /\ Excepted(t)' /\ Owned(t)'
  BY <1>0, <1>2, <1>3 DEF TaskInv, At, InStep, Excepted, Owned, Active, Rest
<1>5. Passed(t)'
  BY <1>0, <1>2, <1>3 DEF TaskInv, At, Excepted, Passed, Fingerprint, Verified
<1>6. TaskInv(t)'
  BY <1>0, <1>2, <1>3, <1>4, <1>5 DEF TaskInv, ResultOK, Backed, Durable, Rest, MayTouch
<1> QED BY <1>0, <1>2, <1>3, <1>6, QuietStep

\* Whatever a thread does next, the invariant survives it.
LEMMA AttemptKeepsInv ==
    ASSUME HarnessInv, RegistryTypeOK', NEW t \in Task, Attempt(t)
    PROVE  HarnessInv'
<1>1. StepOK(t)
  BY PrepareOK, StartOK, LeaseOK, WorkOK, VerifyOK, GateOK, PromoteOK, ExceptOK, CleanOK,
     JudgeOK, WriteReleaseCandidateOK, SaveAtOK DEF Attempt
<1> QED BY <1>1, StepKeepsInv

-----------------------------------------------------------------------------
(* The steps nobody takes as a thread.                                     *)

\* With no thread at work there is nothing to keep apart.
LEMMA NobodyApart ==
    ASSUME \A u \in Task : ~Active(u)'
    PROVE  Apart'
<1>1. {u \in Task : Active(u)'} = {}
  OBVIOUS
<1>2. Cardinality({u \in Task : Active(u)'}) = 0
  BY <1>1, FS_EmptySet
<1> QED BY <1>2, HarnessConstants DEF Apart

\* What the operator may do to a record: a verified one stays verified with its
\* evidence, and none becomes verified or running by it.
Kept(u) ==
    /\ reg'[u].status \in Verified <=> reg[u].status \in Verified
    /\ reg'[u].status \in {"running", "verification"} => reg'[u].status = reg[u].status
    /\ reg[u].status \in Verified => reg[u].evidence \subseteq reg'[u].evidence

LEMMA OperatorKeeps ==
    ASSUME HarnessInv, NEW t \in Task, Operate(t), NEW u \in Task
    PROVE  Kept(u) /\ disk' = disk
<1>1. RegistryTypeOK /\ \A d \in Task : reg[d].status \in Status \cup {"absent"}
  BY DEF HarnessInv, RegistryTypeOK, Record
<1>2. CASE Add(t)
  <2>1. CASE reg' = [reg EXCEPT ![t] =
                [status |-> "proposed", approved |-> FALSE, evidence |-> {"problem"}]]
    BY <1>1, <1>2, <2>1 DEF Add, Kept, Known, Verified, RegistryTypeOK
  <2>2. ASSUME NEW d \in SameProblem(t),
               reg' = [reg EXCEPT ![d].evidence = @ \cup {"recurrence"}]
        PROVE  Kept(u) /\ disk' = disk
    BY <1>1, <1>2, <2>2 DEF Add, Kept, SameProblem, Known, RegistryTypeOK, Record
  <2> QED BY <1>2, <2>1, <2>2 DEF Add
<1>3. CASE RecordHumanApproval(t)
  BY <1>1, <1>3 DEF RecordHumanApproval, Kept, RegistryTypeOK, Record
<1>4. ASSUME NEW target \in {"triaged", "ready", "blocked", "released", "measured"},
             Transition(t, target, "human", {})
      PROVE  Kept(u) /\ disk' = disk
  <2>1. /\ target \in Allowed[reg[t].status] /\ reg'[t].status = target
        /\ reg'[t].evidence = reg[t].evidence \cup {}
        /\ \A d \in Task \ {t} : reg'[d] = reg[d]
        /\ disk' = disk
    BY <1>1, <1>4, TransitionFacts
  <2>2. target \in {"released", "measured"} => reg[t].status \in Verified
    BY <1>1, <2>1, Edges DEF Verified
  <2>3. target \in {"triaged", "ready", "blocked"} => reg[t].status \notin Verified
    BY <1>1, <2>1, Edges
  <2> QED BY <2>1, <2>2, <2>3 DEF Kept, Verified
<1>5. CASE RecordVerifiedMerge(t, "human")
  <2>1. reg[t].status = "merge_candidate"
    BY <1>1, <1>5, Edges DEF RecordVerifiedMerge, CanMove
  <2>2. /\ reg'[t].status = "merged" /\ reg[t].evidence \subseteq reg'[t].evidence
        /\ \A d \in Task \ {t} : reg'[d] = reg[d]
        /\ disk' = disk
    BY <1>1, <1>5 DEF RecordVerifiedMerge, Move, RegistryTypeOK, Record
  <2> QED BY <2>1, <2>2 DEF Kept, Verified
<1> QED BY <1>2, <1>3, <1>4, <1>5 DEF Operate

LEMMA OperateKeepsInv ==
    ASSUME HarnessInv, RegistryTypeOK', NEW t \in Task, Operate(t)
    PROVE  HarnessInv'
<1>1. /\ Idle /\ UNCHANGED <<att, batch, trees, tag, result, bundle, wedged, crashes>>
      /\ main' = IF reg'[t].status = "merged" /\ main < MaxMain THEN main + 1 ELSE main
  BY DEF Operate
<1>2. Tables' /\ Counters'
  BY <1>1, HarnessConstants DEF HarnessInv, Tables, Counters
<1>3. ASSUME NEW u \in Task PROVE TaskInv(u)'
  <2>1. Kept(u) /\ disk' = disk
    BY OperatorKeeps
  <2>2. TaskInv(u) /\ att[u].pc \in {"none", "done", "raised"}
    BY <1>1 DEF HarnessInv, Idle
  <2> QED BY <1>1, <2>1, <2>2
          DEF TaskInv, Kept, AttemptOK, ResultOK, InStep, Excepted, Passed, Backed, Durable, Owned,
              Active, MayTouch
<1>4. Apart'
  BY <1>1, NobodyApart DEF Idle, Active
<1> QED BY <1>2, <1>3, <1>4 DEF HarnessInv

\* A new batch: every thread starts afresh and the plan keeps them apart.
LEMMA RunReadyKeepsInv ==
    ASSUME HarnessInv, RegistryTypeOK', RunReady
    PROVE  HarnessInv'
<1>1. /\ Idle /\ batch < MaxBatches /\ batch' = batch + 1
      /\ UNCHANGED <<regVars, trees, main, tag, result, bundle, wedged, crashes>>
  BY DEF RunReady
<1>2. PICK offered \in SUBSET Ready : \E P \in SUBSET offered :
          /\ IsPlan(P, offered)
          /\ att' = [t \in Task |-> IF t \in P THEN FirstAttempt ELSE NoAttempt]
  BY DEF RunReady
<1>3. PICK taken \in SUBSET offered :
          /\ IsPlan(taken, offered)
          /\ att' = [t \in Task |-> IF t \in taken THEN FirstAttempt ELSE NoAttempt]
  BY <1>2
<1>4. AttemptOK(FirstAttempt) /\ FirstAttempt.pc = "prepare" /\ FirstAttempt.err = "none"
  <2> DEFINE None == <<>>
  <2> DEFINE No == FALSE
  <2>1. FirstAttempt = Fresh("prepare", 1, None, No)
    BY Zenon DEF FirstAttempt
  <2>2. "prepare" \in Step /\ 1 \in 0 .. MaxIterations
    BY HarnessConstants DEF Step
  <2> HIDE DEF None, No
  <2>3. LET a == Fresh("prepare", 1, None, No)
        IN  AttemptOK(a) /\ a.pc = "prepare" /\ a.err = "none"
    BY <2>2, FreshAttempt
  <2> QED BY <2>1, <2>3
<1>5. AttemptOK(NoAttempt) /\ NoAttempt.pc = "none"
  BY OverAttempt DEF NoAttempt
<1>6. ASSUME NEW u \in Task
      PROVE  /\ u \in taken => att'[u] = FirstAttempt /\ reg[u].status = "ready"
             /\ u \notin taken => att'[u] = NoAttempt
             /\ TaskInv(u) /\ att[u].pc \in {"none", "done", "raised"}
  BY <1>1, <1>3 DEF Ready, HarnessInv, Idle
<1>7. ASSUME NEW u \in Task PROVE TaskInv(u)'
  <2>1. AttemptOK(att'[u]) /\ att'[u].pc \in {"none", "prepare"}
    BY <1>4, <1>5, <1>6
  <2>2. att'[u].pc = "prepare" => att'[u].err = "none" /\ reg[u].status = "ready"
    BY <1>4, <1>5, <1>6
  <2> QED BY <1>1, <1>6, <2>1, <2>2
          DEF TaskInv, ResultOK, InStep, Excepted, Passed, Backed, Durable, Owned, Active,
              MayTouch, regVars
<1>8. Tables' /\ Counters'
  BY <1>1, <1>3, HarnessConstants DEF HarnessInv, Tables, Counters
<1>9. Apart'
  <2>1. {u \in Task : Active(u)'} = taken
    <3>1. \A u \in Task : Active(u)' <=> u \in taken
      BY <1>4, <1>5, <1>6 DEF Active
    <3> QED BY <1>3, <3>1 DEF Ready, Known
  <2>2. offered \in SUBSET Task
    BY DEF Ready, Known
  <2>3. /\ \A t, u \in taken : t # u => ~TasksConflict(t, u)
        /\ Cardinality(taken) <= Capacity
    BY <1>3, <2>2, PlanIsApart
  <2> QED BY <2>1, <2>3 DEF Apart, TasksConflict, RulesMayOverlap
<1> QED BY <1>7, <1>8, <1>9 DEF HarnessInv

\* The process dies: no thread is left, and memory is what the file says.
LEMMA CrashKeepsInv ==
    ASSUME HarnessInv, RegistryTypeOK', Crash
    PROVE  HarnessInv'
<1>1. /\ crashes < MaxCrashes /\ crashes' = crashes + 1 /\ reg' = disk /\ disk' = disk
      /\ att' = [t \in Task |-> NoAttempt]
      /\ UNCHANGED <<batch, trees, main, tag, result, bundle, wedged>>
  BY DEF Crash, Load
<1>2. AttemptOK(NoAttempt) /\ NoAttempt.pc = "none"
  BY OverAttempt DEF NoAttempt
<1>3. Tables' /\ Counters'
  BY <1>1, HarnessConstants DEF HarnessInv, Tables, Counters
<1>4. ASSUME NEW u \in Task PROVE TaskInv(u)'
  <2>1. AttemptOK(att'[u]) /\ att'[u].pc = "none"
    BY <1>1, <1>2
  <2>2. TaskInv(u)
    BY DEF HarnessInv
  <2>3. crashes' # 0
    BY <1>1 DEF HarnessInv, Counters
  <2> QED BY <1>1, <2>1, <2>2, <2>3
          DEF TaskInv, ResultOK, InStep, Excepted, Passed, Backed, Durable, Owned, Active, MayTouch
<1>5. Apart'
  BY <1>1, <1>2, NobodyApart DEF Active
<1> QED BY <1>3, <1>4, <1>5 DEF HarnessInv

LEMMA OthersKeepInv ==
    ASSUME HarnessInv, RegistryTypeOK',
           OperatorSave \/ MainMoves \/ TagMoves \/ UNCHANGED harnessVars
    PROVE  HarnessInv'
<1>1. /\ UNCHANGED <<reg, att, batch, trees, result, bundle, wedged, crashes>>
      /\ disk' = disk \/ disk' = reg
      /\ tag' \in BOOLEAN /\ main' \in 0 .. MaxMain
  <2>1. tag \in BOOLEAN /\ main \in 0 .. MaxMain
    BY DEF HarnessInv, Counters
  <2>2. CASE OperatorSave
    BY <2>1, <2>2 DEF OperatorSave, Save
  <2>3. CASE MainMoves
    BY <2>1, <2>3, HarnessConstants DEF MainMoves, regVars
  <2>4. CASE TagMoves
    BY <2>1, <2>4 DEF TagMoves, regVars
  <2>5. CASE UNCHANGED harnessVars
    BY <2>1, <2>5 DEF harnessVars, regVars
  <2> QED BY <2>2, <2>3, <2>4, <2>5
<1>2. Tables' /\ Counters'
  BY <1>1 DEF HarnessInv, Tables, Counters
<1>3. ASSUME NEW u \in Task PROVE TaskInv(u)'
  BY <1>1, SparedKeepsTask DEF HarnessInv, Spared
<1>4. Apart'
  BY <1>1 DEF HarnessInv, Apart, Active, TasksConflict, RulesMayOverlap
<1> QED BY <1>2, <1>3, <1>4 DEF HarnessInv

LEMMA HarnessInvInit ==
    ASSUME HarnessInit
    PROVE  RegistryTypeOK => HarnessInv
<1>1. AttemptOK(NoAttempt) /\ NoAttempt.pc = "none"
  BY OverAttempt DEF NoAttempt
<1>2. Tables /\ Counters
  BY HarnessConstants DEF HarnessInit, Tables, Counters
<1>3. ASSUME NEW u \in Task PROVE TaskInv(u)
  BY <1>1
     DEF HarnessInit, RegistryInit, Absent, TaskInv, ResultOK, InStep, Excepted, Passed, Backed,
         Durable, Owned, Verified
<1>4. Apart
  <2>1. {u \in Task : Active(u)} = {}
    BY <1>1 DEF HarnessInit, Active
  <2>2. Cardinality({u \in Task : Active(u)}) = 0
    BY <2>1, FS_EmptySet
  <2>3. \A u \in Task : ~Active(u)
    BY <2>1
  <2> QED BY <2>2, <2>3, HarnessConstants DEF Apart
<1> QED BY <1>2, <1>3, <1>4 DEF HarnessInv

THEOREM HarnessInvariant == HarnessSpec => []HarnessInv
<1>1. HarnessSpec => []RegistryTypeOK
  BY HarnessImplementsRegistry, RegistryTypes, PTL
<1>2. HarnessInit /\ RegistryTypeOK => HarnessInv
  BY HarnessInvInit
<1>3. HarnessInv /\ RegistryTypeOK' /\ [HarnessNext]_harnessVars => HarnessInv'
  BY AttemptKeepsInv, OperateKeepsInv, RunReadyKeepsInv, CrashKeepsInv, OthersKeepInv
     DEF HarnessNext
<1> QED BY <1>1, <1>2, <1>3, PTL DEF HarnessSpec

-----------------------------------------------------------------------------
(* What follows from it.                                                   *)

\* Every variable of the harness keeps its type: counters their bounds, attempts
\* and reasons the values the code gives them.
THEOREM HarnessTypes == HarnessSpec => []HarnessTypeOK
<1>1. HarnessInv => HarnessTypeOK
  <2> SUFFICES ASSUME HarnessInv PROVE HarnessTypeOK
    OBVIOUS
  <2>1. ASSUME NEW t \in Task
        PROVE  /\ att[t].n \in 0 .. MaxIterations /\ att[t].base \in 0 .. MaxMain
               /\ att[t].why \subseteq Reason /\ att[t].err \in Exception \cup {"none"}
    BY DEF HarnessInv, TaskInv, AttemptOK
  <2>2. ASSUME NEW t \in Task PROVE Cardinality(result[t]) <= 1
    <3>1. result[t] = {} \/ \E c \in result[t] : result[t] = {c}
      BY DEF HarnessInv, TaskInv, ResultOK
    <3> QED BY <3>1, FS_EmptySet, FS_Singleton
  <2> QED BY <2>1, <2>2 DEF HarnessInv, HarnessTypeOK, Counters
<1> QED BY <1>1, HarnessInvariant, PTL

\* For any rules: rules of two tasks that have threads never take one path, unless
\* a glob takes it from outside the prefix by which it is judged, and there are
\* never more threads than workers, whatever fails, is retried or restarted.
THEOREM WorkersAreApart == HarnessSpec => []WorkersStayApart
<1>1. HarnessInv => WorkersStayApart
  <2> SUFFICES ASSUME HarnessInv PROVE WorkersStayApart
    OBVIOUS
  <2>1. ASSUME NEW t \in Task, NEW u \in Task, Active(t), Active(u), t # u,
               NEW path \in UNION Changes,
               NEW left \in AllowedPaths[t], NEW right \in AllowedPaths[u],
               PathMatches(path, left), PathMatches(path, right)
        PROVE  Astray(path, left) \/ Astray(path, right)
    <3>1. path \in Seq(STRING)
      BY HarnessConstants
    <3>2. ~TasksConflict(t, u)
      BY <2>1 DEF HarnessInv, Apart
    <3> QED BY <2>1, <3>1, <3>2, NoCommonPath
  <2>2. Cardinality({t \in Task : Active(t)}) <= Capacity
    BY DEF HarnessInv, Apart
  <2> QED BY <2>1, <2>2 DEF WorkersStayApart
<1> QED BY <1>1, HarnessInvariant, PTL

\* No task counts as verified but by a candidate inside its scope and a review.
THEOREM CandidatesAreVerified == HarnessSpec => []CandidateIsVerified
<1>1. HarnessInv => CandidateIsVerified
  BY DEF HarnessInv, TaskInv, Backed, CandidateIsVerified
<1> QED BY <1>1, HarnessInvariant, PTL

\* The file names a bundle's task verified, at every moment a crash may choose.
THEOREM BundlesAreDurable == HarnessSpec => []BundleIsDurable
<1>1. HarnessInv => BundleIsDurable
  BY DEF HarnessInv, TaskInv, Durable, BundleIsDurable, Counters
<1> QED BY <1>1, HarnessInvariant, PTL

\* As long as the process lives a running task has its thread, or was refused its
\* worktree.
THEOREM RunningTasksAreOwned == HarnessSpec => []RunningIsOwned
<1>1. HarnessInv => RunningIsOwned
  BY DEF HarnessInv, TaskInv, Owned, RunningIsOwned
<1> QED BY <1>1, HarnessInvariant, PTL

=============================================================================
