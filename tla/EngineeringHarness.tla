------------------------- MODULE EngineeringHarness -------------------------
(* The offline engineering harness: EngineeringSupervisor.run_ready         *)
(* schedules ready tasks, one thread per task retries run_task until the    *)
(* merge gate passes or the circuit breaker stops it, and every thread      *)
(* shares one registry, one repository and one worktree root.  The process  *)
(* may die between any two steps and start again from the saved registry.   *)
EXTENDS TaskRegistry, Sequences, SequencesExt

CONSTANTS
    Rank,           \* order of the tasks: priority, then task_id
    Dependencies,   \* dependencies of a task
    AllowedPaths,   \* allowed_paths of a task: sets of rules, a rule a sequence of parts
    ProtectedPaths, \* of a task: DEFAULT_PROTECTED_PATHS and its own protected_paths
    Wild,           \* the parts of rules that hold a wildcard: *, ? or [
    Fits,           \* the names that each of them fits (fnmatch)
    MayFail,        \* checks of the merge gate that may fail besides the scope
    Changes,        \* what a worker may change: sets of paths, a path a sequence of parts
    Capacity,       \* maximum_parallel_workers
    MaxIterations,  \* maximum_iterations
    Threshold,      \* repeated_failure_threshold
    MaxBatches,     \* bound: calls of run_ready
    MaxMain,        \* bound: commits on the main branch
    MaxCrashes      \* bound: deaths of the process

\* The last part of a recursive rule.
Star == "**"

\* A path and a rule are sequences of parts, and no two tasks have one rank:
\* tasks of one priority are ordered by their identifiers, which are unique.
ASSUME HarnessConstants ==
    /\ IsFiniteSet(Task)
    /\ Rank \in [Task -> Nat]
    /\ \A t, u \in Task : Rank[t] = Rank[u] => t = u
    /\ AllowedPaths \in [Task -> SUBSET Seq(STRING)]
    /\ ProtectedPaths \in [Task -> SUBSET Seq(STRING)]
    /\ Wild \subseteq STRING /\ Star \in Wild
    /\ Fits \in [Wild -> SUBSET STRING]
    /\ Changes \subseteq SUBSET Seq(STRING)
    /\ Capacity \in Nat \ {0} /\ MaxIterations \in Nat \ {0} /\ Threshold \in Nat \ {0}
    /\ MaxBatches \in Nat /\ MaxMain \in Nat /\ MaxCrashes \in Nat

VARIABLES
    att,      \* one attempt per scheduled task: the thread's local state
    batch,    \* calls of run_ready so far, 0 before the first
    trees,    \* worktrees and agent/... branches that were ever made
    main,     \* commits on main
    tag,      \* the freeze tag still names the frozen commit
    result,   \* evidence of the last merge gate that passed
    wedged,   \* history: tasks whose worktree could not be made
    bundle,   \* tasks with a release-candidate bundle on disk
    crashes

harnessVars == <<regVars, att, batch, trees, main, tag, result, bundle, wedged, crashes>>

\* _literal_prefix: the parts of a rule before the first that holds a wildcard.
LiteralPrefix(rule) ==
    SelectInSeq(rule, LAMBDA part : part \in Wild)

Prefix(rule) ==
    IF LiteralPrefix(rule) = 0 THEN rule ELSE SubSeq(rule, 1, LiteralPrefix(rule) - 1)

\* path_matches reads a rule in one of three ways: recursive when it ends with /**,
\* else as a glob when a part holds a wildcard, else literally.
Recursive(rule) == Len(rule) > 1 /\ rule[Len(rule)] = Star
Glob(rule) == ~Recursive(rule) /\ LiteralPrefix(rule) # 0

\* PurePosixPath.match: a glob is relative, so that it is compared with the last
\* parts of the path, wherever the path begins.
FitsPart(name, part) == IF part \in Wild THEN name \in Fits[part] ELSE name = part
MatchesEnd(path, rule) ==
    /\ Len(rule) <= Len(path)
    /\ \A i \in 1 .. Len(rule) : FitsPart(path[Len(path) - Len(rule) + i], rule[i])

PathMatches(path, rule) ==
    \/ Recursive(rule) /\ IsPrefix(Front(rule), path)
    \/ Glob(rule) /\ MatchesEnd(path, rule)
    \/ ~Recursive(rule) /\ ~Glob(rule) /\ rule # <<>> /\ IsPrefix(rule, path)

\* mutant: only equal prefixes overlap
EqualPrefixes(left, right) == Prefix(left) = Prefix(right)

RulesMayOverlap(left, right) ==
    \/ Prefix(left) = <<>> \/ Prefix(right) = <<>>
    \/ IsPrefix(Prefix(left), Prefix(right)) \/ IsPrefix(Prefix(right), Prefix(left))

TasksConflict(t, u) ==
    \/ t = u
    \/ AllowedPaths[t] = {} \/ AllowedPaths[u] = {}
    \/ \E left \in AllowedPaths[t], right \in AllowedPaths[u] : RulesMayOverlap(left, right)

DependenciesVerified(t) ==
    \A d \in Dependencies[t] : d \in Known /\ reg[d].status \in Verified

Ready == {t \in Known : reg[t].status = "ready"}

\* plan: in order of priority, each ready task that has its dependencies, a free
\* worker and no conflict with a task taken before it.
Before(taken, t) == {u \in taken : Rank[u] < Rank[t]}

IsPlan(taken, tasks) ==
    \A t \in tasks :
        t \in taken <=>
            /\ DependenciesVerified(t)
            /\ Cardinality(Before(taken, t)) < Capacity
            /\ \A u \in Before(taken, t) : ~TasksConflict(t, u)

\* mutant: only the protected paths are looked at
OutOfProtection(t, paths) ==
    \E path \in paths : \E rule \in ProtectedPaths[t] : PathMatches(path, rule)

\* CandidateIntegrityGate.inspect: protected rules and the task's own scope.
OutOfScope(t, paths) ==
    \E path \in paths :
        \/ \E rule \in ProtectedPaths[t] : PathMatches(path, rule)
        \/ \A rule \in AllowedPaths[t] : ~PathMatches(path, rule)

\* SupervisorCommandRunner.run: worker tests, task, protected and hidden
\* commands, each passed or not.  ReviewResult: any verdict but PASS fails.
CommandFailures == SUBSET ({"TESTS_FAILED"} \cap MayFail)
ReviewFailures == SUBSET ({"REVIEW_FAILED"} \cap MayFail)

\* The candidate adds a line that weakens a test, or does not descend from the
\* baseline.
Weakenings == SUBSET ({"INTEGRITY_FAILURE"} \cap MayFail)
Conflicts == SUBSET ({"MERGE_CONFLICT"} \cap MayFail)

Reason == {"TESTS_FAILED", "INTEGRITY_FAILURE", "REVIEW_FAILED", "MERGE_CONFLICT",
           "LATEST_MAIN_REVALIDATION_MISSING"}

\* evaluate_merge_gate: every check that did not pass is a reason.  A candidate
\* that does not descend from the baseline does not from the latest main either.
Reasons(t, paths, base, failed) ==
    failed \cup (IF OutOfScope(t, paths) THEN {"INTEGRITY_FAILURE"} ELSE {})
           \cup (IF main = base /\ "MERGE_CONFLICT" \notin failed THEN {}
                  ELSE {"LATEST_MAIN_REVALIDATION_MISSING"})

\* What an exception of a run is: _exception_state tells integrity from the rest.
Exception == {"integrity", "error"}

\* A failure's fingerprint: the exception, or the reasons of the gate.
Fingerprint(a) == IF a.err # "none" THEN {a.err} ELSE a.why

Fresh(pc, n, fails, retried) ==
    [pc |-> pc, n |-> n, base |-> 0, paths |-> {}, why |-> {}, err |-> "none",
     fails |-> fails, retried |-> retried]

\* A fresh FailureCircuitBreaker for every task of a batch.
FirstAttempt == Fresh("prepare", 1, <<>>, FALSE)

\* A thread that has not begun or has ended holds nothing.
Over(pc) == Fresh(pc, 0, <<>>, FALSE)
NoAttempt == Over("none")

At(t, pc) == att[t].pc = pc
Go(t, pc) == att' = [att EXCEPT ![t].pc = pc]

\* Of an attempt that failed only the reasons matter.
Raise(t, pc, kind) ==
    att' = [att EXCEPT ![t].pc = pc, ![t].err = kind, ![t].base = 0, ![t].paths = {}]

\* WorktreeManager: the branch of an attempt; it is kept as evidence, so that a
\* name is never free again.
Tree(t) == <<t, att[t].n>>
BranchExists(t) == Tree(t) \in trees
Create(t) == ~BranchExists(t) /\ trees' = trees \cup {Tree(t)}

\* cleanup: it raises when the worker switched the branch of its worktree.
Cleanup(t) == Go(t, "judge") \/ Raise(t, "judge", "error")

\* FrozenBuildIntegrityGuard.verify
Frozen == tag

\* FailureCircuitBreaker.record_failure and authorize_retry
FailureCount(a, print) == IF print \in DOMAIN a.fails THEN a.fails[print] + 1 ELSE 1
CircuitOpens(a, print) == FailureCount(a, print) >= Threshold
MayRetry(a) == ~a.retried

Rest == <<batch, main, tag, bundle, wedged, crashes>>

-----------------------------------------------------------------------------
HarnessInit ==
    /\ RegistryInit
    /\ att = [t \in Task |-> NoAttempt]
    /\ batch = 0 /\ trees = {} /\ main = 0 /\ tag = TRUE
    /\ result = [t \in Task |-> {}]
    /\ bundle = {} /\ wedged = {} /\ crashes = 0

Idle == \A t \in Task : att[t].pc \in {"none", "done", "raised"}

\* The caller offers the ready tasks it has a runner for.  It may hand out the
\* same worker ids to a second batch: the branches of the first are kept as
\* evidence and refuse it.
RunReady ==
    /\ Idle /\ disk = reg /\ batch < MaxBatches
    /\ batch' = batch + 1
    /\ \E offered \in SUBSET Ready : \E taken \in SUBSET offered :
          /\ IsPlan(taken, offered)
          /\ att' = [t \in Task |-> IF t \in taken THEN FirstAttempt ELSE NoAttempt]
    /\ UNCHANGED <<regVars, trees, main, tag, result, bundle, wedged, crashes>>

\* _prepare_attempt
Prepare(t) ==
    /\ At(t, "prepare")
    /\ \/ /\ reg[t].status \in {"failed", "blocked"}
          /\ Transition(t, "ready", "coordinator", {})
          /\ Go(t, "prepare_save")
       \/ /\ reg[t].status = "ready"
          /\ Go(t, "start")
          /\ UNCHANGED regVars
       \/ /\ reg[t].status \notin {"failed", "blocked", "ready"}
          /\ att' = [att EXCEPT ![t] = Over("raised")]
          /\ UNCHANGED regVars
    /\ UNCHANGED <<trees, result, Rest>>

\* mutant: the last save is left out
SaveAtStart(t, pc, next) ==
    /\ At(t, pc)
    /\ IF pc = "finish_save" THEN UNCHANGED regVars ELSE Save
    /\ Go(t, next)
    /\ UNCHANGED <<trees, result, Rest>>

\* Every save() of a thread writes the whole registry, other threads' tasks included.
SaveAt(t, pc, next) ==
    /\ At(t, pc)
    /\ Save
    /\ Go(t, next)
    /\ UNCHANGED <<trees, result, Rest>>

\* run_task up to the RUNNING transition: the baseline is the main of this moment.
Start(t) ==
    /\ At(t, "start")
    /\ \/ /\ Frozen
          /\ Transition(t, "running", "coordinator", {})
          /\ att' = [att EXCEPT ![t].pc = "start_save", ![t].base = main]
       \/ ~Frozen /\ Raise(t, "judge", "integrity") /\ UNCHANGED regVars
    /\ UNCHANGED <<trees, result, Rest>>

\* WorktreeManager.create, outside the try: a failure leaves the task RUNNING.
Lease(t) ==
    /\ At(t, "lease")
    /\ \/ /\ Create(t)
          /\ Go(t, "work")
          /\ UNCHANGED wedged
       \/ /\ BranchExists(t)
          /\ Raise(t, "judge", "error")
          /\ wedged' = wedged \cup {t}
          /\ UNCHANGED trees
    /\ UNCHANGED <<regVars, result, batch, main, tag, bundle, crashes>>

\* The worker commits a candidate, or the attempt raises: the worker did, or its
\* tree is dirty or not at the commit it names.
Work(t) ==
    /\ At(t, "work")
    /\ \/ /\ Frozen
          /\ Transition(t, "verification", "worker", {"worker"})
          /\ \E paths \in Changes :
                att' = [att EXCEPT ![t].pc = "verify", ![t].paths = paths]
       \/ ~Frozen /\ Raise(t, "except", "integrity") /\ UNCHANGED regVars
       \/ Raise(t, "except", "error") /\ UNCHANGED regVars
    /\ UNCHANGED <<trees, result, Rest>>

\* The integrity gate, the task's, protected and hidden commands, the review in
\* a worktree of its own, the freeze guard, and the comparison of main with the
\* baseline.  A command that times out raises an error, a reviewer that changes
\* its worktree an integrity failure.
Verify(t) ==
    /\ At(t, "verify")
    /\ \/ /\ Frozen
          /\ \E weakened \in Weakenings, failed \in CommandFailures,
                refused \in ReviewFailures, conflict \in Conflicts :
                att' = [att EXCEPT ![t].pc = "gate",
                    ![t].why = Reasons(t, att[t].paths, att[t].base,
                                       weakened \cup failed \cup refused \cup conflict)]
       \/ \E kind \in Exception : Raise(t, "except", kind)
    /\ UNCHANGED <<regVars, trees, result, Rest>>

Gate(t) ==
    /\ At(t, "gate")
    /\ \/ /\ att[t].why = {} /\ Frozen
          /\ Transition(t, "passed", "verifier", {"review"})
          /\ result' = [result EXCEPT ![t] = {[base |-> att[t].base, paths |-> att[t].paths]}]
          /\ att' = [att EXCEPT ![t].pc = "promote", ![t].base = 0, ![t].paths = {}]
       \/ /\ att[t].why = {} /\ ~Frozen
          /\ Raise(t, "except", "integrity")
          /\ UNCHANGED <<regVars, result>>
       \/ /\ att[t].why # {}
          /\ Transition(t, "failed", "verifier", {"review"})
          /\ att' = [att EXCEPT ![t].pc = "finish_save", ![t].base = 0, ![t].paths = {}]
          /\ UNCHANGED result
    /\ UNCHANGED <<trees, Rest>>

Promote(t) ==
    /\ At(t, "promote")
    /\ Transition(t, "merge_candidate", "verifier", {})
    /\ Go(t, "finish_save")
    /\ UNCHANGED <<trees, result, Rest>>

\* mutant: only a running task is blocked
ExceptRunning(t) ==
    /\ At(t, "except")
    /\ \/ /\ reg[t].status = "running"
          /\ Transition(t, "blocked", "coordinator", {})
          /\ Go(t, "except_save")
       \/ /\ reg[t].status # "running"
          /\ Go(t, "clean")
          /\ UNCHANGED regVars
    /\ UNCHANGED <<trees, result, Rest>>

\* except Exception: BLOCKED from RUNNING or VERIFICATION.
Except(t) ==
    /\ At(t, "except")
    /\ reg[t].status \in {"running", "verification"}
    /\ Transition(t, "blocked", "coordinator", {})
    /\ Go(t, "except_save")
    /\ UNCHANGED <<trees, result, Rest>>

\* finally: clean worktrees go, every branch stays; a worker that switched the
\* branch of its worktree makes cleanup raise, which hides an earlier exception.
Clean(t) ==
    /\ At(t, "clean")
    /\ Cleanup(t)
    /\ UNCHANGED <<regVars, trees, result, Rest>>

\* The supervisor's verdict on an attempt that did not pass: count its
\* fingerprint, stop on an integrity exception, and stop when the circuit is
\* open and its one retry spent.
Judge(t) ==
    LET a     == att[t]
        print == Fingerprint(a)
        open  == CircuitOpens(a, print)
        stop  == a.err = "integrity" \/ (open /\ ~MayRetry(a)) \/ a.n = MaxIterations
    IN  /\ At(t, "judge") /\ print # {}
        /\ att' = [att EXCEPT ![t] =
              IF stop THEN Over("done")
              ELSE Fresh("prepare", a.n + 1,
                         (print :> FailureCount(a, print)) @@ a.fails, a.retried \/ open)]
        /\ UNCHANGED <<regVars, trees, result, Rest>>

\* ReleaseCandidateBundle.write: one file per task.
WriteBundle(t) == bundle' = bundle \cup {t}

\* VERIFIED_PASS: the release-candidate bundle is written, then the loop ends.
WriteReleaseCandidate(t) ==
    /\ At(t, "judge") /\ Fingerprint(att[t]) = {}
    /\ WriteBundle(t)
    /\ att' = [att EXCEPT ![t] = Over("done")]
    /\ UNCHANGED <<regVars, trees, result, batch, main, tag, wedged, crashes>>

Attempt(t) ==
    \/ Prepare(t) \/ Start(t) \/ Lease(t) \/ Work(t) \/ Verify(t)
    \/ Gate(t) \/ Promote(t) \/ Except(t) \/ Clean(t) \/ Judge(t)
    \/ WriteReleaseCandidate(t)
    \/ SaveAt(t, "prepare_save", "start") \/ SaveAt(t, "start_save", "lease")
    \/ SaveAt(t, "finish_save", "clean") \/ SaveAt(t, "except_save", "clean")

-----------------------------------------------------------------------------
\* The operator, in the same process between two batches: proposals, triage,
\* approval, merge, release and measurement, each saved.
Operate(t) ==
    /\ Idle /\ disk = reg
    /\ \/ Add(t)
       \/ RecordHumanApproval(t) /\ ~reg[t].approved
       \/ \E target \in {"triaged", "ready", "blocked", "released", "measured"} :
             Transition(t, target, "human", {})
       \/ RecordVerifiedMerge(t, "human")
    /\ main' = IF reg'[t].status = "merged" /\ main < MaxMain THEN main + 1 ELSE main
    /\ UNCHANGED <<att, batch, trees, tag, result, bundle, wedged, crashes>>

OperatorSave ==
    /\ Idle /\ disk # reg
    /\ Save
    /\ UNCHANGED <<att, batch, trees, main, tag, result, bundle, wedged, crashes>>

\* Anyone else commits to main, or moves the freeze tag.
MainMoves ==
    /\ main < MaxMain
    /\ main' = main + 1
    /\ UNCHANGED <<regVars, att, batch, trees, tag, result, bundle, wedged, crashes>>

TagMoves ==
    /\ tag
    /\ tag' = FALSE
    /\ UNCHANGED <<regVars, att, batch, trees, main, result, bundle, wedged, crashes>>

\* The process dies and starts again: memory and threads are gone.
Crash ==
    /\ crashes < MaxCrashes
    /\ crashes' = crashes + 1
    /\ Load
    /\ att' = [t \in Task |-> NoAttempt]
    /\ UNCHANGED <<batch, trees, main, tag, result, bundle, wedged>>

HarnessNext ==
    \/ RunReady
    \/ \E t \in Task : Attempt(t) \/ Operate(t)
    \/ OperatorSave \/ MainMoves \/ TagMoves \/ Crash

HarnessSpec == HarnessInit /\ [][HarnessNext]_harnessVars

-----------------------------------------------------------------------------
HarnessTypeOK ==
    /\ RegistryTypeOK
    /\ batch \in 0 .. MaxBatches /\ main \in 0 .. MaxMain /\ crashes \in 0 .. MaxCrashes
    /\ tag \in BOOLEAN /\ bundle \subseteq Task /\ wedged \subseteq Task
    /\ trees \subseteq Task \X (1 .. MaxIterations)
    /\ \A t \in Task :
          /\ att[t].n \in 0 .. MaxIterations /\ att[t].base \in 0 .. MaxMain
          /\ att[t].why \subseteq Reason /\ att[t].err \in Exception \cup {"none"}
          /\ Cardinality(result[t]) <= 1

Active(t) == att[t].pc \notin {"none", "done", "raised"}

MayTouch(t, path) ==
    /\ \E rule \in AllowedPaths[t] : PathMatches(path, rule)
    /\ \A rule \in ProtectedPaths[t] : ~PathMatches(path, rule)

\* A glob takes a path that does not lie under the literal prefix by which
\* tasks_conflict judges it: src/*.py has the prefix src and takes a/src/x.py.
Astray(path, rule) == Glob(rule) /\ MatchesEnd(path, rule) /\ ~IsPrefix(Prefix(rule), path)

\* Whatever retries, failures and other threads do, there are never more tasks
\* worked on than the scheduler has workers, and two of them only ever have a path
\* in both their scopes when a glob of one takes it from outside the prefix that
\* the conflict check compares: rules that are literal or recursive keep the tasks
\* apart (plan, tasks_conflict, path_matches, run_ready).
WorkersStayApart ==
    /\ Cardinality({t \in Task : Active(t)}) <= Capacity
    /\ \A t, u \in Task :
          Active(t) /\ Active(u) /\ t # u =>
              \A path \in UNION Changes, left \in AllowedPaths[t], right \in AllowedPaths[u] :
                  PathMatches(path, left) /\ PathMatches(path, right) =>
                      Astray(path, left) \/ Astray(path, right)

\* A task that counts as verified passed its gate: the candidate it was verified
\* with changed only what the task may change, and the task carries its review
\* (run_task, evaluate_merge_gate, CandidateIntegrityGate.inspect).
CandidateIsVerified ==
    \A t \in Task :
        reg[t].status \in Verified =>
            /\ \E r \in result[t] : \A path \in r.paths : MayTouch(t, path)
            /\ "review" \in reg[t].evidence

\* A release-candidate bundle is only written once the registry file says that
\* its task is a merge candidate, so that no crash leaves a bundle for a task
\* that the next process believes unverified (run_task saves before it returns).
BundleIsDurable == \A t \in bundle : disk[t].status \in Verified

\* A task is only RUNNING or in VERIFICATION while a thread works on it, unless
\* the process died or its worktree could not be made (run_task's except clause).
RunningIsOwned ==
    crashes = 0 =>
        \A t \in Task :
            reg[t].status \in {"running", "verification"} =>
                Active(t) \/ t \in wedged

=============================================================================
