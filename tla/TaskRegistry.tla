---------------------------- MODULE TaskRegistry ----------------------------
(* The authoritative registry of engineering tasks                         *)
(* (engineering/registry.py): the tasks in memory, the JSON file that      *)
(* save() replaces in one step, and who may move a task where.             *)
EXTENDS Naturals, FiniteSets

CONSTANTS
    Task,           \* task identifiers a proposal may carry
    NeedsApproval,  \* tasks of high or critical risk: human_approval_required
    Problem,        \* problem fingerprints, NoProblem when a task has none
    NoProblem,
    ProblemOf       \* problem_fingerprint of a task

ASSUME RegistryConstants ==
    /\ NeedsApproval \subseteq Task
    /\ ProblemOf \in [Task -> Problem \cup {NoProblem}]
    /\ NoProblem \notin Problem

VARIABLES
    reg,   \* TaskRegistry._tasks
    disk   \* the file the registry was last saved to

regVars == <<reg, disk>>

Verified == {"passed", "merge_candidate", "merged", "released", "measured"}
Status   == {"proposed", "triaged", "ready", "running", "verification", "failed",
             "blocked"} \cup Verified
Actor    == {"coordinator", "worker", "verifier", "human"}
Ref      == {"problem", "recurrence", "approval", "worker", "review", "merge"}

\* "absent" is a task the registry does not hold.
Record == [status : Status \cup {"absent"}, approved : BOOLEAN, evidence : SUBSET Ref]
Absent == [status |-> "absent", approved |-> FALSE, evidence |-> {}]

Allowed ==
    [s \in Status \cup {"absent"} |->
        CASE s = "proposed"        -> {"triaged", "blocked"}
          [] s = "triaged"         -> {"ready", "blocked"}
          [] s = "ready"           -> {"running", "blocked"}
          [] s = "running"         -> {"verification", "failed", "blocked"}
          [] s = "verification"    -> {"passed", "failed", "blocked"}
          [] s = "passed"          -> {"merge_candidate"}
          [] s = "failed"          -> {"ready", "blocked"}
          [] s = "blocked"         -> {"triaged", "ready"}
          [] s = "merge_candidate" -> {"merged", "failed"}
          [] s = "merged"          -> {"released"}
          [] s = "released"        -> {"measured", "failed"}
          [] OTHER                 -> {}]

VerifierOnly == {"passed", "failed", "merge_candidate"}

\* mutant: approval is asked for at the first dispatch only
CanMoveFirst(t, target, actor) ==
    /\ target \in Allowed[reg[t].status]
    /\ target \in VerifierOnly => actor = "verifier"
    /\ target = "released" => actor = "human"
    /\ target = "running" => actor = "coordinator"
    /\ target = "ready" /\ t \in NeedsApproval /\ reg[t].status = "triaged" => reg[t].approved

CanMove(t, target, actor) ==
    /\ target \in Allowed[reg[t].status]
    /\ target \in VerifierOnly => actor = "verifier"
    /\ target = "released" => actor = "human"
    /\ target = "running" => actor = "coordinator"
    /\ target = "ready" /\ t \in NeedsApproval => reg[t].approved

Move(t, target, refs) ==
    reg' = [reg EXCEPT ![t].status = target, ![t].evidence = @ \cup refs]

Known == {t \in Task : reg[t].status # "absent"}

\* Tasks of the registry that are about the same problem as t.
SameProblem(t) == {d \in Known : ProblemOf[d] = ProblemOf[t] /\ ProblemOf[t] # NoProblem}

-----------------------------------------------------------------------------
RegistryInit ==
    /\ reg = [t \in Task |-> Absent]
    /\ disk = reg

\* add: a second task about a known problem only adds its evidence to the first.
Add(t) ==
    /\ t \notin Known
    /\ \/ /\ SameProblem(t) = {}
          /\ reg' = [reg EXCEPT ![t] =
                [status |-> "proposed", approved |-> FALSE, evidence |-> {"problem"}]]
       \/ \E d \in SameProblem(t) :
             reg' = [reg EXCEPT ![d].evidence = @ \cup {"recurrence"}]
    /\ UNCHANGED disk

Transition(t, target, actor, refs) ==
    /\ target # "merged"
    /\ CanMove(t, target, actor)
    /\ Move(t, target, refs)
    /\ UNCHANGED disk

RecordHumanApproval(t) ==
    /\ t \in NeedsApproval
    /\ reg[t].status \in {"proposed", "triaged", "blocked"}
    /\ reg' = [reg EXCEPT ![t].approved = TRUE, ![t].evidence = @ \cup {"approval"}]
    /\ UNCHANGED disk

\* record_verified_merge, once git has found the candidate in HEAD.
RecordVerifiedMerge(t, actor) ==
    /\ actor \in {"coordinator", "human"}
    /\ CanMove(t, "merged", actor)
    /\ Move(t, "merged", {"merge"})
    /\ UNCHANGED disk

\* save: a temporary file replaces the old one (os.replace).
Save == disk' = reg /\ UNCHANGED reg

\* load in a new process: what was not saved is gone.
Load == reg' = disk /\ UNCHANGED disk

RegistryNext ==
    \/ \E t \in Task :
          \/ Add(t)
          \/ RecordHumanApproval(t)
          \/ \E actor \in Actor :
                \/ RecordVerifiedMerge(t, actor)
                \/ \E target \in Status, refs \in SUBSET Ref :
                      Transition(t, target, actor, refs)
    \/ Save
    \/ Load

RegistrySpec == RegistryInit /\ [][RegistryNext]_regVars

-----------------------------------------------------------------------------
RegistryTypeOK == reg \in [Task -> Record] /\ disk \in [Task -> Record]

\* Statuses only an approved task may reach: ready, and whatever follows it.
Dispatched == {"ready", "running", "verification", "failed"} \cup Verified

Approved(r) == \A t \in NeedsApproval : r[t].status \in Dispatched => r[t].approved

\* No high-risk task is dispatched, retried or verified without a human's
\* approval, along any path through retries, blocks, saves and restarts
\* (record_human_approval, _transition_unlocked, load).
ApprovedBeforeWork == Approved(reg) /\ Approved(disk)

OnePerProblem(r) ==
    \A t, d \in Task :
        /\ r[t].status # "absent" /\ r[d].status # "absent"
        /\ ProblemOf[t] = ProblemOf[d] /\ ProblemOf[t] # NoProblem
        => t = d

\* A problem that is found again is linked to its task and never opens a second
\* one, in memory or in the file a restart reads (add, save, load).
OneTaskPerProblem == OnePerProblem(reg) /\ OnePerProblem(disk)
=============================================================================
