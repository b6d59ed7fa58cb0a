------------------------------- MODULE Bridge -------------------------------
(***************************************************************************)
(* The Local Codex Bridge (tools/codex-github-bridge): it reads the tasks   *)
(* of a Stage from the Stage's pull request, has one Codex Worker implement *)
(* each of them in a worktree of its own, cherry-picks the candidates onto  *)
(* the Stage branch and announces the finished Stage.                       *)
(*                                                                         *)
(* Nothing is persisted besides comments on the pull request and Git: a run *)
(* of the Bridge rebuilds its state from them (load), and a run may stop    *)
(* between any two of its steps.                                            *)
(*                                                                         *)
(* A Worker, the Bridge's promises of several launches, and the workflow    *)
(* that answers pushes to the Stage interleave.  Of a commit the module     *)
(* keeps whose work it is and where it starts: a Stage is the sequence of   *)
(* the tasks cherry-picked onto it, a Stage SHA the length of that          *)
(* sequence, a task's candidate commit the Stage SHA it was made from.      *)
(*                                                                         *)
(* Tasks are numbered in the order of orderTasks, which is that of their     *)
(* identifiers: the normalized contract has no topological_priority.  Only   *)
(* one Bridge runs at a time.                                               *)
(***************************************************************************)
EXTENDS Naturals, Sequences, FiniteSets, Functions

CONSTANTS
    Task,       \* numbers of tasks
    Router,     \* accepted Router Contracts: [task, dep, overlap] records
    Fault,      \* the sets of troubles a behaviour may meet
    Mode,       \* the execution commands used: "start", "run-once"
    None,       \* no commit, no record
    MaxRun      \* bound: runs of the Bridge

\* What normalization of a Router Contract guarantees of its tasks, as far as the
\* Bridge relies on it: dependencies are tasks, without a cycle (in every set of
\* tasks one depends on none of them), but not in the order of the numbers; overlap
\* is symmetric.
Normalized(r) ==
    /\ r.task \subseteq Task
    /\ r.dep \in [Task -> SUBSET Task]
    /\ \A t \in r.task : r.dep[t] \subseteq r.task
    /\ \A S \in SUBSET r.task : S = {} \/ \E t \in S : r.dep[t] \cap S = {}
    /\ r.overlap \subseteq r.task \X r.task
    /\ \A t, u \in r.task : <<t, u>> \in r.overlap => <<u, t>> \in r.overlap

ASSUME RouterAssumption ==
    /\ Task \subseteq Nat
    /\ \A r \in Router : Normalized(r)

\* A Router Contract lists its tasks, and a run more is one more.
ASSUME BoundAssumption == IsFiniteSet(Task) /\ MaxRun \in Nat

VARIABLES
    router,     \* the Stage's Router Contract
    trouble,    \* what goes wrong in this behaviour
    \* the pull request of the Stage
    event,      \* event[t]: the statuses of t's Bridge events, in their order
    mapping,    \* mapping[t]: what t's task_integrated event records
    handoff,    \* Stage SHA of the latest dispatch_ready handoff
    label,      \* labels of the pull request
    candidate,  \* Stage SHAs announced by a candidate comment
    verified,   \* Stage SHAs with a Stage verification and a Review handoff
    sent,       \* repository_dispatch calls that reached GitHub
    workflow,   \* the concurrency group of the Stage's workflow: running, pending
    \* Git
    stage,      \* the Stage branch on origin
    branch,     \* branch[t]: t's candidate on origin
    tree,       \* the local Stage branch, in the Stage integration worktree
    clean,      \* whether that worktree is clean
    work,       \* work[t]: t's worktree
    \* the Bridge process
    phase,      \* where run() stands; "off" when no Bridge runs
    mode,       \* the command of this run
    base,       \* context.actualStageSha
    status,     \* context.states
    job,        \* job[t]: how far this run's work on t has come
    verdict,    \* verdict[t]: what the launch or the checks of t ended in
    \* Workers
    alive,      \* tasks whose Worker process is alive
    started,    \* started[t]: commands under which a Worker of t was started
    runs        \* runs of the Bridge so far

prVars    == <<event, mapping, handoff, label, candidate, verified, sent, workflow>>
gitVars   == <<stage, branch, tree, clean, work>>
runVars   == <<phase, mode, base, status, job, verdict>>
fixedVars == <<router, trouble>>
vars      == <<fixedVars, prVars, gitVars, runVars, alive, started, runs>>

Required == router.task
Overlap(t, u) == <<t, u>> \in router.overlap

-----------------------------------------------------------------------------
(* What load() reconstructs from the pull request.                          *)

\* latestTaskStates: the last event of a task decides; "dispatched" is a
\* task_dispatched without an event after it.
LatestOf(e) ==
    IF e = <<>> THEN "not_started"
    ELSE CASE e[Len(e)] = "task_dispatched" -> "dispatched"
           [] e[Len(e)] = "task_integrated" -> "integrated"
           [] OTHER -> e[Len(e)]

LatestState(t) == LatestOf(event[t])

\* Faulty: the running tasks are forgotten.
EligibleBeside(t, running) ==
    /\ t \in Required
    /\ status[t] = "not_started"
    /\ \A d \in router.dep[t] : status[d] = "integrated"

\* Faulty: a dependency that has ended in any way counts.
EligibleAfterAnyEnd(t, running) ==
    /\ t \in Required
    /\ status[t] = "not_started"
    /\ \A d \in router.dep[t] : status[d] \in {"integrated", "blocked", "needs_decision"}
    /\ \A r \in running : ~ Overlap(t, r)

\* computeReadySet: tasks in their order, each taken when it has not started, all
\* its dependencies are integrated, and it overlaps neither a running task nor one
\* taken before it.
Eligible(t, running) ==
    /\ t \in Required
    /\ status[t] = "not_started"
    /\ \A d \in router.dep[t] : status[d] = "integrated"
    /\ \A r \in running : ~ Overlap(t, r)

IsReadySet(S, running) ==
    /\ S \subseteq Required
    /\ \A t \in Required :
          t \in S <=> Eligible(t, running) /\ ~ \E s \in S : s < t /\ Overlap(t, s)

\* BridgeController.terminal
AllIntegrated == \A t \in Required : status[t] = "integrated"

Terminal ==
    \/ AllIntegrated
    \/ \E t \in Required : status[t] \in {"blocked", "needs_decision"}

-----------------------------------------------------------------------------
(* The stages of this run's work on a task.                                 *)

\* The promise of launch() has not settled.
InFlight == {"launching", "based", "announced", "working"}

\* processResult is in the middle of the task.
Steps == {"settling", "accepted", "verified", "committed", "gated", "approved", "pushed",
          "picked", "staged"}

Running == {t \in Required : job[t] \in InFlight \cup {"ended", "rejected"}}

\* processResult takes the tasks of a batch one by one, in their order.
Turn(t) ==
    /\ phase \in {"process", "settle"}
    /\ \/ job[t] \in Steps
       \/ /\ job[t] = "batched"
          /\ \A u \in Required : job[u] \notin Steps /\ (job[u] = "batched" => t <= u)

Step(t, from, to) == job[t] = from /\ job' = [job EXCEPT ![t] = to]

\* The memory of a run is gone with its process.
Exit ==
    /\ phase' = "off" /\ mode' = "none" /\ base' = 0
    /\ status' = [t \in Task |-> "not_started"]
    /\ job' = [t \in Task |-> "idle"]
    /\ verdict' = [t \in Task |-> "none"]

\* An error leaves run(): nothing more is scheduled or processed, but launches on
\* their way go on until the process ends.
Throw ==
    /\ phase' = "failing"
    /\ job' = [t \in Task |-> IF job[t] \in InFlight THEN job[t] ELSE "idle"]

\* GitHubClient.publishEvent: the comment is written unless an equal one is there.
Post(t, s) ==
    event' = IF s \in Range(event[t]) THEN event ELSE [event EXCEPT ![t] = Append(@, s)]

\* Its failures: before the comment is written, or, of unknown outcome, after.
PostFails(t, s) ==
    /\ "publish" \in trouble
    /\ Post(t, s) \/ UNCHANGED event
    /\ Throw

-----------------------------------------------------------------------------
(* Loading and scheduling.                                                  *)

\* BridgeController.revalidateRecoveredIntegration
Recovered(t) ==
    /\ branch[t] = mapping[t].source
    /\ mapping[t].at \in DOMAIN stage
    /\ stage[mapping[t].at] = t

\* requireHandoff, validateRouterHandoff: the handoff is for the present Stage.
HandoffIsCurrent == handoff = Len(stage)

\* prepareExecution: the Stage worktree is at the Stage, and every integration on
\* record is still found in Git.
ExecutionPrepared ==
    /\ tree = stage
    /\ clean
    /\ \A t \in Required : LatestState(t) = "integrated" => Recovered(t)

\* Faulty: the handoff may name an older Stage, and the run starts from what it names.
LoadableBehind ==
    /\ "codex-dispatch-ready" \in label
    /\ \A t \in Required : LatestState(t) # "dispatched"
    /\ clean
    /\ \A t \in Required : LatestState(t) = "integrated" => Recovered(t)

\* What load() and prepareExecution() demand before anything is written: a labelled
\* pull request with a current handoff, and no task dispatched without an end.
Loadable ==
    /\ "codex-dispatch-ready" \in label
    /\ HandoffIsCurrent
    /\ \A t \in Required : LatestState(t) # "dispatched"
    /\ ExecutionPrepared

Load(m) ==
    /\ phase = "off" /\ runs < MaxRun
    /\ Loadable
    /\ phase' = "schedule"
    /\ mode' = m
    /\ base' = handoff
    /\ status' = [t \in Task |-> LatestState(t)]
    /\ job' = [t \in Task |-> "idle"]
    /\ verdict' = [t \in Task |-> "none"]
    /\ runs' = runs + 1
    /\ UNCHANGED <<fixedVars, prVars, gitVars, alive, started>>

\* runStartSchedule, the head of its loop: launch the whole Ready Set, or leave the
\* loop when the Stage is terminal or nothing runs.
ScheduleStart ==
    /\ phase = "schedule" /\ mode = "start"
    /\ \/ /\ Terminal
          /\ phase' = "drain"
          /\ UNCHANGED <<status, job>>
       \/ /\ ~ Terminal
          /\ \E S \in SUBSET Required :
                /\ IsReadySet(S, Running)
                /\ status' = [t \in Task |-> IF t \in S THEN "running" ELSE status[t]]
                /\ job' = [t \in Task |-> IF t \in S THEN "launching" ELSE job[t]]
                /\ phase' = IF Running \cup S = {} THEN "finish" ELSE "wait"
    /\ UNCHANGED <<fixedVars, prVars, gitVars, mode, base, verdict, alive, started, runs>>

\* runOnceSchedule: one Ready Set, without regard to Terminal.
ScheduleOnce ==
    /\ phase = "schedule" /\ mode = "run-once"
    /\ \E S \in SUBSET Required :
          /\ IsReadySet(S, {})
          /\ job' = [t \in Task |-> IF t \in S THEN "launching" ELSE job[t]]
    /\ phase' = "drain"
    /\ UNCHANGED <<fixedVars, prVars, gitVars, mode, base, status, verdict, alive, started, runs>>

Batch == [t \in Task |-> IF job[t] = "ended" THEN "batched" ELSE job[t]]

\* Promise.race: some launch has settled; all that have make the batch.
Collect ==
    /\ phase = "wait"
    /\ \E t \in Required : job[t] = "ended"
    /\ phase' = "process"
    /\ job' = Batch
    /\ UNCHANGED <<fixedVars, prVars, gitVars, mode, base, status, verdict, alive, started, runs>>

\* Faulty: what is still running when the Stage is terminal is dropped.
CollectNothing ==
    /\ phase = "drain"
    /\ Running = {t \in Required : job[t] = "ended"}
    /\ phase' = "settle"
    /\ job' = [t \in Task |-> IF job[t] = "ended" THEN "idle" ELSE job[t]]
    /\ UNCHANGED <<fixedVars, prVars, gitVars, mode, base, status, verdict, alive, started, runs>>

\* Promise.all: every launch has ended.
CollectAll ==
    /\ phase = "drain"
    /\ Running = {t \in Required : job[t] = "ended"}
    /\ phase' = "settle"
    /\ job' = Batch
    /\ UNCHANGED <<fixedVars, prVars, gitVars, mode, base, status, verdict, alive, started, runs>>

\* Faulty: the race does not see a rejected launch.
ThrowRejectedLate ==
    /\ phase = "drain"
    /\ \E t \in Required : job[t] = "rejected"
    /\ Throw
    /\ UNCHANGED <<fixedVars, prVars, gitVars, mode, base, status, verdict, alive, started, runs>>

\* A rejected launch is noticed where launches are awaited, not before.
ThrowRejected ==
    /\ phase \in {"wait", "drain"}
    /\ \E t \in Required : job[t] = "rejected"
    /\ Throw
    /\ UNCHANGED <<fixedVars, prVars, gitVars, mode, base, status, verdict, alive, started, runs>>

\* The batch is done.
BatchDone ==
    /\ phase \in {"process", "settle"}
    /\ \A t \in Required : job[t] # "batched" /\ job[t] \notin Steps
    /\ phase' = IF phase = "process" THEN "schedule" ELSE "finish"
    /\ UNCHANGED <<fixedVars, prVars, gitVars, mode, base, status, job, verdict, alive, started,
                   runs>>

-----------------------------------------------------------------------------
(* Launching a Worker: BridgeController.launch.                             *)

\* ensureTaskWorktree and the checks of the dispatch base, after resolveModel.  The
\* base is the Stage as load() read it.
CleanBase(t) ==
    work[t] = None \/ work[t] = [base |-> base, state |-> "clean"]

EnterWorktree(t) ==
    /\ CleanBase(t)
    /\ Step(t, "launching", "based")
    /\ work' = [work EXCEPT ![t] = [base |-> base, state |-> "clean"]]
    /\ UNCHANGED <<fixedVars, prVars, stage, branch, tree, clean, phase, mode, base, status,
                   verdict, alive, started, runs>>

Preflight(t, s) ==
    /\ Step(t, "launching", "ended")
    /\ verdict' = [verdict EXCEPT ![t] = s]
    /\ UNCHANGED <<fixedVars, prVars, gitVars, phase, mode, base, status, alive, started, runs>>

\* resolveModel finds no model for the task, or none with the effort it asks for.
FailModel(t) == "model" \in trouble /\ Preflight(t, "needs_decision")

\* The worktree is in use, or left at another base.
FailWorktree(t) == ~ CleanBase(t) /\ Preflight(t, "blocked")

\* publish(task, 'task_dispatched') comes before the Worker.
Announce(t) ==
    /\ Step(t, "based", "announced")
    /\ Post(t, "task_dispatched")
    /\ status' = [status EXCEPT ![t] = "running"]
    /\ UNCHANGED <<fixedVars, mapping, handoff, label, candidate, verified, sent, workflow,
                   gitVars, phase, mode, base, verdict, alive, started, runs>>

\* The comment is not written, or it is with its answer lost: no Worker is started.
FailAnnounce(t) ==
    /\ Step(t, "based", "rejected")
    /\ "publish" \in trouble
    /\ Post(t, "task_dispatched") \/ UNCHANGED event
    /\ UNCHANGED <<fixedVars, mapping, handoff, label, candidate, verified, sent, workflow,
                   gitVars, phase, mode, base, status, verdict, alive, started, runs>>

\* CodexLauncher.launchWorker
StartWorker(t) ==
    /\ Step(t, "announced", "working")
    /\ alive' = alive \cup {t}
    /\ started' = [started EXCEPT ![t] = Append(@, mode)]
    /\ work' = [work EXCEPT ![t] = [@ EXCEPT !.state = "given"]]
    /\ UNCHANGED <<fixedVars, prVars, stage, branch, tree, clean, phase, mode, base, status,
                   verdict, runs>>

\* runNativeWorker returns: the turn completed with a Coding Result that is ready,
\* not ready or invalid, or its outcome is uncertain.
EndWorker(t) ==
    /\ Step(t, "working", "ended")
    /\ \E v \in {"ready"} \cup
                (IF "worker" \in trouble THEN {"blocked", "needs_decision", "uncertain"} ELSE {}) :
          verdict' = [verdict EXCEPT ![t] = v]
    /\ alive' = alive \ {t}
    /\ UNCHANGED <<fixedVars, prVars, gitVars, phase, mode, base, status, started, runs>>

\* A Worker that outlived its Bridge ends.
EndOrphan(t) ==
    /\ t \in alive /\ job[t] # "working"
    /\ alive' = alive \ {t}
    /\ UNCHANGED <<fixedVars, prVars, gitVars, runVars, started, runs>>

-----------------------------------------------------------------------------
(* Taking a result: BridgeController.processResult.                         *)

\* An uncertain Worker outcome is thrown, whatever else runs.
ThrowUncertain(t) ==
    /\ Turn(t) /\ job[t] = "batched" /\ verdict[t] = "uncertain"
    /\ Throw
    /\ UNCHANGED <<fixedVars, prVars, gitVars, mode, base, status, verdict, alive, started, runs>>

\* A preflight failure, a failed Worker or a result that is not ready.
Refuse(t) ==
    /\ Turn(t) /\ verdict[t] \in {"blocked", "needs_decision"}
    /\ Step(t, "batched", "settling")
    /\ UNCHANGED <<fixedVars, prVars, gitVars, phase, mode, base, status, verdict, alive, started,
                   runs>>

\* A check or a step of Git fails: the task will be published with status s.
Reject(t, s) ==
    /\ job' = [job EXCEPT ![t] = "settling"]
    /\ verdict' = [verdict EXCEPT ![t] = s]

\* One of the checks of processResult, each behind an await of its own: passed, or a
\* refusal.
Check(t, from, to) ==
    /\ Turn(t) /\ job[t] = from
    /\ \/ Step(t, from, to) /\ UNCHANGED verdict
       \/ "checks" \in trouble /\ Reject(t, "blocked")
    /\ UNCHANGED <<fixedVars, prVars, gitVars, phase, mode, base, status, alive, started, runs>>

\* validateWorkerCodingResult, and validateWorkingTreeObservation of what the Worker
\* has left.
AcceptResult(t) == verdict[t] = "ready" /\ Check(t, "batched", "accepted")

\* runVerification
Verify(t) == Check(t, "accepted", "verified")

\* validateWorkingTreeObservation after the verification, and createCandidateCommit.
CommitCandidate(t) ==
    /\ Turn(t) /\ job[t] = "verified"
    /\ \/ /\ Step(t, "verified", "committed")
          /\ work' = [work EXCEPT ![t] = [@ EXCEPT !.state = "committed"]]
          /\ UNCHANGED verdict
       \/ /\ "checks" \in trouble
          /\ Reject(t, "blocked")
          /\ UNCHANGED work
    /\ UNCHANGED <<fixedVars, prVars, stage, branch, tree, clean, phase, mode, base, status,
                   alive, started, runs>>

\* collectTaskFacts, mechanicalGate: one commit on the base, of owned files only.
MechanicalGate(t) == Check(t, "committed", "gated")

\* runSupervisor, and the dependency gate behind it.
Supervise(t) ==
    /\ Turn(t) /\ job[t] = "gated"
    /\ \/ /\ \A d \in router.dep[t] : status[d] = "integrated"
          /\ Step(t, "gated", "approved")
          /\ UNCHANGED verdict
       \/ /\ \E d \in router.dep[t] : status[d] # "integrated"
          /\ Reject(t, "blocked")
       \/ /\ "checks" \in trouble
          /\ \E s \in {"blocked", "needs_decision"} : Reject(t, s)
    /\ UNCHANGED <<fixedVars, prVars, gitVars, phase, mode, base, status, alive, started, runs>>

\* GitRepository.pushTask, confirmed once; a push may be lost or unconfirmed.
PushTask(t) ==
    /\ Turn(t) /\ job[t] = "approved"
    /\ \/ /\ branch' = [branch EXCEPT ![t] = work[t].base]
          /\ Step(t, "approved", "pushed")
          /\ UNCHANGED verdict
       \/ /\ "push" \in trouble
          /\ branch' \in {branch, [branch EXCEPT ![t] = work[t].base]}
          /\ Reject(t, "blocked")
    /\ UNCHANGED <<fixedVars, prVars, stage, tree, clean, work, phase, mode, base, status, alive,
                   started, runs>>

\* The candidate and a commit the Stage got after the candidate's base may both
\* change a path.
MayConflict(t) ==
    \E i \in DOMAIN tree : i > work[t].base /\ Overlap(t, tree[i])

\* GitRepository.integrate up to the cherry-pick, in the local Stage branch; the
\* abort of a failed cherry-pick may fail in its turn.
CherryPick(t) ==
    /\ Turn(t) /\ job[t] = "pushed"
    /\ \/ /\ clean
          /\ tree' = Append(tree, t)
          /\ Step(t, "pushed", "picked")
          /\ UNCHANGED <<clean, verdict>>
       \/ /\ clean
          /\ "conflict" \in trouble /\ MayConflict(t)
          /\ clean' \in BOOLEAN
          /\ Reject(t, "blocked")
          /\ UNCHANGED tree
       \/ /\ ~ clean
          /\ Reject(t, "blocked")
          /\ UNCHANGED <<tree, clean>>
    /\ UNCHANGED <<fixedVars, prVars, stage, branch, work, phase, mode, base, status, alive,
                   started, runs>>

\* Faulty: every event waits.
EnqueueAll(kind) ==
    workflow' = Append(workflow, [kind |-> kind, head |-> Len(stage'), checked |-> FALSE])

\* The workflow's concurrency group runs one event of the Stage and keeps the latest
\* one waiting.
Enqueue(kind) ==
    LET new == [kind |-> kind, head |-> Len(stage'), checked |-> FALSE] IN
    workflow' = IF Len(workflow) < 2 THEN Append(workflow, new) ELSE <<workflow[1], new>>

\* The push of the local Stage branch, with all that is on it.
StageArrives ==
    /\ stage' = tree
    /\ IF stage' = stage THEN UNCHANGED workflow ELSE Enqueue("push")

\* Faulty: a push of the Stage that returns an error is not noticed.
PushStageUnconfirmed(t) ==
    /\ Turn(t) /\ job[t] = "picked"
    /\ \/ StageArrives
       \/ "push" \in trouble /\ UNCHANGED <<stage, workflow>>
    /\ Step(t, "picked", "staged")
    /\ UNCHANGED verdict
    /\ UNCHANGED <<fixedVars, event, mapping, handoff, label, candidate, verified, sent, branch,
                   tree, clean, work, phase, mode, base, status, alive, started, runs>>

\* GitRepository.integrate, the rest: push the Stage and confirm it.
PushStage(t) ==
    /\ Turn(t) /\ job[t] = "picked"
    /\ \/ /\ StageArrives
          /\ Step(t, "picked", "staged")
          /\ UNCHANGED verdict
       \/ /\ "push" \in trouble
          /\ StageArrives \/ UNCHANGED <<stage, workflow>>
          /\ Reject(t, "blocked")
    /\ UNCHANGED <<fixedVars, event, mapping, handoff, label, candidate, verified, sent, branch,
                   tree, clean, work, phase, mode, base, status, alive, started, runs>>

\* publish(task, 'task_integrated')
PublishIntegrated(t) ==
    /\ Turn(t) /\ job[t] = "staged"
    /\ \/ /\ Post(t, "task_integrated")
          /\ Step(t, "staged", "idle")
          /\ status' = [status EXCEPT ![t] = "integrated"]
          /\ UNCHANGED phase
       \/ PostFails(t, "task_integrated") /\ UNCHANGED status
    /\ mapping' = IF event' = event THEN mapping
                  ELSE [mapping EXCEPT ![t] = [source |-> work[t].base, at |-> Len(tree)]]
    /\ UNCHANGED <<fixedVars, handoff, label, candidate, verified, sent, workflow, gitVars, mode,
                   base, verdict, alive, started, runs>>

\* publish(task, 'blocked' or 'needs_decision')
PublishRefusal(t) ==
    /\ Turn(t) /\ job[t] = "settling"
    /\ \/ /\ Post(t, verdict[t])
          /\ Step(t, "settling", "idle")
          /\ status' = [status EXCEPT ![t] = verdict[t]]
          /\ UNCHANGED phase
       \/ PostFails(t, verdict[t]) /\ UNCHANGED status
    /\ UNCHANGED <<fixedVars, mapping, handoff, label, candidate, verified, sent, workflow,
                   gitVars, mode, base, verdict, alive, started, runs>>

-----------------------------------------------------------------------------
(* Announcing the Stage: finishIfComplete and publishCandidate.             *)

\* The run ends, or the candidate comment is written or found.
Finish ==
    /\ phase = "finish"
    /\ \/ ~ AllIntegrated /\ Exit /\ UNCHANGED candidate
       \/ /\ AllIntegrated
          /\ phase' = IF Len(tree) \in candidate THEN "refound" ELSE "commented"
          /\ candidate' = candidate \cup {Len(tree)}
          /\ UNCHANGED <<mode, base, status, job, verdict>>
       \/ /\ AllIntegrated /\ "publish" \in trouble
          /\ candidate' \in {candidate, candidate \cup {Len(tree)}}
          /\ Exit
    /\ UNCHANGED <<fixedVars, event, mapping, handoff, label, verified, sent, workflow, gitVars,
                   alive, started, runs>>

CandidateLabels == (label \cup {"codex-stage-candidate"}) \ {"codex-dispatch-ready"}

\* The label projection.
ProjectLabels ==
    /\ phase \in {"commented", "refound"}
    /\ \/ /\ label' = CandidateLabels
          /\ phase' = IF phase = "commented" THEN "labelled" ELSE "relabelled"
          /\ UNCHANGED <<mode, base, status, job, verdict>>
       \/ /\ "publish" \in trouble
          /\ label' \in {label, CandidateLabels}
          /\ Exit
    /\ UNCHANGED <<fixedVars, event, mapping, handoff, candidate, verified, sent, workflow,
                   gitVars, alive, started, runs>>

Call == UNCHANGED stage /\ sent' = sent + 1 /\ Enqueue("candidate")

\* Faulty: a comment of an earlier run does not stop the call.
DispatchCandidateAgain ==
    /\ \/ phase \in {"labelled", "relabelled"} /\ Len(tree) \in verified
             /\ UNCHANGED <<sent, workflow, stage>>
       \/ phase \in {"labelled", "relabelled"} /\ Len(tree) \notin verified
             /\ (Call \/ ("publish" \in trouble /\ UNCHANGED <<sent, workflow, stage>>))
    /\ Exit
    /\ UNCHANGED <<fixedVars, event, mapping, handoff, label, candidate, verified, branch, tree,
                   clean, work, alive, started, runs>>

\* The one repository_dispatch: not when its answer is already on the pull request,
\* and not when the comment was there before this run.
DispatchCandidate ==
    /\ \/ phase = "relabelled" /\ UNCHANGED <<sent, workflow, stage>>
       \/ phase = "labelled" /\ Len(tree) \in verified /\ UNCHANGED <<sent, workflow, stage>>
       \/ phase = "labelled" /\ Len(tree) \notin verified
             /\ (Call \/ ("publish" \in trouble /\ UNCHANGED <<sent, workflow, stage>>))
    /\ Exit
    /\ UNCHANGED <<fixedVars, event, mapping, handoff, label, candidate, verified, branch, tree,
                   clean, work, alive, started, runs>>

-----------------------------------------------------------------------------
(* The end of a run that fails, and the surroundings.                       *)

\* The process of a failed run ends when nothing is on its way any more.
ExitFailed ==
    /\ phase = "failing"
    /\ \A t \in Required : job[t] \notin InFlight
    /\ Exit
    /\ UNCHANGED <<fixedVars, prVars, gitVars, alive, started, runs>>

\* The Bridge dies; in the middle of a cherry-pick it leaves the worktree unclean.
Crash ==
    /\ phase # "off" /\ "crash" \in trouble
    /\ Exit
    /\ \/ UNCHANGED clean
       \/ (\E t \in Required : job[t] = "pushed") /\ clean' = FALSE
    /\ UNCHANGED <<fixedVars, prVars, stage, branch, tree, work, alive, started, runs>>

\* The operator brings the integration worktree back to the Stage.
RepairWorktree ==
    /\ phase = "off" /\ (tree # stage \/ ~ clean)
    /\ tree' = stage /\ clean' = TRUE
    /\ UNCHANGED <<fixedVars, prVars, stage, branch, work, runVars, alive, started, runs>>

\* publish-dispatch-ready answers a push: it drops the review label, leaves off when
\* the Stage has moved on, and otherwise publishes the handoff and the label.
AnswerPush ==
    /\ workflow # <<>> /\ workflow[1].kind = "push"
    /\ LET run == workflow[1] IN
       \/ /\ ~ run.checked /\ run.head = Len(stage)
          /\ workflow' = [workflow EXCEPT ![1].checked = TRUE]
          /\ label' = label \ {"chat-review"}
          /\ UNCHANGED handoff
       \/ /\ ~ run.checked /\ run.head # Len(stage)
          /\ workflow' = Tail(workflow)
          /\ label' = label \ {"chat-review"}
          /\ UNCHANGED handoff
       \/ /\ run.checked
          /\ workflow' = Tail(workflow)
          /\ handoff' = run.head
          /\ label' = label \cup {"codex-dispatch-ready"}
    /\ UNCHANGED <<fixedVars, event, mapping, candidate, verified, sent, gitVars, runVars, alive,
                   started, runs>>

\* verify-stage-candidate answers the repository_dispatch; its checks may fail.
AnswerCandidate ==
    /\ workflow # <<>> /\ workflow[1].kind = "candidate"
    /\ workflow' = Tail(workflow)
    /\ LET head == workflow[1].head IN
       \/ /\ head = Len(stage)
          /\ verified' = verified \cup {head}
          /\ label' = (label \cup {"chat-review"}) \ {"codex-dispatch-ready"}
       \/ /\ "workflow" \in trouble \/ head # Len(stage)
          /\ UNCHANGED <<verified, label>>
    /\ UNCHANGED <<fixedVars, event, mapping, handoff, candidate, sent, gitVars, runVars, alive,
                   started, runs>>

-----------------------------------------------------------------------------
Init ==
    /\ router \in Router
    /\ trouble \in Fault
    /\ event = [t \in Task |-> <<>>]
    /\ mapping = [t \in Task |-> None]
    /\ handoff = 0
    /\ label = {"codex-dispatch-ready"}
    /\ candidate = {} /\ verified = {} /\ sent = 0
    /\ workflow = <<>>
    /\ stage = <<>> /\ tree = <<>> /\ clean = TRUE
    /\ branch = [t \in Task |-> None]
    /\ work = [t \in Task |-> None]
    /\ phase = "off" /\ mode = "none" /\ base = 0
    /\ status = [t \in Task |-> "not_started"]
    /\ job = [t \in Task |-> "idle"]
    /\ verdict = [t \in Task |-> "none"]
    /\ alive = {} /\ started = [t \in Task |-> <<>>]
    /\ runs = 0

Launch(t) ==
    EnterWorktree(t) \/ FailModel(t) \/ FailWorktree(t) \/ Announce(t) \/ FailAnnounce(t)
        \/ StartWorker(t) \/ EndWorker(t)

Process(t) ==
    ThrowUncertain(t) \/ Refuse(t) \/ AcceptResult(t) \/ Verify(t) \/ CommitCandidate(t)
        \/ MechanicalGate(t) \/ Supervise(t) \/ PushTask(t) \/ CherryPick(t) \/ PushStage(t)
        \/ PublishIntegrated(t) \/ PublishRefusal(t)

\* What the Bridge and its Workers do once a run has begun.
Run ==
    \/ ScheduleStart \/ ScheduleOnce \/ Collect \/ CollectAll \/ ThrowRejected \/ BatchDone
    \/ Finish \/ ProjectLabels \/ DispatchCandidate \/ ExitFailed
    \/ \E t \in Required : Launch(t) \/ Process(t)

Workflow == AnswerPush \/ AnswerCandidate

Next ==
    \/ \E m \in Mode : Load(m)
    \/ Run
    \/ Crash
    \/ RepairWorktree
    \/ \E t \in Required : EndOrphan(t)
    \/ Workflow

Spec == Init /\ [][Next]_vars

\* A run that has begun goes on, every Worker ends, and GitHub runs its workflows;
\* nobody has to begin a run or to repair a worktree.
FairSpec == Spec /\ WF_vars(Run) /\ WF_vars(Workflow)

-----------------------------------------------------------------------------
(* Properties.                                                              *)

EventStatus == {"task_dispatched", "task_integrated", "blocked", "needs_decision"}
StageSha    == 0 .. Cardinality(Task)

BridgeTypeOK ==
    /\ router \in Router /\ trouble \in Fault
    /\ \A t \in Task : event[t] \in Seq(EventStatus) /\ Len(event[t]) <= 2
    /\ mapping \in [Task -> [source : StageSha, at : StageSha] \cup {None}]
    /\ handoff \in StageSha
    /\ label \subseteq {"codex-dispatch-ready", "codex-stage-candidate", "chat-review"}
    /\ candidate \subseteq StageSha /\ verified \subseteq StageSha
    /\ sent \in Nat
    /\ Len(workflow) <= 2
    /\ \A i \in DOMAIN workflow :
          workflow[i] \in [kind : {"push", "candidate"}, head : StageSha, checked : BOOLEAN]
    /\ stage \in Seq(Task) /\ tree \in Seq(Task) /\ clean \in BOOLEAN
    /\ branch \in [Task -> StageSha \cup {None}]
    /\ work \in [Task -> [base : StageSha, state : {"clean", "given", "committed"}]
                            \cup {None}]
    /\ phase \in {"off", "schedule", "wait", "process", "drain", "settle", "finish",
                  "commented", "refound", "labelled", "relabelled", "failing"}
    /\ mode \in Mode \cup {"none"} /\ base \in StageSha
    /\ status \in [Task -> {"not_started", "running", "integrated", "blocked",
                            "needs_decision"}]
    /\ job \in [Task -> InFlight \cup Steps \cup {"idle", "ended", "rejected", "batched"}]
    /\ verdict \in [Task -> {"none", "ready", "blocked", "needs_decision", "uncertain"}]
    /\ alive \subseteq Task
    /\ started \in [Task -> Seq(Mode)]
    /\ runs \in 0 .. MaxRun

\* Whatever crashes, answers are lost and runs are begun again, no task has two
\* Workers, and none is without a dispatch on record: a crash between the event and
\* the Worker loses the Worker, and never the other way round.
OneWorkerPerDispatch ==
    \A t \in Task :
        /\ Len(started[t]) <= 1
        /\ started[t] # <<>> => "task_dispatched" \in Range(event[t])

\* Two tasks that own a common path never have Workers at the same time, those that
\* outlived a run included.
OverlapIsSerial ==
    \A t, u \in alive : t # u => ~ Overlap(t, u)

\* No two Workers meet: not on one task, and not in one path.
WorkersApart == OneWorkerPerDispatch /\ OverlapIsSerial

\* What the pull request records as integrated is in Git: its candidate is on the
\* task branch it names and its commit at the place of the Stage it names, so that
\* recovery is never refused for it; and what it needs comes before it.
IntegrationIsDelivered ==
    \A t \in Required : LatestState(t) = "integrated" =>
        /\ Recovered(t)
        /\ \A d \in router.dep[t] :
              LatestState(d) = "integrated" /\ mapping[d].at < mapping[t].at

\* A run that gets to its end, without an error or a crash, leaves no task dispatched
\* and not ended: the next run can load.
RunSettlesItsTasks ==
    phase = "finish" => \A t \in Required : LatestState(t) # "dispatched"

\* A Stage is announced when all its tasks are on it, and as it is on origin.
CandidateIsWhole ==
    \A head \in candidate :
        /\ head = Len(stage)
        /\ \A t \in Required : t \in Range(stage) /\ LatestState(t) = "integrated"

\* The workflow that verifies the candidate is called once, although its answer to
\* the last push may label the pull request ready again after the Bridge has
\* announced the candidate, and another run then finds everything integrated.
CandidateSentOnce == sent <= 1

\* The whole Stage is announced, and once.
AnnouncedOnce == CandidateIsWhole /\ CandidateSentOnce

\* Under run-once a task starts from a Stage that holds what it depends on.
RunOnceHasPrerequisites ==
    \A t \in Required : "run-once" \in Range(started[t]) =>
        \A d \in router.dep[t] : d \in Range(SubSeq(stage, 1, work[t].base))

\* A dependent task starts from a Stage that holds its prerequisites, under either
\* command.
StartHasPrerequisites ==
    \A t \in Required : started[t] # <<>> =>
        \A d \in router.dep[t] : d \in Range(SubSeq(stage, 1, work[t].base))

\* The events and the Stage keep the promises of StageLedger.
Ledger == INSTANCE StageLedger
            WITH need <- router.dep, ledger <- [t \in Task |-> LatestState(t)]

KeepsLedger == Ledger!LedgerSpec

\* No run waits for ever: not for a Worker that has ended or a launch that was
\* rejected, and not for a task that cannot start.
RunEnds == phase # "off" ~> phase = "off"

\* Where nothing goes wrong, one start command takes a Stage from what is integrated
\* to the announced candidate.
StartDelivers ==
    (trouble = {} /\ phase = "schedule" /\ mode = "start")
        ~> ((\A t \in Required : LatestState(t) = "integrated") /\ sent = 1)

\* A run of the Bridge comes to an end, and to the one asked for where nothing goes wrong.
RunDelivers == RunEnds /\ StartDelivers

=============================================================================
