# Agent Room in TLA+

TLA+ specifications of the execution core of Agent Room (`coding-room`) and of its
GitHub bridge, the TLC configurations that check them on small instances, and proofs of the
properties that matter most for every value of the constants.

Source paths are written relative to the repository root (`src/room/...`).

## 1. The system

Agent Room coordinates coding agents through one SQLite database per project.
A planner, reviewers and users write through an MCP server (`room serve`); a
local *executor* claims a Run, starts a Claude process in a git worktree, and
settles what came of it; the desktop UI starts executors and shows snapshots. A
plan graph schedules many Runs, a Git controller performs approved git actions,
and a separate GitHub bridge drives Codex workers from issues.

| Component | State it keeps | Operations | Talks to |
|---|---|---|---|
| Run lifecycle (`room/room-service.ts`, `repository.ts`, `state-machine.ts`) | `rooms.state`, `tasks`, `runs`, `run_attempts`, `questions`, `reviews`, `run_guidance` | planning transitions, `submitTask`, `claimRunAttempt`, `askQuestion`, `settleRunAttempt`, `answerQuestion`, `submitReview`, `acceptReview`, `retryRun`, `cancelRun`, `addRunGuidance` | one `BEGIN IMMEDIATE` transaction per operation; called from several OS processes |
| Local executor (`runner/executor.ts`, `worker-adapter.ts`, `claude-process.ts`, `git/git-observer.ts`) | one asynchronous function with a poll timer and a child process | gate, claim, spawn, poll, collect, re-read, settle | Room Service (several transactions), child process, git |
| Claude stream (`runner/claude-stream.ts`) | events seen, first failure | `acceptLine`, `finish` | fed by the child's stdout |
| Launchers (`ui/application.ts`, `cli/run.ts`) | launches in progress (memory only) | `startRun`, `runRoomRun` | executor |
| Plan graph (`room-service.ts`, `scheduler/plan-scheduler.ts`) | plans, revisions, approvals, dispatches | create, revise, decide, reconcile; extra conjuncts in claim, settle, accept | Run lifecycle, Git actions |
| Git actions (`room-service.ts`, `git/git-controller.ts`) | `git_actions`, the event cursor | preview, decide, reserve, settle, reconcile | git processes, dispatches |
| Participants and assignments (`room-service.ts`) | profiles, role assignments | register, enable, assign, resolve | authority check of every operation |
| Snapshot and status (`room/state-snapshot.ts`, `cli/status.ts`) | none | read | all tables |
| MCP transport (`mcp/*.ts`) | none | one tool per service operation | Room Service |
| UI server, registry (`ui/*.ts`) | project registry file | HTTP routes | launchers, snapshot |
| GitHub bridge controller (`tools/codex-github-bridge/controller.mjs`, `scheduler.mjs`, `github.mjs`, `git.mjs`, `codex-*.mjs`) | nothing of its own: comments and labels of a Stage's pull request, task branches and the Stage branch, local worktrees | `load`, `prepareExecution`, `start` and `run-once`, `launch`, `processResult`, `finishIfComplete` | GitHub, git, Codex Workers, the Stage workflow |
| GitHub bridge lifecycle (`lifecycle.mjs`, `structured-records.mjs`) | records in comments, prepared commits, labels, `main` | `record-review`, `record-acceptance`, `prepare-fix`, `close-stage` | GitHub, git, the Stage workflow |
| Stage workflow (`.github/workflows/codex-supervisor-dispatch.yml`, `.github/scripts`) | handoffs and labels on the pull request | answers to a push, a candidate, a ready Stage | events of GitHub, one at a time per Stage |
| Supervisor-only controller, bootstrap (`controller.mjs`) | none | dry load, one-shot handoff | GitHub |
| Workflow scripts, plugin setup, desktop shells, frontend | files, windows | one-shot | the above |

What is hard in this system:

- **Several writers.** Each operation is atomic, but the executor is a sequence
  of transactions with awaits between them, in another OS process than the
  planner's writes. What it has read may be stale at every step: the Task it read
  before the worktree gate, the attempt it re-read before settling.
- **Redundant rows.** `Run.status`, `RunAttempt.status`, `Question.status` and
  `RunGuidance.consumed_by_attempt_id` are written by different operations and
  must tell one story after any number of retries, answers, Fixes and cancels.
- **Leases.** The worktree is claimed by a value in a row, frozen for the whole
  lineage of a Run, and freed only by acceptance; the guard is a partial unique
  index and not a lock.
- **Processes.** A worker may outlive its executor, its question may reach the
  service after it has exited, its prompt may fail to be written, and `kill()` is
  a request only.
- **Repeated commands.** Each operation is idempotent by ID; callers must look at
  whether something has been created.
- **Crashes.** Nothing recovers an attempt whose executor has died. The Bridge rebuilds all
  it knows from comments and Git, so that the order of a comment, a Worker and a push decides
  what a crash between them can do.
- **Unknown outcomes.** A push, a comment or a label may be made and its answer lost. The
  Bridge observes again, and must neither repeat what happened nor record what did not.
- **Events that replace each other.** The workflow of a Stage runs one event and keeps the
  latest waiting one, while the Bridge, a person and other pushes go on.

What makes the components correct:

| Component | Properties |
|---|---|
| Run lifecycle | the Run and its latest attempt agree; at most one active attempt; a worktree has one open Run; terminal outcomes are final; acceptance rests on a current, blocker-free Review; guidance reaches the next attempt once; questions follow their attempt |
| Executor | a live worker belongs to an active attempt in the worktree of its Run; two workers never share a worktree; success is earned by a closed process and the right Task; settlements are taken; cancels are carried out |
| Plan graph | dependencies complete before a node starts; concurrency limit and write scopes respected; amendments leave dispatched nodes alone; accepted work is in scope |
| Git actions | executed at most once, only as approved, on the state that was previewed |
| Bridge | a dispatch has one Worker; overlapping tasks never run side by side; what is recorded as integrated is on the Stage, once and behind what it needs; a Stage is announced whole, and once; a run ends and settles what it dispatched |
| Bridge lifecycle | only an accepted commit becomes `main`; a closure leaves its traces in order; confirmations, rounds, preparations and commits correspond; a dispatched fix was authorized; repeated commands complete what is half done; a command that has written never says it has not |

`PROJECT.json` lists the hazards with their lines and the properties that would
catch them; section 6 adds the stalls that no property speaks of.

## 2. Modules

| Module | What it is |
|---|---|
| `RunLifecycle` | the Room Service: six variables, one action per operation |
| `WorktreeLease` | the abstract promise about worktrees: lease, start, stop, release |
| `MCRunLifecycle` | instances of `RunLifecycle` |
| `RunLifecycleProofs` | types, row shapes, agreement of Runs and attempts |
| `HistoryProofs` | final outcomes, reviews, guidance, questions, the lease, apartness of workers, refinement of `WorktreeLease` |
| `Executor` | executions of `LocalExecutor.execute` over `RunLifecycle`, worker processes, launchers |
| `MCExecutor` | instances of `Executor` |
| `ExecutorProofs` | an execution is a behaviour of the Room Service; workers, worktrees and success |
| `WriteScope` | write scopes of `plan-scheduler.ts`: paths, containment, overlap |
| `TaskGraph` | task graphs of `plan-scheduler.ts`: ancestors, validation, maximal predecessors |
| `MCTaskGraph` | all small graphs and pairs of scopes |
| `PlanGraph` | the plan of a Room over `RunLifecycle` and `TaskGraph` |
| `MCPlanGraph` | instances of `PlanGraph` |
| `PlanProofs` | write scopes, task graphs, and every property of a plan |
| `GitActions` | the Git Controller over `PlanGraph` |
| `MCGitActions` | instances of `GitActions` |
| `GitProofs` | actions run once as shown; branches are one lineage that holds the completed work |
| `Bridge` | the Local Codex Bridge over all its runs on one Stage, its Workers, the Stage's pull request, branches and workflow |
| `StageLedger` | the abstract promise of the task events and the Stage branch |
| `MCBridge` | Router Contracts and mixtures of troubles for `Bridge` |
| `BridgeProofs` | scheduling and Workers: the inductive invariant `Sound` and what follows from it |
| `StageProofs` | integration: `Delivered`, the refinement of `StageLedger`, announcement, bases, types |
| `BridgeLifecycle` | review, fix, acceptance and closure of a Stage, and the workflow that answers |
| `MCBridgeLifecycle` | instances of `BridgeLifecycle` |
| `LifecycleProofs` | authority of a closure and of a fix, preparations, readiness, reports |

`GitActions` EXTENDS `PlanGraph`, which EXTENDS `RunLifecycle` and `TaskGraph`; `Executor`
EXTENDS `RunLifecycle` beside them. The bridge shares no state with the Room, and its two
modules are two phases of one Stage: `Bridge` ends with the candidate that `BridgeLifecycle`
starts from, and a run of `Bridge` over fix tasks is one step (`IntegrateFix`) there.

### RunLifecycle

Every public method of `RoomService` runs in one transaction that rolls back on
error, so each is one action and a refused or repeated command is a stutter. The
state is the tables:

| Variable | Rows |
|---|---|
| `room` | `Room.state` |
| `run[r]` | `runs.status`, `runs.worktree_path`, and the latest Task of the Run (0 for its Implementation Task, k for its k-th Fix) |
| `attempt[a]` | `run_attempts`: status, Run, number, Task, worktree, result, presence of a failure and of an agent session |
| `question[a]` | status of the Question of the attempt. An attempt can ask once: asking takes it out of `running` for good |
| `review[a]` | most severe finding of the Review of the attempt. Only the latest attempt can be reviewed, and only in `review_required`, so an attempt has one Review at most |
| `guidance[g]` | Run and consumer of a `RunGuidance` |

The three transition tables of `state-machine.ts` are constants of the module
and guards of the actions, as `resolve*Transition` is in the code.
`ClaimRunAttempt` contains everything claim does: checks, attempt number, frozen
worktree, consumption of all pending guidance and the status of the Run.
`SettleRunAttempt` takes whatever status, result and failure a caller may pass,
overrides the status with `canceled` when a cancel is recorded, and admits the
payload by `IsCanonicalPayload`. Data are abstracted to what these guards tell
apart: findings to *clean*, *minor* or *blocker*; a CodingResult to its status
and Task; text, timestamps, Git evidence and artifacts are left out.

Definitions marked *Faulty* are variants of the definition that follows them
with a plausible mistake. No action uses them; they document which mistake each
property excludes.

### Executor

An execution is a program counter with the values read so far:

    idle -> observing -> ready -> working -> collecting -> settling -> done
                 \          \                                  \
                  refused    refused                            rejected

| Action | Code |
|---|---|
| `StartRun`, `RunRoomRun`, `Begin` | `startRun`, `runRoomRun`, head of `execute` up to its first await: Run, Task and latest attempt are read |
| `WorktreeGate` | clean worktree for a first attempt, the lineage's worktree for any other |
| `ClaimAndSpawn` | session check, claim, spawn: one synchronous stretch. A repeated claim returns the stored attempt and the execution goes on |
| `StartRefused` | every throw between gate and spawn |
| `Work`, `Ask`, `ReceiveQuestion`, `QuestionLost` | the worker edits files and calls `room_ask_question`; the request is in flight |
| `Poll` | the timer sees `cancel_requested` and sends SIGTERM |
| `Close`, `InputError`, `OrphanEnds` | `close` of the child; stdin error; end of a child nobody waits for |
| `CollectAndReread`, `Settle`, `SettleChangesNothing` | evidence and artifacts, re-read, classification, settlement and its ways to change nothing |
| `Crash` | the UI's process dies with all its executions, or one `room:run` dies; workers survive |
| `CleanUp` | somebody commits or discards the changes of a worktree |
| `Steer` | any command of planner, reviewer or user, between any two steps |

The outcome of a process and its stream is one of *completed*, *blocked*,
*needs_decision* (a valid CodingResult after exit 0), *interrupted* (a signal or
a failed progress callback) or *failed*. The interpreter rejects a CodingResult of
another Task than the executor has read, so a result always names that Task.

The variable `trouble`, fixed in a behaviour, says which of five troubles it meets: `cli`
(`room:run` by hand, with any IDs), `crash`, `stdin` (prompt cannot be written),
`late` (a question reaches the service after its worker has exited) and `again` (the UI is given
the `attempt_id` of an earlier start, which its POST takes as it is, `application.ts:225`, `:243`).
The constant `Troubles` lists the mixtures of an instance. What a process may rely on depends on who
starts it, and `WorkerHoldsWorktree` says so part by part:

| Promised | When |
|---|---|
| the attempt of a live worker is of its Run | always |
| its Run is not accepted and leases its worktree, which no other worker shares | `Orderly`: the UI is the only launcher, and no executor dies where attempt IDs are used again |
| its attempt is active | `FreshIds`: besides, no attempt ID is used again |

`Orderly` and `FreshIds` are as weak as the code allows. A repeated ID takes the same-ID path of the claim and
starts a worker for a settled attempt (`executor.ts:165`). When the UI's process dies with
it, nothing on record tells of that worker: its Run is ready, and the next start puts a
second one into its worktree; or is accepted, and its worktree goes to another Run.
Both were found by TLC with three invocations.

### WriteScope and TaskGraph

Pure definitions, without state. A path is the sequence of its components, so
"below" compares whole components as the code does when it appends the `/`. A
graph is a record of nodes, dependencies, scopes, limit, policy and integration
nodes. The recursion of `dependencyAncestors` is written as a least closed set,
which keeps the modules usable for proofs. Uniqueness of identifiers holds by
construction; priorities order what one transaction inserts and nothing else.

### PlanGraph

| Variable | Rows |
|---|---|
| `revision` | `task_graph_revisions` in order, each with its `plan_revision_approvals` decision (`draft` while there is none) |
| `dispatch[n]` | `node_dispatches`: status, worktree, scope violation, revision that dispatched |
| `evidence[a]` | changed paths of `run_attempts.git_evidence`, of succeeded attempts |
| `decision[a]` | decision of the Review of an attempt |

A node's `task_spec` fixes its `run_id`, and both are unique in the dispatch table, so a
node *is* its Run. A Room has one plan. Implementation Tasks enter through the plan only,
as `room_submit_task` takes Fix Tasks only.

| Action | Code |
|---|---|
| `CreatePlanRevision`, `DecidePlanRevision` | `createPlanRevision`, `decidePlanRevision` with `validateTaskGraphRevision`, `assertAmendmentImmutable`, `assertNoUnorderedScopeOverlap` |
| `ReconcilePlan` | `reconcilePlan`: policy acceptance of components, then insertion of eligible nodes, then the worktree index over the whole table, one transaction |
| `GraphClaimRunAttempt` | claim with `assertGraphClaim`: approved revision, node unchanged, limit, overlap |
| `GraphSettleRunAttempt` | settlement with `applyScopeProjection` |
| `GraphSubmitReview`, `GraphAcceptReview` | review with its decision; acceptance with the conjuncts of dispatch and policy |
| `Ungraphed` | the operations of `RunLifecycle` to which a plan adds nothing |

The mapping of `ReconcilePlan` is the worktree the orchestrator names for some nodes; nodes
without one wait for the Git Controller. `submitTask` for Implementation Tasks is the only
action of `RunLifecycle` that `PlanGraph` replaces.

### GitActions

| Variable | What it is |
|---|---|
| `action` | `git_actions`: preview (operation, node, revision, facts shown) and status |
| `cursor` | which action's own preview or decision is the last event of the Room; 0 for any other event. The code compares event sequence numbers; all that is told apart is whether they are equal |
| `call[c]` | where a call of `GitController.execute` is, in the memory of its process |
| `tip`, `dirty` | the repository, external: the nodes whose work a branch contains, and the uncommitted paths of a worktree |

A call of `execute` goes `idle -> observed -> git -> done | refused -> idle`, with an await at each
arrow: `ObserveAgain`, `ReserveGitAction` (committed before git starts), `RunGit`,
`SettleGitAction`. `EndCall` is a crash or a refusal at any of these points.
`RunGit` lets git do its work and report a failure, do its work and report success, or do nothing and
report a failure. `ReconcileGitAction` declares an action lost while its call may still be at work.
`EditWorktree` changes a worktree without an event; `OtherEvent` is any event without an effect on
this state; `PlanStep` is every operation of `PlanGraph`, and settles an attempt with the live paths of its
worktree. In this module all worktrees come from the Git Controller (worktrees
named by hand are in `PlanGraph`), and a worktree has the branch of its name.

### Bridge

| Variable | What it is |
|---|---|
| `router`, `trouble` | the accepted Router Contract and what goes wrong, both fixed in a behaviour |
| `event[t]`, `mapping[t]` | the Bridge's task events in comments, and what `task_integrated` records |
| `handoff`, `label`, `candidate`, `verified`, `sent` | the rest of the pull request: latest handoff, labels, candidate comments, answers to them, `repository_dispatch` calls |
| `workflow` | the concurrency group of the Stage's workflow: at most one event running and one waiting |
| `stage`, `branch[t]`, `tree`, `clean`, `work[t]` | the Stage branch on origin, task branches, the local Stage branch and whether its worktree is clean, task worktrees |
| `phase`, `mode`, `base`, `status`, `job[t]`, `verdict[t]` | the memory of one run: where `run()` stands, and how far its work on each task has come |
| `alive`, `started[t]`, `runs` | Worker processes, the commands they were started under, and how many runs there have been |

A Stage SHA is the number of commits on the Stage, a candidate commit the Stage SHA it starts from: all
that the checks compare. A run is

    off -> schedule -> wait -> process -> schedule -> ... -> drain -> settle -> finish
        -> commented | refound -> labelled | relabelled -> off          (failing -> off on an error)

and the work on a task

    launching -> based -> announced -> working -> ended -> batched -> accepted -> verified -> committed
        -> gated -> approved -> pushed -> picked -> staged -> idle

with `settling` for a refusal and `rejected` for a launch that has thrown.

| Action | Code |
|---|---|
| `Load` | `load`, `prepareExecution` with `latestTaskStates`, `validateRouterHandoff`, `revalidateRecoveredIntegration` |
| `ScheduleStart`, `ScheduleOnce`, `Collect`, `CollectAll`, `ThrowRejected`, `BatchDone` | `runStartSchedule`, `runOnceSchedule`, `computeReadySet` of `scheduler.mjs` |
| `EnterWorktree`, `FailModel`, `FailWorktree`, `Announce`, `FailAnnounce`, `StartWorker`, `EndWorker` | `launch`: the preflight, `task_dispatched`, the Worker |
| `ThrowUncertain`, `Refuse`, `AcceptResult`, `Verify`, `CommitCandidate`, `MechanicalGate`, `Supervise`, `PushTask`, `CherryPick`, `PushStage`, `PublishIntegrated`, `PublishRefusal` | `processResult`, one action per await |
| `Finish`, `ProjectLabels`, `DispatchCandidate` | `finishIfComplete`, `publishCandidate` |
| `ExitFailed`, `Crash`, `EndOrphan`, `RepairWorktree` | the end of a failed run, a crash, the end of a Worker that outlived its run, the operator's repair |
| `AnswerPush`, `AnswerCandidate` | the jobs of the workflow, modelled from the YAML |

The troubles are `crash`, `publish` (a comment or label fails or its answer is lost), `worker` (a result
that is not ready, or an uncertain outcome), `checks`, `model`, `push`, `conflict` and `workflow`.

`StageLedger` knows only prerequisites, what the events record of each task, and the Stage: a task is
dispatched once, on integrated prerequisites; only dispatched work reaches the Stage, once and behind
what it needs; only what is there is recorded as integrated; and an end is final. `KeepsLedger`
maps `LatestState` onto its ledger.

### BridgeLifecycle

Git is `commit` (all prepared commits and their parents), `stage` with the `heads` it has been at, `main` with the commits that `landed` there,
and the local worktree. The pull request is a set of `records`, labels, draft state and open state;
`queue` is the workflow's concurrency group, and `failed` has the commits at whose push the workflow failed before it took readiness back. A command is `cmd` with its next write in
`step`, its `input`, and the code's own `mutationObserved` in `seen`, beside what has really been
written in `wrote`.

Every write goes through `Mutation`, which is `runObservedMutation`: it may find its effect there, make
it, fail before it, or end with its outcome unknown, made or not. `Publish` adds the
identity and conflict rules of records. A command is a `Begin` with the checks it makes first, then its writes
in order:

| Command | Writes |
|---|---|
| `RecordReview`, `RecordFixAcceptance`, `RecordStageAcceptance` | `PublishRecord` |
| `PrepareFix` | `OpenRound`, `Materialize`, `RecordPreparation`, `PushPrepared` |
| `CloseStage` | `PushMain`, `RecordClosed`, `CreateRepoLabel`, `ProjectTerminalLabels`, `ClosePullRequest` |

`Crash` ends a command between any two. `Dispatch` is the batch gate of `start`, `IntegrateFix` and
`AnnounceCandidate` its result. `Invalidate`, `OpenAnother`, `PublishDispatchReady`, `VerifyPrepared`,
`HandOverFix`, `VerifyCandidate`, `HandOverReview` and `ConfirmReview` are the jobs of the workflow, event by event.
`DisturbStage`, `DisturbMain`, `NoticeMerge` and `ResetWorktree` are other users of Git and
GitHub; `CalmDown` is the moment after which nothing goes wrong.

The troubles are `blind` (a read before a write fails), `lost` (the outcome of a write is unknown), `crash`, `reset` (the
operator resets the worktree at any time), `replace` (a caller gives a round another preparation identifier than
the recorded one), `stage` and `main` (somebody pushes there), `workflow` and `merge`. Under `workflow` every job may fail,
at any of its steps, and its event is gone: the one that answers a push may fail at the checkout, at `gh pr list`, at
`ready --undo` or at `remove-label`, with the pull request a draft or not and still labelled, and
later, at the selection of the Router, with the label gone.

Modelling decisions. `prepare-fix` compares the identifiers of preparations only where the prepared commit is on the Stage
(`lifecycle.mjs:383`), where it has nothing left to write; before that a caller's identifier stands (`:371`), so that
`replace` is what callers do, and without it they name the recorded preparation or none. The `closure_id` of a closure is
taken to be that of its authorization: a caller that repeats `close-stage` repeats it. `Materialize` leaves out the creation
of the Stage worktree, which the Bridge has made for the candidate. The jobs of a handover write a comment, the
state of the pull request and its labels in one step, or a prefix of them when they fail. One commit stands for all tasks of a fix that a run integrates. The authorization of a
closure is given by a person for any acceptance on record. `close-stage` asks a host for its approval before it
pushes `main`; the command line never supplies one, the model does, as the tests do. A push to a
closed pull request's Stage opens another pull request.

## 3. Runs

| Run | Configuration | Shows |
|---|---|---|
| `core` | `MCRunLifecycle.cfg` | the type invariant, safety invariants and action properties of `RunLifecycle`; that it implements `WorktreeLease` |
| `executor` | `MCExecutor.cfg` | processes stay with their attempt and worktree, under crashes and late questions; guidance reaches the next attempt, once; success is earned in spite of executions started by hand with any IDs, of Fix Tasks that arrive while they start, and of prompts that cannot be written |
| `executor_live` | `MCExecutorLive.cfg` | settlements are taken and cancels carried out |
| `task_graphs` | `MCTaskGraph.cfg` | overlap, validity and maximal predecessors agree with their reference definitions |
| `plan` | `MCPlan.cfg` | dispatch and Run tell one story, active scopes are apart, the limit holds, accepted work is in scope; nothing runs unapproved or ahead of its dependencies; amendments leave dispatched nodes alone |
| `git` | `MCGit.cfg` | an action runs git at most once, as it was shown; branches are one fast-forward lineage, and the target gets all of it |
| `bridge` | `MCBridge.cfg` | the safety of the Bridge over several of its runs and under every kind of trouble; that it implements `StageLedger`; that a run left alone delivers or stops |
| `lifecycle` | `MCBridgeLifecycle.cfg` | only accepted, authorized work becomes `main`, whatever is lost, repeated or done by others; repetition completes what was half done |
| `late_question`, `lost_prompt`, `second_worktree`, `stale_base` | `MCLateQuestion.cfg`, `MCLostPrompt.cfg`, `MCSecondWorktree.cfg`, `MCStaleBase.cfg` | disagreements of code and documents (section 5) |

A property with a name like `WorktreesApart`, `HistoryIsKept` or `LineageIsWhole` is the conjunction of
several named parts, which say one thing about the system together; the parts are defined
just before it, each with its own comment, and TLC names the part that fails.

**Bounds.** `core` has two Runs, three attempts, two worktrees and one Fix (`MaxFix`). Two Runs and
two worktrees are what it takes to compete for a worktree and to
choose another one; three attempts are what it takes for one Run to fail, succeed and be
fixed, or for one Run to be retried beside another. `MaxAttemptNo` never cuts
before the attempts run out. The executor instances have two
executions: every hazard of this module is between one execution and one
other, or between one execution and the planner. `executor` has five mixtures of troubles: crashes and
late questions, with two Runs that compete for one worktree and one item of guidance, which can be
consumed, retried past and (wrongly) consumed again, or handed to the other Run; attempt IDs that are used again, alone
and with crashes; executions by hand; and lost prompts. The last four are about one lineage and have one Run and no guidance, and
the last two a clean worktree (`SceneSpec` in `MCExecutor`). Two executions are enough for a worker of
a settled attempt; what a third one adds is what `Orderly` excludes (section 2). It reaches 4,641,507 states. Symmetry is used for identities in runs without liveness
properties only.

`task_graphs` enumerates every graph of three nodes (three is the least number with a
transitive dependency, a diamond's half and a cycle through another node) and every two
sets of up to two scopes of depth two over two names.

`plan` chooses at the start between two instances (`PlanSpecApart` in `MCPlanGraph`). One executes the first approved
plan, out of five, each for another reason why two nodes may or may not work at once, with three
attempts and a Fix: enough to leave the scope, to be fixed into it, and to leave it again. The other amends:
three revisions, so that a draft can be rejected between two approvals, and
one attempt, so that one node can be completed under another one.

`git` has two instances as well (`LineageSpec` in `MCGitActions`). `OneNode` is one node alone, a
component or the integration node, with up to three actions, which is the whole way of the latter from
worktree to integration, and two concurrent calls, which may bind a second worktree to it. `Lineage` has two
nodes and four actions, one less than its whole way takes with every commit (a worktree and a commit for
each node, and the fast-forward); the integration node may add nothing of its own, and then four actions reach
the target. `Lineage` has one call at a time and one worktree approved for a node: what overlapping calls and
second worktrees do is in `OneNode`, and the theorems of section 4 put no bound on either. To afford
two nodes both leave out what only multiplies states
(`Undisturbed`): once the plan is approved its planner rests, attempts
succeed without a question, Reviews approve without findings, and previews go stale instead of
being rejected. Failed, lost, repeated and reconciled actions, edits and other events
stay. It reaches 439,226 states.

`bridge` has six Router Contracts of two or three tasks: side by side, in overlapping paths, one above the other (with
its prerequisite before or after it in the order of the tasks), a join, and a third task in the way of the first. Three runs
are a run that crashes, one that recovers, and one that meets what the recovery left. The seven
mixtures of troubles are nothing, each kind of trouble, and the pairs that meet in a crash. Both modes
are taken. It reaches 220,513 states.

`lifecycle` has two confirmations, four bundles of identifiers (a confirmation repeated, one given another
preparation, one given another round, another confirmation), two reviews, an acceptance, an authorization and four commits (the candidate, two fixes and a
commit of somebody else). A round takes a review and a confirmation, so that two rounds can follow each other,
or race with identical or different identifiers. The six mixtures of troubles put each kind beside one
it meets: a lost answer before a crash, a reset or another identifier; somebody's push to `main` before a read that fails; a
workflow that fails, and a merge. Where the worktree is reset one solution is confirmed (`SceneSpec` in `MCBridgeLifecycle`). It
reaches 605,040 states.

Deadlock is not checked where identities run out: nothing obliges a person to go on.

**Fairness.** `executor_live`: the event loop of a live executor runs its poll
timer and its continuations, so `Poll`, `CollectAndReread` and `Settle` are weakly
fair; a child that was sent SIGTERM closes, so `KilledChildCloses` is. Nothing
makes a worker finish by itself, a person act, a question arrive or a crash
happen. That instance has no crashes, since nothing recovers an attempt whose
executor has died; no second starts; and no late questions, which break a
settlement (section 5). Without these a cancel is always carried out.

`bridge` and `stale_base`: a run that has begun goes on and its Workers end, and GitHub runs the workflows it has accepted; both are
weakly fair as a whole. Nothing makes an operator begin a run or repair a worktree, and no trouble
is fair. `lifecycle`: a command that has begun makes its next write or reports; nothing makes anybody give
or repeat a command, and `RepetitionHeals` speaks of commands that go on after everything has calmed down, and not of a `main` that others
moved nor of a pull request that GitHub took for merged (section 6).

## 4. Proofs

Every safety property, action property and refinement that a passing run checks is also proved,
for every value of the constants: any number of Runs, attempts, worktrees, tasks, concurrent
calls, commits and restarts, any task graphs and Router Contracts, any mixture of troubles. The
constants are only assumed to be what the code makes of them:

| Assumption | Says |
|---|---|
| `NoneAssumption` (`RunLifecycle`, `BridgeLifecycle`) | NULL is not an identity |
| `BoundAssumption` (`RunLifecycle`, `Bridge`), `CommitAssumption` | bounds are naturals; a Router Contract has finitely many tasks; there is room for the candidate |
| `PlanAssumption` | the nodes of a task graph are Runs, its limit is positive, and its scopes are paths of names, as the schema has them |
| `GitAssumption` | the target branch is no worktree's branch, a set of nodes is not NULL, and what is left of a change is a change or nothing |
| `TroublesAssumption` | a mixture of troubles is made of the five there are |
| `RouterAssumption` | what a normalized Router Contract guarantees: tasks depend on tasks of the Stage, and prerequisites come first in some order |
| `BundleAssumption` | a bundle is made for a confirmation; which round and preparation identifier a caller gives with it is free |

Each proof builds an inductive invariant in layers, every one proved once and used by the next.

### The Room Service (`RunLifecycleProofs`, `HistoryProofs`)

1. `TypeOK`.
2. `Rows`: attempt numbers are distinct within a Run; every attempt has the worktree
   of its Run; a row not inserted is empty; a Run not inserted has nothing. Without
   it "the latest attempt" need not be unique.
3. `Coherent`: `RunFollowsLatestAttempt` and `OneActiveAttempt`. They need each
   other: a claim is safe because a ready Run has a settled latest attempt, and a
   settlement reaches the right Run status because the settled attempt is the latest.
4. `Reviewed`, `GuidanceInv`, `QuestionInv`: reviews belong to succeeded attempts
   and never to later Tasks than the Run's; pending guidance; questions.
5. `WorktreeLeaseUnique` and from it `ActiveAttemptsApart`, which follows from the
   lease, the frozen lineage worktree and the single active attempt together.

### The executor (`ExecutorProofs`)

Every step of the executors, their workers and the launchers is a step of the Room Service or leaves it
alone (`ExecutorsKeepTheService`), so that every layer above holds under them. Then, each for the steps of one
execution and of everybody else:

1. `ExecutorShape`: what an execution must have read at each program counter.
2. `Placed`, under every combination of troubles: the attempt of a worker is one of its Run, in its worktree, whether the claim has made or found
   it. From it `Held`: uncommitted work lies in the worktree of its Run, for good.
3. `Governed`, what holds of the UI's executions and under which troubles. `Launched`, always: a Run has one live
   execution at most, and is ready until that one claims. `Owned`, where no ID is used again: no two executions have one attempt ID, one that
   has not claimed yet has an ID that nobody has claimed, and the attempt of a live worker is active. `Attended`,
   where no executor dies: a worker works for an active attempt, or for a settled one while its Run stays ready, so that
   its Run has no other execution and is not accepted. `Orderly` is the union of the last two cases, and from
   either of them, `Placed` and `WorktreesApart`, `WorkerHoldsWorktree`.
4. `Earned`, under every combination of troubles: an attempt that succeeded has an execution that read its Task, and whose
   child was gone before it collected a valid result.

### Plans (`PlanProofs`)

The overlap test and the validation of task graphs are pure functions, and their theorems take any scopes and
any finite graph. Three run properties of `task_graphs` are stated over the constants of that run, `MaxDepth` and `Node`; their theorems
assume only that the one is a natural and the other is finite.

1. `PlanTypeOK` and `PlanRows`: the layers 2, 3 and 5 of the Room Service, and that a dispatched node and an inserted Run
   are the same thing, in an approved revision. Actions of `PlanGraph` are not steps of `RunLifecycle` (a plan is the only
   origin of Implementation Tasks), so these layers are proved again for them, most through the lemmas of those steps.
2. `AmendmentKeepsDispatched`, over `Founded` (attempts have Runs, Runs dispatches, dispatches approved revisions): a
   dispatched node is the same in every later revision as in its own, and so are all nodes before it. It carries
   what was true of the dependencies when a node was inserted over every amendment that follows. From it
   `DependenciesComplete`.
3. `Stories`: the status of a dispatch follows its Run; its violation is recorded exactly while its last success left
   paths out of scope; and a Run that has no Fix yet has no success behind it until that one is reviewed, without which
   a retry could hide a violation. From it `DispatchFollowsRun` and `AcceptedWorkInScope`.
4. Side by side: no path a change may have lies in the scopes of two nodes that are worked on, in the revisions
   they were dispatched from (`Apart`), and the active attempts are finitely many (`WorkIsFinite`), so that they can be counted. From
   it `WorkSideBySide`.

### The Git Controller (`GitProofs`)

1. `GitShape`: types; `CallsInOrder`, which state of an action a call at each of its points can find (with several calls an action
   may be *lost* under a call that is still at work); changed worktrees and sources have branches.
2. `PreviewStands`: while a preview, or its approval, is the last event of the Room, the Room would admit it afresh. It is the whole
   purpose of the cursor. From it and `CallsInOrder`, `ExecutedOnceAsShown`.
3. `Consent`: `Founded` holds under the Git Controller too, amendments keep the policy of what is dispatched, and an action names a node that was
   dispatched in a revision it was in. `Branches`: an action starts from a branch with all work before
   its node, and a success leaves it in its target.
4. `Settling`: whoever decides on a Run has the Review of its latest attempt (`AttemptRows`); git creates a worktree once, and
   an attempt works in one that was created for its Run (`Creators`).
5. `Kept`: `CommitsStand`, what a commit was reserved for stays true until it is settled: its Run is accepted, and its
   worktree is that of the dispatch, unless another was bound to it after its attempts; `CompletedIsDone`, a component
   is completed by a commit, and an integration node without one has changed nothing; `SourcesHoldWork` and
   `TargetsHoldWork`, the same for the fast-forward. They are what remains
   of the checks of `reserve` when `settle` comes, with any operation of the Room in between.

### The Bridge (`BridgeProofs`, `StageProofs`)

1. `Sound`: the shapes of the variables (`Shape`), the work on a task is no further than its
   events say (`JobFollowsEvents`), what stands at each phase of a run (`PhaseOfJobs`), and `Apart`, that the tasks
   which may have a Worker do not overlap. The last one is what the scheduler computes from
   the events alone, so that it survives a restart only together with the second. From it `WorkersApart` and
   `RunSettlesItsTasks`.
2. `Delivered`, over `Sound`: the Stage on origin is a prefix of the local Stage and holds no task twice (`GitShape`);
   one task at a time is between acceptance and record (`OneStep`); and where the work of that task is at
   each step (`Course`). From it `IntegrationIsDelivered` and the refinement `KeepsLedger`.
3. `Announcement`, over `Delivered`: a label or a candidate means a whole Stage that stands still. From it `AnnouncedOnce`.
4. `AllPrepared`, over `Delivered`: under `run-once` the Stage does not move between `load` and the last launch, so that the base
   of a task holds its prerequisites. From it `RunOnceHasPrerequisites`. Under `start` it does move, and the run
   `stale_base` refutes the same property there.
5. `BridgeTypeOK`, over `Delivered`: the bound on the Stage is the number of tasks, which is why a type needs the
   invariants: no task is twice on the Stage.

### The lifecycle of a Stage (`LifecycleProofs`)

A command checks the records when it begins and writes when others may have moved the Stage, `main` or the records. Each
invariant therefore says what a command may still rely on at each of its steps, and has one lemma per
command and one for all others (`Others`).

1. `Shape`: types, and the input a command has at its step (`CommandForm`).
2. `Observed`: a command that has written knows that it may have. From it `ReportIsHonest`.
3. `Closing`: the acceptance and authorization a closure began with are on record for the commit it pushes, and the traces it
   leaves are there from its later steps on. From it `ClosureIsAuthorized`.
4. `Preparing`: `Identified`, `Derived` and the step of a `prepare-fix` (`PreparingOf`): the round, the commit and the
   record of a confirmation exist from the step on that makes them, for this command or one that went before. Whatever identifiers
   callers give, a confirmation has one round and a commit is prepared for one round; that a round has one
   preparation holds only while callers name the recorded one (without `replace`). From it `PreparationsAgree` and `FixIsAuthorized`.
5. `Readiness`: the events of the workflow are in the order of the Stage (`EventsInOrder`), and *ready* was said of the last
   Stage that none of them has still to answer, unless the workflow failed on its push, which is then in `failed` for good. From it `ReadyIsReviewed`.

### Theorems

| Theorem | Property |
|---|---|
| `TypeCorrect`, `PlanIsTyped`, `GitIsTyped`, `TypesAlways`, `LifecycleIsTyped` | `TypeOK`, `PlanTypeOK`, `GitTypeOK`, `BridgeTypeOK`, `BridgeLifecycleTypeOK` |
| `RowsConsistent`, `RunAndAttemptsAgree` | layers 2 and 3 of the Room Service, `Coherent` with its parts |
| `AcceptedReviewed` | `AcceptedWorkIsReviewed` |
| `HistoryKept` | `HistoryIsKept`, from `OutcomeFinal`, `ReviewFixed` and `LineageNeverMoves` |
| `GuidanceDelivered` | `GuidanceIsDelivered`, from `GuidanceReaches` and `GuidanceOnce` |
| `QuestionFollows` | `QuestionFollowsAttempt` |
| `WorktreesApartAlways` | `WorktreesApart`, from `LeaseExclusive` and `ActiveAttemptsApartAlways` |
| `LeaseImplemented` | `ImplementsWorktreeLease` |
| `ExecutorsKeepTheService` | an execution is a behaviour of the Room Service |
| `WorkersHoldWorktrees`, `UnacceptedWorkHeld`, `SuccessEarned` | `WorkerHoldsWorktree`, `UnacceptedWorkIsHeld`, `SuccessIsEarned` |
| `OverlapExact`, `OverlapsAreSharedPaths` | two sets of scopes overlap exactly when some path lies in both, for paths of any depth; `OverlapIsSharedPath` |
| `ValidGraphsHaveOrder`, `GraphsHaveOrder` | a finite valid graph can be worked off; `ValidGraphHasOrder` |
| `OneBranchToContinueAlways`, `GraphsHaveOneBranch` | a line of components leaves one branch to continue; `OneBranchToContinue` |
| `PlansKeepTheService`, `StoriesHold` | layers 1 and 3 of a plan |
| `AmendmentsKeepDispatched`, `OnlyApprovedRuns`, `DependenciesAreComplete` | `AmendmentKeepsDispatched`, `OnlyApprovedIsRun`, `DependenciesComplete` |
| `DispatchesFollowRuns`, `AcceptedInScope`, `WorkIsSideBySide` | `DispatchFollowsRun`, `AcceptedWorkInScope`, `WorkSideBySide` |
| `ExecutionsAreOnceAsShown` | `ExecutedOnceAsShown` |
| `ConsentHolds`, `BranchesAreHeld`, `WorkIsKept` | layers 3, and the inductive invariant of the Git Controller |
| `BranchesHavePredecessors`, `LineageHolds` | the first part of `LineageIsWhole`, and `LineageIsWhole` |
| `CompletedWorkCommitted` | `CompletedWorkIsCommitted` |
| `SoundAlways`, `DeliveredAlways` | layers 1 and 2 of the Bridge |
| `WorkersApartAlways`, `RunSettlesAlways` | `WorkersApart`, `RunSettlesItsTasks` |
| `IntegrationDeliveredAlways`, `KeepsLedgerAlways` | `IntegrationIsDelivered`, `KeepsLedger` |
| `AnnouncedOnceAlways`, `RunOnceAlways` | `AnnouncedOnce`, `RunOnceHasPrerequisites` |
| `ClosuresAreAuthorized`, `ReportsAreHonest` | `ClosureIsAuthorized`, `ReportIsHonest` |
| `PreparationsAlwaysAgree`, `FixesAreAuthorized`, `ReadyStagesAreReviewed` | `PreparationsAgree`, `FixIsAuthorized`, `ReadyIsReviewed` |

What the proofs and reviews of the assumptions showed about the model. These properties held on their instances and not in general; each
was too strong for the code.

- `ReadyIsReviewed` failed for a pull request that is closed, or whose label was taken away, while the workflow has
  nothing left to do. It now speaks of an open one with the label.
- `CompletedWorkIsCommitted` and `TargetHasWholePlan` said that the work of a node is in the branch its dispatch names. A second
  `create_worktree` that is settled late (section 5) binds an empty worktree to it after its work was committed, or
  integrated, from the first. They now say where the commit is, and claim the branch of the dispatch
  when the attempts worked there. The instance `OneNode` reaches that case.
- `WorkerHoldsWorktree` said of every worker under the UI that its attempt is active. That took for granted that a start has
  a new attempt ID; `again` is the caller that repeats one, and the property now says what it leaves standing.
- `PreparationsAgree` said that a round has one preparation, on the assumption that callers repeat its identifier; `replace`
  is the caller that does not.
- `ReadyIsReviewed` took for granted that the workflow can always take readiness back; it now names the push on which it failed.

The last three are in section 5. Only model-checked: liveness under fairness (`CancelIsHonoured`, `RunDelivers`, `RepetitionHeals`), which is out of the proof
system's reach. The theorems start from the specifications without the narrowing of an
instance (`Undisturbed`, `SceneSpec`, `PlanSpecApart`), and so cover them.

## 5. Where code and documents disagree

- **Late question.** The comment at `executor.ts:243` takes the re-read status as the
  authority of the settlement; the re-read and the settlement are two
  transactions, and a question between them makes the settlement an invalid
  transition. The attempt stays `decision_requested`, and a later cancel is never
  carried out.
- **Lost prompt.** The comment at `claude-process.ts:180` requires the `close` of the
  child before evidence is read and the attempt settled; the stdin error handler
  (`claude-process.ts:267`) rejects at once and does not kill the child.
- **Second worktree.** "The first attempt freezes the canonical worktree of the Run"
  (`STAGE_2_EXECUTION_CORE_ARCHITECTURE_REVIEW.md:207`). A second `create_worktree` of a node is admitted
  while the first is executing (`room-service.ts:1923`), and its success overwrites the
  worktree of Run and dispatch even when an attempt has been claimed meanwhile.
- **Stale base.** "A dependent task may start only after prerequisites are integrated, using an actual
  Stage SHA containing them" (`T04-bridge/TASK_CONTRACT.md:151`). `start` launches a dependent task in the same run
  as soon as its prerequisite is integrated, but every launch takes its base from `context.actualStageSha`
  (`controller.mjs:758`), which `load` has read once: its worktree is made from the Stage before that integration.

Seen while modelling, and listed as hazards without a run of their own:

- "Each attempt has exactly one worker process invocation"
  (`STAGE_2_EXECUTION_CORE_ARCHITECTURE_REVIEW.md:59`), and a retry has "a fresh `attempt_id`" (`ROOM_UI.md:67`). The executor does not look at `created`
  after its claim (`executor.ts:165`), so a second `room:run` with the same IDs starts a second
  process. So does the UI: its POST takes the caller's `attempt_id` (`application.ts:225`, `:243`), and the documented
  request has a fixed one (`ROOM_UI.md:140`), which after a retry starts a worker for the settled attempt.
  A second *success* is still impossible (`SuccessIsEarned`).
- The tests expect a repeated `prepare-fix` with other identifiers to be refused ("caller replacement lineage",
  `tools/codex-github-bridge/tests/lifecycle.test.mjs:400`). Another round is; another preparation is only once the prepared commit is on the Stage (`lifecycle.mjs:383`). After a push that
  failed, a call with another `fix_preparation_id` finds the same commit (`git.mjs:278`) and publishes a second
  `FIX_PREPARED_V1` of the same round; from then on the batch gate, the workflow and `prepare-fix` itself find more than one and refuse.
- A push takes readiness for review back (`codex-supervisor-dispatch.yml:44`). When that job fails, at its checkout or
  at any call of `gh` up to `remove-label`, `chat-review` stays on a head nobody has verified, and nothing is left to
  take it away until the next push.
- After an answer that changes the Contract, the plan is to be amended by a replacement node
  (`STAGE_3_DAG_CONTROL_PLANE_ARCHITECTURE_REVIEW.md:240`). The old node must stay in every later
  revision (`room-service.ts:2088`), a node beside it may not overlap its scope, and a node below
  it never becomes eligible.
- "Each downstream worktree is created from the branch of its predecessor's commit"
  (`INCREMENT_13_GIT_CONTROLLER_ARCHITECTURE_REVIEW.md:111`). The commit is looked up under the current
  revision (`room-service.ts:1867`); after an amendment there is none, and none can be made
  for a completed node, so its successor never gets a worktree.

## 6. Not modelled

**The Room.** Participants and authority (every caller is one the checks admit), and with them the worker
assigned to a node; the event log beyond the cursor of `GitActions`; text, and evidence beyond
changed paths; the interpretation of the events of a Claude stream, of which only the outcome is taken.
`RunLifecycle` and `Executor` have Runs that enter through
`submitTask`, without a plan; a Run with a plan is in `PlanGraph`. `auditAttemptWriteScope` has no
caller. Several Rooms: rows of
different Rooms interact through the worktree index only, which ignores the Room
exactly as `WorktreeFree` does. Read-only projections, HTTP routing, the project registry, file
generation, desktop shells and the frontend have no state that these properties
speak of. The Room Service recovers nothing after a crash of an executor, so there is no recovery to model; the
Bridge's is in `Load`.

**The bridge.** The `SupervisorOnlyController` and the bootstrap, dry or one-shot variants of what `Load` and `Dispatch` do; `taskctl`, a
formatter; formats of records, argument vectors and JSON-RPC framing. One Bridge works on a Stage at a time,
and one lifecycle command: nothing in the code excludes two, and two would post the same event twice, each
before it can observe the other's. One call of the workflow's jobs is one step, as their concurrency group orders them.

**Stalls and gaps that no property speaks of.** They were met while modelling. Each is what the code
does; nothing in the documents promises otherwise, or section 5 quotes it.

- `reserve` demands that no event has happened since the approval: a Room with a running
  attempt appends events all the time, and an approved action can starve (`room-service.ts:496`).
- A second `commit_paths` of a node, previewed while the first executes, fails and becomes the
  latest one; an amendment does the same to the commit of a predecessor (`room-service.ts:1867`, `:1868`).
- A component that changed nothing is accepted by policy and can never be committed, as
  `commit_paths` requires a path (`room-service.ts:1810`).
- Approval by policy looks at the decision of the Review and not at its findings, in code and
  documents alike (`room-service.ts:1807`).
- Attempts that are never settled keep their concurrency slot and write scope (`room-service.ts:2505`).
- A crash of the Bridge between the comment of a candidate and its `repository_dispatch`: nothing sends it again (`github.mjs:446`).
- A worktree that a failed `task_dispatched` leaves behind keeps its base when the task is launched again (`git.mjs:215`).
- A comment that fails before a Worker starts is reported as `PRE_MUTATION_FAILURE` by a run that has already
  written other events (`controller.mjs:969`).
- A prepared commit in the Stage worktree is lost by a reset before it is pushed (`git.mjs:258`).
- Others may advance `main` between its push and the closing record (`lifecycle.mjs:507`); GitHub may
  notice that `main` has the head of the pull request and mark it as merged, after which the closure never observes it closed (`github.mjs:370`).
- The command line never supplies the `hostApproval` a closure asks for (`lifecycle.mjs:285`).
- Two acceptances of one fix handoff may both be recorded (`lifecycle.mjs:220`).
- The `topological_priority` of a contract is not in the normalized tasks, so that tasks are ordered by their identifiers (`read-router-contract.mjs:170`).

## 7. Plan

The plan of section 2 is carried out but for these, in this order:

1. An abstract specification of a Git action, which is shown, approved once, started once and given
   one outcome, and a proof that `GitActions` implements it, over `GitShape` and `PreviewStands`.
2. An abstract specification of a plan, in which a node waits, works and is completed behind its
   dependencies, implemented by `PlanGraph`, over `Stories`.
3. `Authority`: participants, assignments, frozen identities. To prove: a disabled or
   replaced participant never writes a new row.
4. `ClaudeStream`: order-sensitive interpretation of events, checked against the
   reference "exactly one init, exactly one terminal, same session".
5. Two bridges on one Stage.

Runs of these stay in the style of section 3: two or three actors, one resource
they compete for, and one configuration per question.
