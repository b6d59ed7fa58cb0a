------------------------------ MODULE Executor ------------------------------
(***************************************************************************)
(* The local executor (src/runner/executor.ts) over the Room Service.      *)
(* LocalExecutor.execute is one long asynchronous function that runs in    *)
(* another OS process than the planner's writes (`room serve`), so the     *)
(* rows it has read may change at every await, and between any two of its  *)
(* transactions:                                                           *)
(*                                                                         *)
(*   read run, task, latest attempt  ->  await the worktree gate           *)
(*     ->  session check and claim   ->  await the Claude process, polling *)
(*     ->  await Git evidence        ->  re-read the attempt  ->  settle   *)
(*                                                                         *)
(* The desktop UI (src/ui/application.ts) launches executions inside its   *)
(* own process, with an attempt ID of its own unless the caller of its     *)
(* POST gives one; `room:run` (src/cli/run.ts) starts one with whatever    *)
(* IDs it is given.                                                        *)
(***************************************************************************)
EXTENDS RunLifecycle

CONSTANTS
    Executor,   \* invocations of LocalExecutor.execute
    Troubles    \* which of the troubles below a behaviour may meet together

\* cli:   room:run is also started by hand, beside the UI
\* crash: a process that runs executors may die
\* stdin: writing the prompt to the child may fail
\* late:  a question may reach the service after the worker has exited
\* again: a caller of the UI may give an attempt ID that was used before
ASSUME TroublesAssumption ==
    Troubles \subseteq SUBSET {"cli", "crash", "stdin", "late", "again"}

VARIABLES
    exec,     \* per invocation: program counter, what it has read, its child
    asking,   \* attempts whose question is on its way to the service
    dirty,    \* per worktree: the Runs with uncommitted changes in it
    trouble   \* the troubles of this behaviour, fixed for good

executorVars == <<exec, asking, dirty>>
allVars == <<vars, executorVars>>

\* What a finished process and its stream amount to: the status of a valid
\* CodingResult after exit 0; interrupted for a signal or a failed progress
\* callback; failed for everything else.
Outcome == {"completed", "blocked", "needs_decision", "failed", "interrupted"}

Live  == {"observing", "ready", "working", "collecting", "settling"}
Ended == {"refused", "done", "rejected", "crashed"}

AttemptStatus == ActiveStatus \cup TerminalStatus

\* An execution: target is the canonical root of its path, task and prior are the latest
\* Task and attempt as read at the start, seen is the attempt as re-read before settling.
NotStarted ==
    [pc |-> "idle", by |-> "ui", run |-> None, attempt |-> None, target |-> None,
     task |-> 0, prior |-> "none", child |-> "none",
     outcome |-> "none", session |-> None, seen |-> "none"]

ExecutorInit ==
    /\ Init
    /\ exec = [e \in Executor |-> NotStarted]
    /\ asking = {}
    /\ dirty = [w \in Worktree |-> {}]
    /\ trouble \in Troubles

\* The UI is the only one that starts executors, and every prompt is written.
Supervised == trouble \cap {"cli", "stdin"} = {}

\* Every start has an attempt ID that was not used before.
FreshIds == Supervised /\ "again" \notin trouble

\* No executor dies where an attempt ID may be used again.
Orderly == Supervised /\ ~ {"again", "crash"} \subseteq trouble

Breathing(e) == exec[e].child \in {"alive", "killed"}

-----------------------------------------------------------------------------
(* Starting. *)

\* The synchronous head of execute, up to its first await.
Begin(e, by, r, a, w) ==
    /\ exec[e].pc = "idle"
    /\ run[r].status # "absent"
    /\ \E prior \in AttemptStatus \cup {"none"} :
          /\ prior = "none" <=> AttemptsOf(r) = {}
          /\ \A b \in AttemptsOf(r) : IsLatestAttempt(r, b) => prior = attempt[b].status
          /\ exec' = [exec EXCEPT ![e] =
                [NotStarted EXCEPT !.pc = "observing", !.by = by, !.run = r, !.attempt = a,
                                   !.target = w, !.task = run[r].task, !.prior = prior]]
    /\ UNCHANGED <<vars, asking, dirty>>

\* The attempt ID that startRun draws is nobody's; one that its caller gives may be the ID
\* of any attempt.
IdOfStart(a) ==
    \/ "again" \in trouble
    \/ attempt[a].status = "absent" /\ \A d \in Executor : exec[d].attempt # a

\* startRun of the UI: a ready Run, no other launch of it under way, an attempt ID, and the
\* Run's worktree once it has one.
StartRun(e, r, a, w) ==
    /\ run[r].status = "ready"
    /\ ~HasActiveAttempt(r)
    /\ \A d \in Executor : exec[d].by = "ui" /\ exec[d].run = r => exec[d].pc \notin Live
    /\ IdOfStart(a)
    /\ run[r].worktree \in {None, w}
    /\ Begin(e, "ui", r, a, w)

\* room:run takes the Run, the attempt ID and the project path as given.
RunRoomRun(e, r, a, w) ==
    /\ "cli" \in trouble
    /\ Begin(e, "cli", r, a, w)

-----------------------------------------------------------------------------
(* From the gate to the process. *)

\* An execution that throws before it has a process leaves nothing behind.
Refuse(e) == exec' = [exec EXCEPT ![e] = [NotStarted EXCEPT !.pc = "refused"]]

\* establishCleanWorktree before a first attempt, observeContinuation before
\* any other, which must find the worktree the Run had at the start (a Run that
\* has one keeps it); a Git failure refuses both.
WorktreeGate(e) ==
    /\ exec[e].pc = "observing"
    /\ \/ /\ IF exec[e].prior = "none"
                THEN dirty[exec[e].target] = {}
                ELSE exec[e].target = run[exec[e].run].worktree
          /\ exec' = [exec EXCEPT ![e].pc = "ready"]
       \/ Refuse(e)
    /\ UNCHANGED <<vars, asking, dirty>>

\* A resumed decision or Fix needs a session of an earlier attempt.
HasSession(e) ==
    \/ exec[e].prior = "none"
    \/ exec[e].prior # "needs_decision" /\ exec[e].task = 0
    \/ \E b \in AttemptsOf(exec[e].run) : attempt[b].session # None

\* claimRunAttempt with an attempt ID that exists: the same Run and worktree
\* return the stored attempt, whatever its status.
RepeatsClaim(e) ==
    /\ attempt[exec[e].attempt].run = exec[e].run
    /\ attempt[exec[e].attempt].worktree = exec[e].target

\* The claim, and with it the start of the Claude process: the executor goes on
\* whether or not the service says it has created the attempt.
ClaimAndSpawn(e) ==
    /\ exec[e].pc = "ready"
    /\ HasSession(e)
    /\ \/ ClaimRunAttempt(exec[e].attempt, exec[e].run, exec[e].target)
       \/ RepeatsClaim(e) /\ UNCHANGED vars
    /\ exec' = [exec EXCEPT ![e].pc = "working", ![e].child = "alive"]
    /\ UNCHANGED <<asking, dirty>>

\* Every other way out before a process exists: the claim is refused, the session
\* is missing, or the assignment, the adapter or the MCP route is not usable.
StartRefused(e) ==
    /\ exec[e].pc = "ready"
    /\ Refuse(e)
    /\ UNCHANGED <<vars, asking, dirty>>

-----------------------------------------------------------------------------
(* The worker process. *)

\* The worker edits files of its worktree.
Work(e) ==
    /\ Breathing(e)
    /\ dirty' = [dirty EXCEPT ![exec[e].target] = @ \cup {exec[e].run}]
    /\ UNCHANGED <<vars, exec, asking>>

\* room_ask_question leaves the worker ...
Ask(e) ==
    /\ exec[e].child = "alive"
    /\ asking' = asking \cup {exec[e].attempt}
    /\ UNCHANGED <<vars, exec, dirty>>

\* ... and reaches askQuestion, which refuses an attempt that is not running.
\* Its answer is what the worker waits for, unless something has ended it.
ReceiveQuestion(a) ==
    /\ a \in asking
    /\ "late" \in trouble \/ \E e \in Executor : exec[e].attempt = a /\ Breathing(e)
    /\ IF attempt[a].status = "running" THEN AskQuestion(a) ELSE UNCHANGED vars
    /\ asking' = asking \ {a}
    /\ UNCHANGED <<exec, dirty>>

\* The request is lost with the process that sent it.
QuestionLost(a) ==
    /\ a \in asking
    /\ \A e \in Executor : exec[e].attempt = a => ~Breathing(e)
    /\ asking' = asking \ {a}
    /\ UNCHANGED <<vars, exec, dirty>>

\* Faulty: the poll waits for the terminal status only.
PollForTerminal(e) ==
    /\ exec[e].pc = "working"
    /\ attempt[exec[e].attempt].status = "canceled"
    /\ exec[e].child = "alive"
    /\ exec' = [exec EXCEPT ![e].child = "killed"]
    /\ UNCHANGED <<vars, asking, dirty>>

\* Faulty: the request to stop is taken for the stop.
PollWithoutClose(e) ==
    /\ exec[e].pc = "working"
    /\ attempt[exec[e].attempt].status = "cancel_requested"
    /\ exec' = [exec EXCEPT ![e].pc = "collecting", ![e].child = "killed",
                            ![e].outcome = "interrupted"]
    /\ UNCHANGED <<vars, asking, dirty>>

\* The poll every pollIntervalMs: a recorded cancel aborts the child.
Poll(e) ==
    /\ exec[e].pc = "working"
    /\ attempt[exec[e].attempt].status = "cancel_requested"
    /\ exec[e].child = "alive"
    /\ exec' = [exec EXCEPT ![e].child = "killed"]
    /\ UNCHANGED <<vars, asking, dirty>>

\* `close` of the child, after whatever it has written; a killed child may still
\* end in any way.  A stream that is valid carries the session.
Close(e, outcome, session) ==
    /\ exec[e].pc = "working"
    /\ Breathing(e)
    /\ outcome \in {"completed", "blocked", "needs_decision"} => session # None
    /\ exec' = [exec EXCEPT ![e].pc = "collecting", ![e].child = "gone",
                            ![e].outcome = outcome, ![e].session = session]
    /\ UNCHANGED <<vars, asking, dirty>>

\* The prompt cannot be written: the promise rejects at once, before `close`,
\* and nothing kills the child.
InputError(e, session) ==
    /\ "stdin" \in trouble
    /\ exec[e].pc = "working"
    /\ Breathing(e)
    /\ exec' = [exec EXCEPT ![e].pc = "collecting", ![e].outcome = "failed",
                            ![e].session = session]
    /\ UNCHANGED <<vars, asking, dirty>>

\* A child that nobody waits for any more ends.
OrphanEnds(e) ==
    /\ exec[e].pc # "working"
    /\ Breathing(e)
    /\ exec' = [exec EXCEPT ![e].child = "gone"]
    /\ UNCHANGED <<vars, asking, dirty>>

-----------------------------------------------------------------------------
(* Evidence and settlement. *)

\* Git evidence and artifacts, which may fail and then spoil a result, followed
\* by the re-read of the attempt.
CollectAndReread(e) ==
    /\ exec[e].pc = "collecting"
    /\ \E spoilt \in BOOLEAN :
          exec' = [exec EXCEPT
             ![e].pc = "settling",
             ![e].outcome = IF spoilt /\ @ \in {"completed", "needs_decision"}
                              THEN "failed" ELSE @,
             ![e].seen = attempt[exec[e].attempt].status]
    /\ UNCHANGED <<vars, asking, dirty>>

\* classifyTerminal, for an attempt that was re-read as neither canceled nor
\* waiting for a decision.
ClassifyTerminal(outcome) ==
    CASE outcome = "completed"   -> "succeeded"
      [] outcome = "interrupted" -> "interrupted"
      [] OTHER                   -> "failed"

\* The status, result and failure that execute hands to settleRunAttempt.
\* A CodingResult names the task the executor has read at its start.
Settlement(e) ==
    LET coded == [status |-> exec[e].outcome, task |-> exec[e].task] IN
    CASE exec[e].seen = "cancel_requested" ->
            [status |-> "canceled", result |-> None, failure |-> "failure"]
      [] exec[e].seen = "decision_requested" ->
            IF exec[e].outcome = "needs_decision"
              THEN [status |-> "needs_decision", result |-> coded, failure |-> None]
              ELSE [status |-> "needs_decision", result |-> None, failure |-> "failure"]
      [] OTHER ->
            IF exec[e].outcome = "completed"
              THEN [status |-> "succeeded", result |-> coded, failure |-> None]
              ELSE [status |-> ClassifyTerminal(exec[e].outcome),
                    result |-> None, failure |-> "failure"]

Settle(e) ==
    LET s == Settlement(e) IN
    /\ exec[e].pc = "settling"
    /\ SettleRunAttempt(exec[e].attempt, s.status, s.result, s.failure, exec[e].session)
    /\ exec' = [exec EXCEPT ![e].pc = "done"]
    /\ UNCHANGED <<asking, dirty>>

\* settleRunAttempt throws, or finds the attempt settled: the same payload is
\* taken for a repetition, another one is an id_conflict.
SettleChangesNothing(e) ==
    LET s == Settlement(e)
        a == exec[e].attempt
    IN
    /\ exec[e].pc = "settling"
    /\ \/ /\ IsActive(a)
          /\ ~SettleAdmitted(a, s.status, s.result, s.failure)
          /\ exec' = [exec EXCEPT ![e].pc = "rejected"]
       \/ /\ ~IsActive(a)
          /\ \E verdict \in {"done", "rejected"} :
                /\ verdict = "done" =>
                      /\ attempt[a].session = exec[e].session
                      /\ \/ attempt[a].status = "canceled"
                         \/ attempt[a].status = s.status /\ attempt[a].result = s.result
                /\ exec' = [exec EXCEPT ![e].pc = verdict]
    /\ UNCHANGED <<vars, asking, dirty>>

-----------------------------------------------------------------------------
(* Around the executor. *)

\* The UI's process ends with all it has launched; a room:run dies alone.
\* Neither takes the worker processes with it.
Crash(E) ==
    /\ "crash" \in trouble
    /\ E # {}
    /\ \/ E = {e \in Executor : exec[e].by = "ui" /\ exec[e].pc \in Live}
       \/ \E e \in Executor : E = {e} /\ exec[e].by = "cli" /\ exec[e].pc \in Live
    /\ exec' = [e \in Executor |-> IF e \in E THEN [exec[e] EXCEPT !.pc = "crashed"] ELSE exec[e]]
    /\ UNCHANGED <<vars, asking, dirty>>

\* Somebody commits or discards what lies in the worktree.
CleanUp(w) ==
    /\ dirty[w] # {}
    /\ dirty' = [dirty EXCEPT ![w] = {}]
    /\ UNCHANGED <<vars, exec, asking>>

\* Planner, reviewer and user write through `room serve` at any moment.
Steer == (Planning \/ Steering) /\ UNCHANGED executorVars

ExecutorStep(e) ==
    \/ \E r \in Run, a \in Attempt, w \in Worktree : StartRun(e, r, a, w)
    \/ \E r \in Run, a \in Attempt, w \in Worktree : RunRoomRun(e, r, a, w)
    \/ WorktreeGate(e)
    \/ ClaimAndSpawn(e)
    \/ StartRefused(e)
    \/ Work(e)
    \/ Ask(e)
    \/ Poll(e)
    \/ \E outcome \in Outcome, session \in Session \cup {None} : Close(e, outcome, session)
    \/ \E session \in Session \cup {None} : InputError(e, session)
    \/ OrphanEnds(e)
    \/ CollectAndReread(e)
    \/ Settle(e)
    \/ SettleChangesNothing(e)

ExecutorNext ==
    \/ Steer
    \/ \E e \in Executor : ExecutorStep(e)
    \/ \E a \in Attempt : ReceiveQuestion(a)
    \/ \E a \in Attempt : QuestionLost(a)
    \/ \E E \in SUBSET Executor : Crash(E)
    \/ \E w \in Worktree : CleanUp(w)

\* The event loop runs the poll timer and the continuations of a live executor,
\* and a child that has been sent SIGTERM closes.  Nothing makes a worker end of
\* its own accord, a person act, or a question arrive.
KilledChildCloses(e) ==
    /\ exec[e].child = "killed"
    /\ \E outcome \in Outcome, session \in Session \cup {None} : Close(e, outcome, session)

Fairness ==
    \A e \in Executor :
        /\ WF_allVars(Poll(e))
        /\ WF_allVars(KilledChildCloses(e))
        /\ WF_allVars(CollectAndReread(e))
        /\ WF_allVars(Settle(e))

ExecutorSpec == ExecutorInit /\ [][ExecutorNext /\ UNCHANGED trouble]_<<allVars, trouble>>
FairExecutorSpec == ExecutorSpec /\ Fairness

-----------------------------------------------------------------------------
(* Safety and liveness. *)

\* A worker process works for an attempt of its own Run, whoever has started it.  Under the
\* UI that Run is not accepted and leases the worktree the process writes in, unless an
\* executor dies while attempt IDs are used again; and if none is, the attempt is active: no
\* process outlives the settlement of its attempt or is started for a settled one.
ProcessOwnsAttempt ==
    \A e \in Executor : Breathing(e) =>
        /\ attempt[exec[e].attempt].run = exec[e].run
        /\ Orderly => /\ run[exec[e].run].worktree = exec[e].target
                      /\ run[exec[e].run].status # "accepted"
        /\ FreshIds => IsActive(exec[e].attempt)

\* Under the UI two worker processes are never alive in one worktree, whichever executor has
\* died meanwhile, or whichever attempt ID was used again.
OneProcessPerWorktree ==
    \A d, e \in Executor :
        Orderly /\ Breathing(d) /\ Breathing(e) /\ d # e => exec[d].target # exec[e].target

\* A worker process has the worktree that its Run leases, and has it alone, as far as
\* `Orderly` says.
WorkerHoldsWorktree == ProcessOwnsAttempt /\ OneProcessPerWorktree

\* Uncommitted work of a Run that is not accepted lies in the worktree that Run holds, so
\* that no other Run can be given it, whatever crashes, repeated starts and lost prompts
\* surround it.
UnacceptedWorkIsHeld ==
    \A w \in Worktree : \A r \in dirty[w] :
        run[r].status # "accepted" => run[r].worktree = w

\* A Run reaches review only on the word of a worker process that has closed,
\* completed, and read the very Task its attempt is bound to, whatever crashes,
\* repeated starts and lost prompts surround it.
SuccessIsEarned ==
    \A a \in Attempt : attempt[a].status = "succeeded" =>
        \E e \in Executor :
            /\ exec[e].attempt = a
            /\ exec[e].pc = "done"
            /\ exec[e].outcome = "completed"
            /\ exec[e].child = "gone"
            /\ exec[e].task = attempt[a].task

\* "The settlement takes the latest status as its authority": what the executor
\* hands to settleRunAttempt after its re-read is never refused, so no attempt
\* is left active without an executor.
NoSettlementRefused ==
    \A e \in Executor : exec[e].pc # "rejected"

\* "The executor must wait for the close of its child before it reads Git and
\* stream facts and settles."
SettledAfterClose ==
    \A e \in Executor : exec[e].pc \in {"collecting", "settling", "done"} => ~Breathing(e)

\* A cancel that the planner has recorded is carried out: the executor's poll
\* stops the worker and the attempt ends canceled.
CancelIsHonoured ==
    \A a \in Attempt :
        attempt[a].status = "cancel_requested" ~> attempt[a].status = "canceled"
=============================================================================
