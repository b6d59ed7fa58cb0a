---------------------------- MODULE RunLifecycle ----------------------------
(***************************************************************************)
(* The execution core of the Room Service (src/room/room-service.ts): the  *)
(* Room's planning state, the Runs of one Room, the RunAttempts that       *)
(* execute them, and the Questions, Reviews and RunGuidance that steer     *)
(* them.  Every public method of RoomService runs inside one               *)
(* BEGIN IMMEDIATE transaction that rolls back on error, so every method   *)
(* is one atomic action here and a refused or repeated (same-ID) command   *)
(* is a stuttering step.                                                   *)
(*                                                                         *)
(* Runs enter through submitTask, that is without a NodeDispatch; the      *)
(* conjuncts the plan graph adds to claim, settle and accept are not in    *)
(* this module.  Participants are not modelled: every caller is one that   *)
(* the authority checks admit.                                             *)
(***************************************************************************)
EXTENDS Integers

CONSTANTS
    Run,           \* run identities, chosen by the planner
    Attempt,       \* attempt identities, chosen by whoever starts an executor
    Guidance,      \* guidance identities, chosen by the planner
    Worktree,      \* canonical git worktree roots
    None,          \* SQL NULL
    MaxFix,        \* bound: Fix Tasks attached to one Run
    MaxAttemptNo   \* bound: attempt_no of one Run

ASSUME NoneAssumption ==
    /\ None \notin Run \cup Attempt \cup Worktree
ASSUME BoundAssumption ==
    /\ MaxFix \in Nat
    /\ MaxAttemptNo \in Nat

VARIABLES
    room,      \* Room.state
    run,       \* runs by run_id; status "absent" until the row is inserted
    attempt,   \* run_attempts by attempt_id; status "absent" until inserted
    question,  \* status of the Question asked by an attempt
    review,    \* most severe finding of the Review of an attempt
    guidance   \* run_guidance by guidance_id: its Run and its consumer

vars == <<room, run, attempt, question, review, guidance>>

-----------------------------------------------------------------------------
(* Status domains and the three transition tables of state-machine.ts.     *)

RoomState == {"DISCUSSION", "ARCHITECTURE_REVIEW", "WAITING_FOR_USER_CONFIRMATION"}

RunStatus == {"ready", "running", "cancel_requested", "needs_decision", "failed",
              "canceled", "review_required", "review_discussion", "accepted"}

ActiveStatus   == {"running", "decision_requested", "cancel_requested"}
TerminalStatus == {"succeeded", "failed", "needs_decision", "canceled", "interrupted"}

RoomTransition ==
    { <<"DISCUSSION", "ARCHITECTURE_REVIEW">>,
      <<"ARCHITECTURE_REVIEW", "WAITING_FOR_USER_CONFIRMATION">>,
      <<"DISCUSSION", "WAITING_FOR_USER_CONFIRMATION">>,
      <<"WAITING_FOR_USER_CONFIRMATION", "DISCUSSION">> }

RunTransition ==
    { <<"ready", "running">>,
      <<"running", "needs_decision">>,
      <<"running", "failed">>,
      <<"running", "review_required">>,
      <<"running", "cancel_requested">>,
      <<"cancel_requested", "canceled">>,
      <<"needs_decision", "ready">>,
      <<"failed", "ready">>,
      <<"canceled", "ready">>,
      <<"review_required", "review_discussion">>,
      <<"review_discussion", "ready">>,
      <<"review_discussion", "accepted">> }

AttemptTransition ==
    { <<"running", "decision_requested">>,
      <<"running", "cancel_requested">>,
      <<"decision_requested", "cancel_requested">>,
      <<"running", "succeeded">>,
      <<"running", "failed">>,
      <<"running", "interrupted">>,
      <<"decision_requested", "needs_decision">>,
      <<"cancel_requested", "canceled">> }

\* A Task of a Run: 0 is its Implementation Task, k > 0 its k-th Fix Task.
Task == 0 .. MaxFix

\* CodingResult as far as settlement looks at it.
Result == [status : {"completed", "blocked", "needs_decision"}, task : Task]

\* Attempt.failure and agent_session_ref matter only as present or NULL.
Failure == {"failure"}
Session == {"session"}

RunRecord ==
    [status : RunStatus \cup {"absent"}, worktree : Worktree \cup {None}, task : Task]

AttemptRecord ==
    [status   : ActiveStatus \cup TerminalStatus \cup {"absent"},
     run      : Run \cup {None},
     no       : 0 .. MaxAttemptNo,
     task     : Task,
     worktree : Worktree \cup {None},
     result   : Result \cup {None},
     failure  : Failure \cup {None},
     session  : Session \cup {None}]

Severity == {"clean", "minor", "blocker"}

NoRun     == [status |-> "absent", worktree |-> None, task |-> 0]
NoAttempt == [status |-> "absent", run |-> None, no |-> 0, task |-> 0,
              worktree |-> None, result |-> None, failure |-> None, session |-> None]

TypeOK ==
    /\ room \in RoomState
    /\ run \in [Run -> RunRecord]
    /\ attempt \in [Attempt -> AttemptRecord]
    /\ question \in [Attempt -> {"none", "open", "answered", "superseded"}]
    /\ review \in [Attempt -> Severity \cup {"none"}]
    /\ guidance \in [Guidance -> [run : Run \cup {None}, by : Attempt \cup {None}]]

-----------------------------------------------------------------------------
(* Queries of repository.ts.                                               *)

AttemptsOf(r) == {a \in Attempt : attempt[a].run = r}

IsActive(a) == attempt[a].status \in ActiveStatus

HasActiveAttempt(r) == \E a \in AttemptsOf(r) : IsActive(a)

\* The attempt of r with the greatest attempt_no.
IsLatestAttempt(r, a) ==
    /\ a \in AttemptsOf(r)
    /\ \A b \in AttemptsOf(r) : attempt[b].no <= attempt[a].no

\* Faulty: any Review of r will do.
IsSomeReview(r, a) == a \in AttemptsOf(r) /\ review[a] # "none"

\* The Review of r submitted last.  A Review is keyed by the attempt it reviews
\* and only the latest attempt can be reviewed, so row order is attempt order.
IsCurrentReview(r, a) ==
    /\ a \in AttemptsOf(r)
    /\ review[a] # "none"
    /\ \A b \in AttemptsOf(r) : review[b] # "none" => attempt[b].no <= attempt[a].no

\* MAX(attempt_no) + 1, or 1 when r has no attempt.
IsNextAttemptNo(r, n) ==
    /\ \A b \in AttemptsOf(r) : attempt[b].no < n
    /\ n > 1 => \E b \in AttemptsOf(r) : attempt[b].no = n - 1

IsPending(g) == guidance[g].run # None /\ guidance[g].by = None

\* The Question the planner may answer: the latest open one of the Run.
IsCurrentQuestion(r, a) ==
    /\ a \in AttemptsOf(r)
    /\ question[a] = "open"
    /\ \A b \in AttemptsOf(r) : question[b] = "open" => attempt[b].no <= attempt[a].no

-----------------------------------------------------------------------------
Init ==
    /\ room = "DISCUSSION"
    /\ run = [r \in Run |-> NoRun]
    /\ attempt = [a \in Attempt |-> NoAttempt]
    /\ question = [a \in Attempt |-> "none"]
    /\ review = [a \in Attempt |-> "none"]
    /\ guidance = [g \in Guidance |-> [run |-> None, by |-> None]]

(* Planning (planner). *)

TransitionToArchitectureReview ==
    /\ <<room, "ARCHITECTURE_REVIEW">> \in RoomTransition
    /\ room' = "ARCHITECTURE_REVIEW"
    /\ UNCHANGED <<run, attempt, question, review, guidance>>

TransitionToWaitingForUserConfirmation ==
    /\ <<room, "WAITING_FOR_USER_CONFIRMATION">> \in RoomTransition
    /\ room' = "WAITING_FOR_USER_CONFIRMATION"
    /\ UNCHANGED <<run, attempt, question, review, guidance>>

\* submitTask of an Implementation Task: the confirmed plan becomes a ready Run
\* and the Room returns to DISCUSSION.
SubmitImplementation(r) ==
    /\ run[r].status = "absent"
    /\ room = "WAITING_FOR_USER_CONFIRMATION"
    /\ run' = [run EXCEPT ![r] = [status |-> "ready", worktree |-> None, task |-> 0]]
    /\ room' = "DISCUSSION"
    /\ UNCHANGED <<attempt, question, review, guidance>>

\* submitTask of a Fix Task that cites the Review of attempt a.  A Fix confirms
\* at least one finding, so a Review without findings cannot be cited.
SubmitFix(r, a) ==
    /\ run[r].status = "review_discussion"
    /\ IsCurrentReview(r, a)
    /\ review[a] # "clean"
    /\ run[r].task < MaxFix
    /\ run' = [run EXCEPT ![r].status = "ready", ![r].task = @ + 1]
    /\ UNCHANGED <<room, attempt, question, review, guidance>>

-----------------------------------------------------------------------------
(* Attempts (executor and worker). *)

\* run_already_active and the ready check.
Claimable(r) == run[r].status = "ready" /\ ~HasActiveAttempt(r)

\* Faulty: without the partial unique index.
WorktreeUnguarded(r, w) == TRUE

\* Faulty: the index covers Runs with an active attempt, not all that are open.
WorktreeFreeOfActive(r, w) ==
    \A other \in Run \ {r} : run[other].worktree = w => ~HasActiveAttempt(other)

\* The partial unique index on runs(worktree_path) refuses a worktree that
\* another Run which is not accepted holds.
WorktreeFree(r, w) ==
    \A other \in Run \ {r} : run[other].worktree = w => run[other].status = "accepted"

\* Inserts the running attempt, binds it to the latest Task, consumes every
\* pending guidance of the Run and takes or re-uses the Run's worktree.
ClaimRunAttempt(a, r, w) ==
    /\ attempt[a].status = "absent"
    /\ Claimable(r)
    /\ run[r].worktree \in {None, w}
    /\ WorktreeFree(r, w)
    /\ \E n \in 1 .. MaxAttemptNo :
          /\ IsNextAttemptNo(r, n)
          /\ attempt' = [attempt EXCEPT ![a] =
                [status |-> "running", run |-> r, no |-> n, task |-> run[r].task,
                 worktree |-> w, result |-> None, failure |-> None, session |-> None]]
    /\ guidance' = [g \in Guidance |->
                      IF IsPending(g) /\ guidance[g].run = r
                        THEN [guidance[g] EXCEPT !.by = a]
                        ELSE guidance[g]]
    /\ run' = [run EXCEPT ![r].status = "running", ![r].worktree = w]
    /\ UNCHANGED <<room, question, review>>

\* The worker asks through MCP while its attempt is still running.
AskQuestion(a) ==
    /\ attempt[a].status = "running"
    /\ attempt' = [attempt EXCEPT ![a].status = "decision_requested"]
    /\ question' = [question EXCEPT ![a] = "open"]
    /\ UNCHANGED <<room, run, review, guidance>>

\* Faulty: the Task of the result is not compared.
IsPayloadOfAnyTask(task, target, result, failure) ==
    CASE target = "canceled" -> TRUE
      [] target = "succeeded" ->
            result # None /\ result.status = "completed" /\ failure = None
      [] target = "needs_decision" -> result # None \/ failure # None
      [] OTHER -> result = None /\ failure # None

\* canonicalSettlePayload: the evidence that the terminal status admits.
IsCanonicalPayload(task, target, result, failure) ==
    CASE target = "canceled" -> TRUE
      [] target = "succeeded" ->
            result = [status |-> "completed", task |-> task] /\ failure = None
      [] target = "needs_decision" ->
            \/ result = [status |-> "needs_decision", task |-> task] /\ failure = None
            \/ result = None /\ failure # None
      [] OTHER -> result = None /\ failure # None

\* Faulty: a decision pause falls through to the default.
RunStatusWithoutPause(target) ==
    CASE target = "succeeded" -> "review_required"
      [] target = "canceled"  -> "canceled"
      [] OTHER                -> "failed"

RunStatusForTerminal(target) ==
    CASE target = "succeeded"      -> "review_required"
      [] target = "needs_decision" -> "needs_decision"
      [] target = "canceled"       -> "canceled"
      [] OTHER                     -> "failed"

\* What the row becomes when the executor asks for `status`: a cancel that the
\* planner has already recorded overrides it.
SettleTarget(a, status) ==
    IF attempt[a].status = "cancel_requested" THEN "canceled" ELSE status

\* settleRunAttempt refuses with invalid_transition or validation_failed
\* unless this holds of a not yet terminal attempt.
SettleAdmitted(a, status, result, failure) ==
    LET target == SettleTarget(a, status) IN
    /\ <<attempt[a].status, target>> \in AttemptTransition
    /\ IsCanonicalPayload(attempt[a].task, target, result, failure)
    /\ <<run[attempt[a].run].status, RunStatusForTerminal(target)>> \in RunTransition

SettleRunAttempt(a, status, result, failure, session) ==
    LET target == SettleTarget(a, status) IN
    /\ IsActive(a)
    /\ SettleAdmitted(a, status, result, failure)
    /\ attempt' = [attempt EXCEPT
          ![a].status  = target,
          ![a].result  = IF target = "canceled" THEN None ELSE result,
          ![a].failure = IF target = "canceled" THEN None ELSE failure,
          ![a].session = session]
    /\ run' = [run EXCEPT ![attempt[a].run].status = RunStatusForTerminal(target)]
    /\ UNCHANGED <<room, question, review, guidance>>

-----------------------------------------------------------------------------
(* Questions, reviews, retry, cancel and guidance (planner and reviewer). *)

\* An answer is taken only once the asking process has stopped and its attempt
\* is settled.  One that stays inside the contract makes the Run ready; one that
\* changes it sends the Room back to confirmation and leaves the Run as it is.
AnswerQuestion(a, changesContract) ==
    LET r == attempt[a].run IN
    /\ question[a] = "open"
    /\ attempt[a].status = "needs_decision"
    /\ run[r].status = "needs_decision"
    /\ IsCurrentQuestion(r, a)
    /\ question' = [question EXCEPT ![a] = "answered"]
    /\ \/ /\ changesContract
          /\ room \in {"DISCUSSION", "WAITING_FOR_USER_CONFIRMATION"}
          /\ room' = "WAITING_FOR_USER_CONFIRMATION"
          /\ run' = run
       \/ /\ ~changesContract
          /\ <<run[r].status, "ready">> \in RunTransition
          /\ run' = [run EXCEPT ![r].status = "ready"]
          /\ room' = room
    /\ UNCHANGED <<attempt, review, guidance>>

SubmitReview(a, severity) ==
    LET r == attempt[a].run IN
    /\ attempt[a].status = "succeeded"
    /\ IsLatestAttempt(r, a)
    /\ run[r].status = "review_required"
    /\ review' = [review EXCEPT ![a] = severity]
    /\ run' = [run EXCEPT ![r].status = "review_discussion"]
    /\ UNCHANGED <<room, attempt, question, guidance>>

\* Acceptance ends the Run and, with it, the worktree lease.
AcceptReview(a) ==
    LET r == attempt[a].run IN
    /\ review[a] \in Severity \ {"blocker"}
    /\ run[r].status = "review_discussion"
    /\ IsCurrentReview(r, a)
    /\ run' = [run EXCEPT ![r].status = "accepted"]
    /\ UNCHANGED <<room, attempt, question, review, guidance>>

\* Faulty: a retry gives the Run a status of its own.
RetryAsRetrying(r) ==
    /\ run[r].status \in {"failed", "canceled"}
    /\ run' = [run EXCEPT ![r].status = "retrying"]
    /\ UNCHANGED <<room, attempt, question, review, guidance>>

\* Faulty: a retry starts from a clean slate and gives the worktree back.
RetryInAnyWorktree(r) ==
    /\ run[r].status \in {"failed", "canceled"}
    /\ run' = [run EXCEPT ![r].status = "ready", ![r].worktree = None]
    /\ UNCHANGED <<room, attempt, question, review, guidance>>

\* Faulty: a retry clears the failure it answers.
RetryClearsFailure(r) ==
    /\ run[r].status \in {"failed", "canceled"}
    /\ run' = [run EXCEPT ![r].status = "ready"]
    /\ attempt' = [a \in Attempt |-> IF a \in AttemptsOf(r)
                                      THEN [attempt[a] EXCEPT !.failure = None]
                                      ELSE attempt[a]]
    /\ UNCHANGED <<room, question, review, guidance>>

RetryRun(r) ==
    /\ run[r].status \in {"failed", "canceled"}
    /\ <<run[r].status, "ready">> \in RunTransition
    /\ run' = [run EXCEPT ![r].status = "ready"]
    /\ UNCHANGED <<room, attempt, question, review, guidance>>

\* Faulty: the open question is left behind.
CancelKeepsQuestion(r, a) ==
    /\ a \in AttemptsOf(r)
    /\ IsActive(a)
    /\ <<attempt[a].status, "cancel_requested">> \in AttemptTransition
    /\ <<run[r].status, "cancel_requested">> \in RunTransition
    /\ attempt' = [attempt EXCEPT ![a].status = "cancel_requested"]
    /\ run' = [run EXCEPT ![r].status = "cancel_requested"]
    /\ UNCHANGED <<room, question, review, guidance>>

\* The planner's confirmed cancel of the active attempt a of Run r.
CancelRun(r, a) ==
    /\ a \in AttemptsOf(r)
    /\ IsActive(a)
    /\ <<attempt[a].status, "cancel_requested">> \in AttemptTransition
    /\ <<run[r].status, "cancel_requested">> \in RunTransition
    /\ attempt' = [attempt EXCEPT ![a].status = "cancel_requested"]
    /\ question' = [question EXCEPT ![a] = IF @ = "open" THEN "superseded" ELSE @]
    /\ run' = [run EXCEPT ![r].status = "cancel_requested"]
    /\ UNCHANGED <<room, review, guidance>>

\* Faulty: guidance is taken while an attempt runs.
AddGuidanceAnytime(g, r) ==
    /\ guidance[g].run = None
    /\ run[r].status # "absent"
    /\ guidance' = [guidance EXCEPT ![g] = [run |-> r, by |-> None]]
    /\ UNCHANGED <<room, run, attempt, question, review>>

AddRunGuidance(g, r) ==
    /\ guidance[g].run = None
    /\ run[r].status # "absent"
    /\ ~HasActiveAttempt(r)
    /\ guidance' = [guidance EXCEPT ![g] = [run |-> r, by |-> None]]
    /\ UNCHANGED <<room, run, attempt, question, review>>

-----------------------------------------------------------------------------
Planning ==
    \/ TransitionToArchitectureReview
    \/ TransitionToWaitingForUserConfirmation
    \/ \E r \in Run : SubmitImplementation(r)
    \/ \E r \in Run, a \in Attempt : SubmitFix(r, a)

Steering ==
    \/ \E a \in Attempt, changesContract \in BOOLEAN : AnswerQuestion(a, changesContract)
    \/ \E a \in Attempt, severity \in Severity : SubmitReview(a, severity)
    \/ \E a \in Attempt : AcceptReview(a)
    \/ \E r \in Run : RetryRun(r)
    \/ \E r \in Run, a \in Attempt : CancelRun(r, a)
    \/ \E g \in Guidance, r \in Run : AddRunGuidance(g, r)

Execution ==
    \/ \E a \in Attempt, r \in Run, w \in Worktree : ClaimRunAttempt(a, r, w)
    \/ \E a \in Attempt : AskQuestion(a)
    \/ \E a \in Attempt, status \in TerminalStatus, result \in Result \cup {None},
          failure \in Failure \cup {None}, session \in Session \cup {None} :
             SettleRunAttempt(a, status, result, failure, session)

Next == Planning \/ Steering \/ Execution

Spec == Init /\ [][Next]_vars

-----------------------------------------------------------------------------
(* Safety. *)

\* The statuses the latest attempt of a Run may have, by status of the Run.
LatestStatus(s) ==
    CASE s = "running"          -> {"running", "decision_requested"}
      [] s = "cancel_requested" -> {"cancel_requested"}
      [] s = "needs_decision"   -> {"needs_decision"}
      [] s = "failed"           -> {"failed", "interrupted"}
      [] s = "canceled"         -> {"canceled"}
      [] s \in {"review_required", "review_discussion", "accepted"} -> {"succeeded"}
      [] OTHER                  -> TerminalStatus

\* The status of a Run and the status of its latest attempt are two columns
\* written by different methods; they always tell the same story.  A Run that
\* is neither new nor ready again has a latest attempt, that attempt worked on
\* the latest Task, and its status is one the Run's status stands for.
RunFollowsLatestAttempt ==
    \A r \in Run : \A a \in Attempt :
        /\ IsLatestAttempt(r, a) =>
              /\ attempt[a].status \in LatestStatus(run[r].status)
              /\ run[r].status # "ready" => attempt[a].task = run[r].task
        /\ run[r].status \notin {"absent", "ready"} => AttemptsOf(r) # {}

\* Whatever order retries, answers, Fix Tasks and claims of several executors
\* take, a Run has at most one active attempt, and it is its latest one.
OneActiveAttempt ==
    \A r \in Run : \A a \in AttemptsOf(r) :
        IsActive(a) => \A b \in AttemptsOf(r) \ {a} :
                          ~IsActive(b) /\ attempt[b].no < attempt[a].no

\* A Run and its attempts, which a dozen methods write one or the other of, tell one
\* story.
Coherent == RunFollowsLatestAttempt /\ OneActiveAttempt

\* Two active attempts, of one Run or of two, never have the same worktree:
\* what the lease on runs(worktree_path), the frozen lineage worktree and the
\* single active attempt are for.
ActiveAttemptsApart ==
    \A a, b \in Attempt :
        IsActive(a) /\ IsActive(b) /\ a # b => attempt[a].worktree # attempt[b].worktree

\* A worktree is leased to at most one Run that is not accepted.
WorktreeLeaseUnique ==
    \A r, s \in Run :
        /\ r # s
        /\ run[r].worktree = run[s].worktree
        /\ run[r].worktree # None
        => "accepted" \in {run[r].status, run[s].status}

\* Nobody else is let into the worktree of a Run, before its acceptance and while it works.
WorktreesApart == WorktreeLeaseUnique /\ ActiveAttemptsApart

\* An open Question belongs to the latest attempt of its Run, which waits for
\* the decision or has been settled with it; an attempt that waits has an open
\* Question, and a cancel leaves none behind.
QuestionFollowsAttempt ==
    \A a \in Attempt :
        /\ question[a] = "open" =>
              /\ attempt[a].status \in {"decision_requested", "needs_decision"}
              /\ IsLatestAttempt(attempt[a].run, a)
              /\ run[attempt[a].run].status \in {"running", "needs_decision"}
        /\ attempt[a].status = "decision_requested" => question[a] = "open"
        /\ attempt[a].status = "needs_decision" => question[a] \in {"open", "answered"}

\* Guidance waits only while its Run has no active attempt, so that the prompt
\* of a running attempt never misses it.
GuidanceReachesNextAttempt ==
    \A g \in Guidance : IsPending(g) => ~HasActiveAttempt(guidance[g].run)

\* Guidance is consumed by an attempt of the Run it was written for.
GuidanceStaysWithRun ==
    \A g \in Guidance :
        guidance[g].by # None => guidance[g].by \in AttemptsOf(guidance[g].run)

\* An accepted Run was reviewed without a blocker, and the Review is of the
\* latest attempt and so of the latest Fix Task: acceptance never overtakes a
\* Fix and never rests on a stale Review.
AcceptedWorkIsReviewed ==
    \A r \in Run : run[r].status = "accepted" =>
        \E a \in AttemptsOf(r) :
            /\ IsLatestAttempt(r, a)
            /\ attempt[a].status = "succeeded"
            /\ attempt[a].task = run[r].task
            /\ review[a] \in {"clean", "minor"}

-----------------------------------------------------------------------------
(* What a step may never do. *)

\* The first terminal outcome wins: no later settle, cancel or answer changes a
\* settled attempt, and a cancel once recorded ends in no outcome but canceled.
TerminalOutcomeIsFinal ==
    [][\A a \in Attempt :
          /\ attempt[a].status \in TerminalStatus => attempt'[a] = attempt[a]
          /\ attempt[a].status = "cancel_requested" =>
                attempt'[a].status \in {"cancel_requested", "canceled"}]_vars

\* A Run keeps the worktree of its first attempt through every retry, Fix and
\* answer, and every attempt of it runs there.
LineageKeepsWorktree ==
    [][\A r \in Run : run[r].worktree # None =>
          /\ run'[r].worktree = run[r].worktree
          /\ \A a \in Attempt : attempt'[a].run = r =>
                attempt'[a].worktree = run[r].worktree]_vars

\* A guidance once consumed keeps its consumer: no retry and no later attempt
\* injects it a second time.
GuidanceConsumedOnce ==
    [][\A g \in Guidance : guidance[g].by # None => guidance'[g] = guidance[g]]_vars

\* What is written for a Run reaches one attempt: the next one.
GuidanceIsDelivered ==
    /\ [](GuidanceReachesNextAttempt /\ GuidanceStaysWithRun)
    /\ GuidanceConsumedOnce

\* A Review is submitted at most once for an attempt and never edited, so the
\* findings a Fix confirmed, or an acceptance rested on, stay what they were.
ReviewNeverRewritten ==
    [][\A a \in Attempt : review[a] # "none" => review'[a] = review[a]]_vars

\* What later operations rest on is never rewritten: outcomes, Reviews and the worktree of a
\* lineage.
HistoryIsKept == TerminalOutcomeIsFinal /\ LineageKeepsWorktree /\ ReviewNeverRewritten

-----------------------------------------------------------------------------
(* The abstract promise about worktrees, kept by the rows of runs and       *)
(* run_attempts: an accepted Run has released what its row still names.     *)
Lease == INSTANCE WorktreeLease WITH
    lease    <- [r \in Run |-> IF run[r].status = "accepted" THEN None ELSE run[r].worktree],
    worker   <- [a \in Attempt |-> IF IsActive(a) THEN attempt[a].run ELSE None],
    ended    <- {a \in Attempt : attempt[a].status \in TerminalStatus},
    released <- {r \in Run : run[r].status = "accepted"}

\* Every behaviour of the service is one of the worktree lease: claims are the
\* only way in, settlement the only way an attempt stops, and acceptance the
\* only way a worktree becomes free.
ImplementsWorktreeLease == Lease!Spec
=============================================================================
