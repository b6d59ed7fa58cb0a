---------------------------- MODULE ExecutorProofs ----------------------------
(***************************************************************************)
(* Proofs about the local executor, for every set of Runs, attempts,       *)
(* worktrees and invocations, and every combination of troubles: what the  *)
(* executors, the workers and the planner do together is a behaviour of    *)
(* the Room Service, so that all that is proved of it holds here; a worker *)
(* has the worktree it writes in; and success is a worker's own.           *)
(***************************************************************************)
EXTENDS Executor, HistoryProofs

-----------------------------------------------------------------------------
(* What the invariants are made of. *)

Pc == {"idle"} \cup Live \cup Ended

\* What an execution has read and done.
Launch ==
    [pc : Pc, by : {"ui", "cli"},
     run : Run \cup {None}, attempt : Attempt \cup {None}, target : Worktree \cup {None},
     task : Task, prior : AttemptStatus \cup {"none"},
     child : {"none", "alive", "killed", "gone"},
     outcome : Outcome \cup {"none"}, session : Session \cup {None},
     seen : AttemptStatus \cup {"none", "absent"}]

\* An execution that was started and not refused has a Run, an attempt ID and a path.
Begun(e) == exec[e].pc \notin {"idle", "refused"}

ExecutorShape ==
    /\ exec \in [Executor -> Launch]
    /\ asking \subseteq Attempt
    /\ dirty \in [Worktree -> SUBSET Run]
    /\ \A e \in Executor :
          /\ Begun(e) =>
                exec[e].run \in Run /\ exec[e].attempt \in Attempt /\ exec[e].target \in Worktree
          /\ ~ Begun(e) => exec[e].child = "none" /\ exec[e].attempt = None
          /\ exec[e].pc \in {"collecting", "settling", "done"} => exec[e].outcome \in Outcome

\* It has claimed its attempt, or been given one that was claimed before.
Spawned(e) == exec[e].pc \in {"working", "collecting", "settling"} \/ Breathing(e)

\* Whatever troubles there are, the attempt of a worker is one of its Run, in its worktree.
Placed ==
    \A e \in Executor : Spawned(e) =>
        /\ attempt[exec[e].attempt].run = exec[e].run
        /\ attempt[exec[e].attempt].worktree = exec[e].target

\* Under the UI a Run has one live execution at most, and is ready until that one claims.
Launched ==
    /\ \A e \in Executor : exec[e].by = "ui"
    /\ \A d, e \in Executor :
          exec[d].pc \in Live /\ exec[e].pc \in Live /\ exec[d].run = exec[e].run => d = e
    /\ \A e \in Executor :
          exec[e].pc \in {"observing", "ready"} => run[exec[e].run].status = "ready"

\* Where no ID is used again, no two executions have one attempt ID, one that waits to claim
\* has an ID nobody has claimed, and a worker works for the attempt that was claimed for it.
Owned ==
    /\ \A d, e \in Executor : d # e /\ exec[d].attempt = exec[e].attempt => exec[e].attempt = None
    /\ \A e \in Executor :
          /\ exec[e].pc \in {"observing", "ready"} =>
                exec[e].child = "none" /\ attempt[exec[e].attempt].status = "absent"
          /\ Breathing(e) =>
                exec[e].pc \in {"working", "crashed"} /\ IsActive(exec[e].attempt)

\* Where no executor dies, a worker works for an active attempt, or for a settled one while
\* its Run stays ready.
Attended ==
    \A e \in Executor :
        /\ exec[e].pc # "crashed"
        /\ Breathing(e) =>
              /\ exec[e].pc = "working"
              /\ IsActive(exec[e].attempt) \/ run[exec[e].run].status = "ready"

\* What holds under the UI.
Governed ==
    /\ Supervised => Launched
    /\ FreshIds => Owned
    /\ Supervised /\ "crash" \notin trouble => Attended

\* Uncommitted work lies in the worktree of the Run that left it, for good.
Held == \A w \in Worktree : \A r \in dirty[w] : run[r].worktree = w

\* What completes has closed, and success was settled by what completed.
Earned ==
    /\ \A e \in Executor :
          exec[e].pc \in {"collecting", "settling", "done"} /\ exec[e].outcome = "completed" =>
              exec[e].child = "gone"
    /\ SuccessIsEarned

-----------------------------------------------------------------------------
(* What a step does to the execution it is of. *)

\* One execution is written.
LEMMA Written ==
    ASSUME ExecutorShape, NEW e \in Executor, NEW x \in Launch, exec' = [exec EXCEPT ![e] = x]
    PROVE  /\ exec' \in [Executor -> Launch] /\ exec'[e] = x
           /\ \A d \in Executor \ {e} : exec'[d] = exec[d]
  BY DEF ExecutorShape

\* It stays that of its Run, its attempt ID and its path.
Same(e) ==
    /\ exec'[e].by = exec[e].by
    /\ exec'[e].run = exec[e].run
    /\ exec'[e].attempt = exec[e].attempt
    /\ exec'[e].target = exec[e].target
    /\ exec'[e].task = exec[e].task

OthersSame(e) == \A d \in Executor \ {e} : exec'[d] = exec[d]

\* Every way on, with what it takes to get there.
Moves(e) ==
    /\ Same(e)
    /\ \/ /\ exec[e].pc = "observing" /\ exec'[e].pc = "ready" /\ exec'[e].child = exec[e].child
       \/ /\ ClaimAndSpawn(e)
          /\ exec[e].pc = "ready" /\ exec'[e].pc = "working" /\ exec'[e].child = "alive"
       \/ /\ exec[e].pc = "working" /\ exec'[e].pc = "working"
          /\ exec[e].child = "alive" /\ exec'[e].child = "killed"
       \/ /\ exec[e].pc = "working" /\ exec'[e].pc = "collecting" /\ Breathing(e)
          /\ exec'[e].outcome \in Outcome
          /\ \/ exec'[e].child = "gone"
             \/ ~ Supervised /\ exec'[e].outcome = "failed" /\ exec'[e].child = exec[e].child
       \/ /\ exec[e].pc # "working" /\ exec'[e].pc = exec[e].pc /\ exec'[e].outcome = exec[e].outcome
          /\ Breathing(e) /\ exec'[e].child = "gone"
       \/ /\ exec[e].pc = "collecting" /\ exec'[e].pc = "settling"
          /\ exec'[e].child = exec[e].child /\ exec'[e].outcome \in {exec[e].outcome, "failed"}
       \/ /\ exec[e].pc = "settling" /\ exec'[e].pc \in {"done", "rejected"}
          /\ exec'[e].child = exec[e].child /\ exec'[e].outcome = exec[e].outcome

Starts(e) ==
    /\ exec[e].pc = "idle" /\ exec'[e].pc = "observing"
    /\ exec'[e].child = "none" /\ exec'[e].outcome = "none"
    /\ exec'[e].run \in Run /\ exec'[e].attempt \in Attempt /\ exec'[e].target \in Worktree

\* It is started by the UI or by hand.
Launches(e) ==
    /\ Starts(e)
    /\ \E r \in Run, a \in Attempt, w \in Worktree :
          /\ \/ StartRun(e, r, a, w) /\ exec'[e].by = "ui"
             \/ RunRoomRun(e, r, a, w)
          /\ exec'[e].run = r /\ exec'[e].attempt = a

Refused(e) ==
    /\ exec[e].pc \in {"observing", "ready"} /\ exec'[e].pc = "refused"
    /\ exec'[e].child = "none" /\ exec'[e].attempt = None /\ exec'[e].by = "ui"

Dies(e) ==
    /\ exec[e].pc \in Live
    /\ exec'[e] = [exec[e] EXCEPT !.pc = "crashed"]

\* The synchronous head of execute.
LEMMA BeginEffect ==
    ASSUME TypeOK, ExecutorShape, NEW e \in Executor, NEW by \in {"ui", "cli"}, NEW r \in Run,
           NEW a \in Attempt, NEW w \in Worktree, Begin(e, by, r, a, w)
    PROVE  /\ exec' \in [Executor -> Launch] /\ OthersSame(e) /\ Starts(e)
           /\ exec'[e].by = by /\ exec'[e].run = r /\ exec'[e].attempt = a
           /\ UNCHANGED <<vars, asking, dirty>>
  <1>1. PICK prior \in AttemptStatus \cup {"none"} :
           exec' = [exec EXCEPT ![e] =
                [NotStarted EXCEPT !.pc = "observing", !.by = by, !.run = r, !.attempt = a,
                                   !.target = w, !.task = run[r].task, !.prior = prior]]
    BY DEF Begin
  <1> DEFINE x == [NotStarted EXCEPT !.pc = "observing", !.by = by, !.run = r, !.attempt = a,
                                     !.target = w, !.task = run[r].task, !.prior = prior]
  <1>2. run[r].task \in Task
    BY DEF TypeOK, RunRecord
  <1>3. x \in Launch
    BY <1>2 DEF NotStarted, Launch, Pc, Live
  <1>4. /\ x.pc = "observing" /\ x.child = "none" /\ x.outcome = "none"
        /\ x.by = by /\ x.run = r /\ x.attempt = a /\ x.target = w
    BY DEF NotStarted
  <1> HIDE DEF x
  <1>5. exec' \in [Executor -> Launch] /\ exec'[e] = x /\ OthersSame(e)
    BY <1>1, <1>3, Written DEF x, OthersSame
  <1> QED
    BY <1>4, <1>5 DEF Begin, Starts

\* An execution that is refused forgets what it has read.
LEMMA RefuseEffect ==
    ASSUME ExecutorShape, NEW e \in Executor, exec[e].pc \in {"observing", "ready"}, Refuse(e)
    PROVE  exec' \in [Executor -> Launch] /\ OthersSame(e) /\ Refused(e)
  <1> DEFINE x == [NotStarted EXCEPT !.pc = "refused"]
  <1>1. x \in Launch /\ x.pc = "refused" /\ x.child = "none" /\ x.attempt = None /\ x.by = "ui"
    BY BoundAssumption DEF NotStarted, Launch, Pc, Ended, Task
  <1> HIDE DEF x
  <1>2. exec' = [exec EXCEPT ![e] = x]
    BY DEF Refuse, x
  <1> QED
    BY <1>1, <1>2, Written DEF OthersSame, Refused

\* Every other step of an execution takes it on.
LEMMA MoveEffect ==
    ASSUME TypeOK, ExecutorShape, NEW e \in Executor,
           \/ WorktreeGate(e) /\ ~ Refuse(e)
           \/ ClaimAndSpawn(e) \/ Poll(e) \/ OrphanEnds(e) \/ CollectAndReread(e)
           \/ \E outcome \in Outcome, session \in Session \cup {None} : Close(e, outcome, session)
           \/ \E session \in Session \cup {None} : InputError(e, session)
           \/ Settle(e) \/ SettleChangesNothing(e)
    PROVE  /\ exec' \in [Executor -> Launch] /\ OthersSame(e) /\ Moves(e)
           /\ UNCHANGED <<asking, dirty>>
  <1>0. exec[e] \in Launch /\ exec \in [Executor -> Launch]
    BY DEF ExecutorShape
  <1> DEFINE Onward(x) == exec' = [exec EXCEPT ![e] = x] /\ x \in Launch
  <1>1. ASSUME NEW x, Onward(x)
        PROVE  exec' \in [Executor -> Launch] /\ OthersSame(e) /\ exec'[e] = x
    BY <1>1, Written DEF OthersSame
  <1>2. CASE WorktreeGate(e) /\ ~ Refuse(e)
    <2> DEFINE x == [exec[e] EXCEPT !.pc = "ready"]
    <2>1. x \in Launch
      BY <1>0 DEF Launch, Pc, Live
    <2>2. /\ x.pc = "ready"
          /\ x.by = exec[e].by /\ x.run = exec[e].run /\ x.attempt = exec[e].attempt
          /\ x.target = exec[e].target /\ x.task = exec[e].task /\ x.child = exec[e].child /\ x.outcome = exec[e].outcome
      BY <1>0 DEF Launch
    <2>3. /\ exec' = [exec EXCEPT ![e] = x] /\ UNCHANGED <<asking, dirty>>
          /\ exec[e].pc = "observing"
      BY <1>0, <1>2 DEF WorktreeGate
    <2> HIDE DEF x
    <2> QED
      BY <1>1, <2>1, <2>2, <2>3 DEF Moves, Same
  <1>3. CASE ClaimAndSpawn(e)
    <2> DEFINE x == [exec[e] EXCEPT !.pc = "working", !.child = "alive"]
    <2>1. x \in Launch
      BY <1>0 DEF Launch, Pc, Live
    <2>2. /\ x.pc = "working" /\ x.child = "alive"
          /\ x.by = exec[e].by /\ x.run = exec[e].run /\ x.attempt = exec[e].attempt
          /\ x.target = exec[e].target /\ x.task = exec[e].task /\ x.outcome = exec[e].outcome
      BY <1>0 DEF Launch
    <2>3. /\ exec' = [exec EXCEPT ![e] = x] /\ UNCHANGED <<asking, dirty>>
          /\ exec[e].pc = "ready"
      BY <1>0, <1>3 DEF ClaimAndSpawn
    <2> HIDE DEF x
    <2> QED
      BY <1>1, <1>3, <2>1, <2>2, <2>3 DEF Moves, Same
  <1>4. CASE Poll(e)
    <2> DEFINE x == [exec[e] EXCEPT !.child = "killed"]
    <2>1. x \in Launch
      BY <1>0 DEF Launch, Pc, Live
    <2>2. /\ x.child = "killed"
          /\ x.pc = exec[e].pc /\ x.by = exec[e].by /\ x.run = exec[e].run /\ x.attempt = exec[e].attempt
          /\ x.target = exec[e].target /\ x.task = exec[e].task /\ x.outcome = exec[e].outcome
      BY <1>0 DEF Launch
    <2>3. /\ exec' = [exec EXCEPT ![e] = x] /\ UNCHANGED <<asking, dirty>>
          /\ exec[e].pc = "working" /\ exec[e].child = "alive"
      BY <1>0, <1>4 DEF Poll
    <2> HIDE DEF x
    <2> QED
      BY <1>1, <2>1, <2>2, <2>3 DEF Moves, Same
  <1>5. CASE OrphanEnds(e)
    <2> DEFINE x == [exec[e] EXCEPT !.child = "gone"]
    <2>1. x \in Launch
      BY <1>0 DEF Launch, Pc, Live
    <2>2. /\ x.child = "gone"
          /\ x.pc = exec[e].pc /\ x.by = exec[e].by /\ x.run = exec[e].run /\ x.attempt = exec[e].attempt
          /\ x.target = exec[e].target /\ x.task = exec[e].task /\ x.outcome = exec[e].outcome
      BY <1>0 DEF Launch
    <2>3. /\ exec' = [exec EXCEPT ![e] = x] /\ UNCHANGED <<asking, dirty>>
          /\ exec[e].pc # "working" /\ Breathing(e)
      BY <1>0, <1>5 DEF OrphanEnds
    <2> HIDE DEF x
    <2> QED
      BY <1>1, <2>1, <2>2, <2>3 DEF Moves, Same
  <1>6. CASE CollectAndReread(e)
    <2>0. PICK spoilt \in BOOLEAN :
             exec' = [exec EXCEPT
                ![e].pc = "settling",
                ![e].outcome = IF spoilt /\ @ \in {"completed", "needs_decision"}
                                 THEN "failed" ELSE @,
                ![e].seen = attempt[exec[e].attempt].status]
      BY <1>6 DEF CollectAndReread
    <2> DEFINE o == IF spoilt /\ exec[e].outcome \in {"completed", "needs_decision"}
                      THEN "failed" ELSE exec[e].outcome
               s == attempt[exec[e].attempt].status
               x == [exec[e] EXCEPT !.pc = "settling", !.outcome = o, !.seen = s]
    <2>1. exec[e].pc = "collecting" /\ exec[e].attempt \in Attempt
      BY <1>6 DEF CollectAndReread, ExecutorShape, Begun
    <2>2. s \in AttemptStatus \cup {"none", "absent"}
      BY <2>1 DEF TypeOK, AttemptRecord, AttemptStatus
    <2>3. o \in Outcome \cup {"none"} /\ o \in {exec[e].outcome, "failed"}
      BY <1>0 DEF Launch, Outcome
    <2>4. exec' = [exec EXCEPT ![e] = x] /\ UNCHANGED <<asking, dirty>>
      BY <1>0, <1>6, <2>0 DEF CollectAndReread
    <2> HIDE DEF o, s
    <2>5. x \in Launch
      <3> DEFINE y == [exec[e] EXCEPT !.pc = "settling", !.outcome = o]
      <3>1. y \in Launch
        BY <1>0, <2>3 DEF Launch, Pc, Live
      <3>2. x = [y EXCEPT !.seen = s]
        BY <1>0 DEF Launch
      <3> HIDE DEF x, y
      <3> QED
        BY <2>2, <3>1, <3>2 DEF Launch
    <2>6. /\ x.pc = "settling" /\ x.outcome = o /\ x.by = exec[e].by /\ x.run = exec[e].run
          /\ x.attempt = exec[e].attempt /\ x.target = exec[e].target /\ x.task = exec[e].task
          /\ x.child = exec[e].child
      BY <1>0 DEF Launch
    <2> HIDE DEF x
    <2> QED
      BY <1>1, <2>1, <2>3, <2>4, <2>5, <2>6 DEF Moves, Same
  <1>7. ASSUME NEW outcome \in Outcome, NEW session \in Session \cup {None},
               Close(e, outcome, session)
        PROVE  /\ exec' \in [Executor -> Launch] /\ OthersSame(e) /\ Moves(e)
               /\ UNCHANGED <<asking, dirty>>
    <2> DEFINE x == [exec[e] EXCEPT !.pc = "collecting", !.child = "gone", !.outcome = outcome,
                                    !.session = session]
    <2>1. x \in Launch
      BY <1>0 DEF Launch, Pc, Live
    <2>2. /\ x.pc = "collecting" /\ x.child = "gone" /\ x.outcome = outcome
          /\ x.by = exec[e].by /\ x.run = exec[e].run /\ x.attempt = exec[e].attempt
          /\ x.target = exec[e].target /\ x.task = exec[e].task
      BY <1>0 DEF Launch
    <2>3. /\ exec' = [exec EXCEPT ![e] = x] /\ UNCHANGED <<asking, dirty>>
          /\ exec[e].pc = "working" /\ Breathing(e)
      BY <1>0, <1>7 DEF Close
    <2> HIDE DEF x
    <2> QED
      BY <1>1, <2>1, <2>2, <2>3 DEF Moves, Same
  <1>8. ASSUME NEW session \in Session \cup {None}, InputError(e, session)
        PROVE  /\ exec' \in [Executor -> Launch] /\ OthersSame(e) /\ Moves(e)
               /\ UNCHANGED <<asking, dirty>>
    <2> DEFINE x == [exec[e] EXCEPT !.pc = "collecting", !.outcome = "failed", !.session = session]
    <2>1. x \in Launch
      BY <1>0 DEF Launch, Pc, Live, Outcome
    <2>2. /\ x.pc = "collecting" /\ x.outcome = "failed"
          /\ x.by = exec[e].by /\ x.run = exec[e].run /\ x.attempt = exec[e].attempt
          /\ x.target = exec[e].target /\ x.task = exec[e].task /\ x.child = exec[e].child
      BY <1>0 DEF Launch
    <2>3. /\ exec' = [exec EXCEPT ![e] = x] /\ UNCHANGED <<asking, dirty>>
          /\ exec[e].pc = "working" /\ Breathing(e)
      BY <1>0, <1>8 DEF InputError
    <2>4. ~ Supervised
      BY <1>8 DEF InputError, Supervised
    <2> HIDE DEF x
    <2> QED
      BY <1>1, <2>1, <2>2, <2>3, <2>4 DEF Moves, Same, Outcome
  <1>9. CASE Settle(e) \/ SettleChangesNothing(e)
    <2>0. PICK end \in {"done", "rejected"} : exec' = [exec EXCEPT ![e].pc = end]
      BY <1>9 DEF Settle, SettleChangesNothing
    <2> DEFINE x == [exec[e] EXCEPT !.pc = end]
    <2>1. x \in Launch
      BY <1>0 DEF Launch, Pc, Ended
    <2>2. /\ x.pc = end
          /\ x.by = exec[e].by /\ x.run = exec[e].run /\ x.attempt = exec[e].attempt
          /\ x.target = exec[e].target /\ x.task = exec[e].task /\ x.child = exec[e].child /\ x.outcome = exec[e].outcome
      BY <1>0 DEF Launch
    <2>3. /\ exec' = [exec EXCEPT ![e] = x] /\ UNCHANGED <<asking, dirty>>
          /\ exec[e].pc = "settling"
      BY <1>0, <1>9, <2>0 DEF Settle, SettleChangesNothing
    <2> HIDE DEF x
    <2> QED
      BY <1>1, <2>1, <2>2, <2>3 DEF Moves, Same
  <1> QED
    BY <1>2, <1>3, <1>4, <1>5, <1>6, <1>7, <1>8, <1>9

\* The processes of the UI, or one room:run, die.
LEMMA CrashEffect ==
    ASSUME ExecutorShape, NEW E \in SUBSET Executor, Crash(E)
    PROVE  /\ exec' \in [Executor -> Launch]
           /\ \A e \in Executor : exec'[e] = exec[e] \/ Dies(e)
           /\ UNCHANGED <<vars, asking, dirty>>
  <1>1. exec' = [e \in Executor |-> IF e \in E THEN [exec[e] EXCEPT !.pc = "crashed"] ELSE exec[e]]
    BY DEF Crash
  <1>2. \A e \in E : exec[e].pc \in Live
    BY DEF Crash
  <1>3. \A e \in Executor : exec[e] \in Launch /\ [exec[e] EXCEPT !.pc = "crashed"] \in Launch
    BY DEF ExecutorShape, Launch, Pc, Ended
  <1>4. exec' \in [Executor -> Launch]
    BY <1>1, <1>3
  <1>5. \A e \in Executor : exec'[e] = exec[e] \/ Dies(e)
    BY <1>1, <1>2 DEF Dies
  <1> QED
    BY <1>4, <1>5 DEF Crash

-----------------------------------------------------------------------------
(* Every step is one of the Room Service, or none. *)

\* What execute hands to settleRunAttempt is of the kinds it takes.
LEMMA SettlementKinds ==
    ASSUME ExecutorShape, NEW e \in Executor, exec[e].pc = "settling"
    PROVE  /\ Settlement(e).status \in TerminalStatus
           /\ Settlement(e).result \in Result \cup {None}
           /\ Settlement(e).failure \in Failure \cup {None}
           /\ Settlement(e).status = "succeeded" =>
                 /\ exec[e].outcome = "completed"
                 /\ Settlement(e).result = [status |-> "completed", task |-> exec[e].task]
  <1>1. exec[e].outcome \in Outcome /\ exec[e].task \in Task
    BY DEF ExecutorShape, Launch
  <1> DEFINE coded == [status |-> exec[e].outcome, task |-> exec[e].task]
  <1>2. exec[e].outcome \in {"completed", "needs_decision"} => coded \in Result
    BY <1>1 DEF Result
  <1>3. CASE exec[e].seen = "cancel_requested"
    BY <1>3 DEF Settlement, TerminalStatus, Failure
  <1>4. CASE exec[e].seen = "decision_requested"
    BY <1>2, <1>4 DEF Settlement, TerminalStatus, Failure
  <1>5. CASE exec[e].seen \notin {"cancel_requested", "decision_requested"}
    BY <1>1, <1>2, <1>5 DEF Settlement, ClassifyTerminal, TerminalStatus, Failure, Outcome
  <1> QED
    BY <1>3, <1>4, <1>5

\* Only a claim, a question, a settlement and what is written through `room serve` change
\* the rows of the service.
LEMMA ServiceSteps ==
    ASSUME TypeOK, ExecutorShape, ExecutorNext
    PROVE  \/ UNCHANGED vars
           \/ Steer
           \/ \E e \in Executor :
                 /\ ClaimAndSpawn(e)
                 /\ ClaimRunAttempt(exec[e].attempt, exec[e].run, exec[e].target)
           \/ \E a \in Attempt : AskQuestion(a) /\ UNCHANGED <<exec, dirty>>
           \/ \E e \in Executor : Settle(e)
  <1>1. ASSUME NEW e \in Executor, ExecutorStep(e)
        PROVE  \/ UNCHANGED vars
               \/ /\ ClaimAndSpawn(e)
                  /\ ClaimRunAttempt(exec[e].attempt, exec[e].run, exec[e].target)
               \/ Settle(e)
    BY <1>1 DEF ExecutorStep, StartRun, RunRoomRun, Begin, WorktreeGate, ClaimAndSpawn,
        StartRefused, Work, Ask, Poll, Close, InputError, OrphanEnds, CollectAndReread,
        SettleChangesNothing
  <1>2. ASSUME NEW a \in Attempt, ReceiveQuestion(a)
        PROVE  UNCHANGED vars \/ (AskQuestion(a) /\ UNCHANGED <<exec, dirty>>)
    BY <1>2 DEF ReceiveQuestion
  <1> QED
    BY <1>1, <1>2 DEF ExecutorNext, QuestionLost, Crash, CleanUp

\* The executors, the workers and the planner take no step together that the service does
\* not have.
LEMMA ExecutorRefines ==
    ASSUME TypeOK, ExecutorShape, [ExecutorNext /\ UNCHANGED trouble]_<<allVars, trouble>>
    PROVE  [Next]_vars
  <1>1. ASSUME NEW e \in Executor, ClaimAndSpawn(e),
               ClaimRunAttempt(exec[e].attempt, exec[e].run, exec[e].target)
        PROVE  Next
    <2>1. exec[e].run \in Run /\ exec[e].attempt \in Attempt /\ exec[e].target \in Worktree
      BY <1>1 DEF ClaimAndSpawn, ExecutorShape, Begun
    <2> QED
      BY <1>1, <2>1 DEF Next, Execution
  <1>2. ASSUME NEW e \in Executor, Settle(e) PROVE Next
    <2>1. /\ exec[e].pc = "settling"
          /\ SettleRunAttempt(exec[e].attempt, Settlement(e).status, Settlement(e).result,
                              Settlement(e).failure, exec[e].session)
      BY <1>2 DEF Settle
    <2>2. exec[e].attempt \in Attempt /\ exec[e].session \in Session \cup {None}
      BY <2>1 DEF ExecutorShape, Begun, Launch
    <2> QED
      BY <2>1, <2>2, SettlementKinds DEF Next, Execution
  <1>3. Steer => Next
    BY DEF Steer, Next
  <1>4. \A a \in Attempt : AskQuestion(a) => Next
    BY DEF Next, Execution
  <1>5. UNCHANGED <<allVars, trouble>> => UNCHANGED vars
    BY DEF allVars
  <1> QED
    BY <1>1, <1>2, <1>3, <1>4, <1>5, ServiceSteps

-----------------------------------------------------------------------------
(* Types. *)

\* The executions change one at a time, or several die at once.
LEMMA ExecutionSteps ==
    ASSUME TypeOK, ExecutorShape, ExecutorNext
    PROVE  /\ exec' \in [Executor -> Launch]
           /\ \/ exec' = exec
              \/ \E e \in Executor : /\ OthersSame(e) /\ UNCHANGED <<asking, dirty>>
                                     /\ Launches(e) \/ Refused(e) \/ Moves(e)
              \/ /\ \A e \in Executor : exec'[e] = exec[e] \/ Dies(e)
                 /\ "crash" \in trouble
                 /\ UNCHANGED <<vars, asking, dirty>>
  <1>0. exec \in [Executor -> Launch]
    BY DEF ExecutorShape
  <1> DEFINE One(e) == /\ exec' \in [Executor -> Launch] /\ OthersSame(e)
                       /\ UNCHANGED <<asking, dirty>>
                       /\ Launches(e) \/ Refused(e) \/ Moves(e)
  <1>1. ASSUME NEW e \in Executor, ExecutorStep(e) PROVE exec' = exec \/ One(e)
    <2>1. ASSUME NEW r \in Run, NEW a \in Attempt, NEW w \in Worktree,
                 StartRun(e, r, a, w) \/ RunRoomRun(e, r, a, w)
          PROVE  One(e)
      <3>1. CASE StartRun(e, r, a, w)
        BY <3>1, BeginEffect DEF StartRun, Launches
      <3>2. CASE RunRoomRun(e, r, a, w)
        BY <3>2, BeginEffect DEF RunRoomRun, Launches
      <3> QED
        BY <2>1, <3>1, <3>2
    <2>2. CASE WorktreeGate(e) /\ Refuse(e)
      BY <2>2, RefuseEffect DEF WorktreeGate
    <2>3. CASE StartRefused(e)
      BY <2>3, RefuseEffect DEF StartRefused
    <2>4. CASE Work(e) \/ Ask(e)
      BY <2>4 DEF Work, Ask
    <2> QED
      BY <1>1, <2>1, <2>2, <2>3, <2>4, MoveEffect DEF ExecutorStep
  <1>2. ASSUME NEW E \in SUBSET Executor, Crash(E)
        PROVE  /\ exec' \in [Executor -> Launch]
               /\ \A e \in Executor : exec'[e] = exec[e] \/ Dies(e)
               /\ "crash" \in trouble
               /\ UNCHANGED <<vars, asking, dirty>>
    BY <1>2, CrashEffect DEF Crash
  <1>3. Steer => exec' = exec
    BY DEF Steer, executorVars
  <1> QED
    BY <1>0, <1>1, <1>2, <1>3 DEF ExecutorNext, ReceiveQuestion, QuestionLost, CleanUp

\* Executions keep what they were started with.
LEMMA ExecutorShapeStep ==
    ASSUME TypeOK, ExecutorShape, [ExecutorNext /\ UNCHANGED trouble]_<<allVars, trouble>>
    PROVE  ExecutorShape'
  <1> DEFINE Good(x) ==
          /\ x.pc \notin {"idle", "refused"} =>
                x.run \in Run /\ x.attempt \in Attempt /\ x.target \in Worktree
          /\ x.pc \in {"idle", "refused"} => x.child = "none" /\ x.attempt = None
          /\ x.pc \in {"collecting", "settling", "done"} => x.outcome \in Outcome
  <1>1. /\ exec \in [Executor -> Launch] /\ asking \subseteq Attempt
        /\ dirty \in [Worktree -> SUBSET Run] /\ \A e \in Executor : Good(exec[e])
    BY DEF ExecutorShape, Begun
  <1>2. CASE UNCHANGED <<allVars, trouble>>
    BY <1>2 DEF allVars, executorVars, ExecutorShape, Begun
  <1>3. CASE ExecutorNext
    <2>1. exec' \in [Executor -> Launch]
      BY <1>3, ExecutionSteps
    <2>2. asking' \subseteq Attempt /\ dirty' \in [Worktree -> SUBSET Run]
      <3>1. ASSUME NEW e \in Executor, Work(e) \/ Ask(e)
            PROVE  asking' \subseteq Attempt /\ dirty' \in [Worktree -> SUBSET Run]
        <4>1. exec[e].attempt \in Attempt /\ exec[e].run \in Run
          BY <1>1, <3>1 DEF Work, Ask, Breathing
        <4> QED
          BY <1>1, <3>1, <4>1 DEF Work, Ask
      <3>2. ASSUME NEW e \in Executor, ExecutorStep(e), ~ Work(e), ~ Ask(e)
            PROVE  UNCHANGED <<asking, dirty>>
        BY <3>2 DEF ExecutorStep, StartRun, RunRoomRun, Begin, WorktreeGate, ClaimAndSpawn,
            StartRefused, Poll, Close, InputError, OrphanEnds, CollectAndReread, Settle,
            SettleChangesNothing
      <3> QED
        BY <1>1, <1>3, <3>1, <3>2 DEF ExecutorNext, Steer, executorVars, ReceiveQuestion,
            QuestionLost, Crash, CleanUp
    <2>3. ASSUME NEW e \in Executor PROVE Good(exec'[e])
      <3>1. CASE exec'[e] = exec[e]
        BY <1>1, <3>1
      <3>2. CASE Dies(e)
        BY <1>1, <3>2 DEF Dies, Live, Launch
      <3>3. CASE Launches(e) \/ Refused(e)
        BY <3>3 DEF Launches, Starts, Refused
      <3>4. CASE Moves(e)
        BY <1>1, <3>4 DEF Moves, Same, Breathing, Outcome
      <3> QED
        BY <1>3, <3>1, <3>2, <3>3, <3>4, ExecutionSteps DEF OthersSame
    <2> QED
      BY <2>1, <2>2, <2>3 DEF ExecutorShape, Begun
  <1> QED
    BY <1>2, <1>3

\* The executors are started on a service in its initial state.
LEMMA ExecutorShapeInit == ExecutorInit => ExecutorShape
  BY BoundAssumption DEF ExecutorInit, ExecutorShape, Begun, NotStarted, Launch, Pc, Task

\* What the executors, their workers and everybody who writes through `room serve` do
\* together is a behaviour of the Room Service: whatever is proved of it holds here.
THEOREM ExecutorsKeepTheService == ExecutorSpec => Spec /\ []ExecutorShape
  <1>1. ExecutorInit => Init /\ TypeOK /\ ExecutorShape
    BY ExecutorShapeInit, NoneAssumption, BoundAssumption
      DEF ExecutorInit, Init, TypeOK, NoRun, NoAttempt, RunRecord, AttemptRecord, RoomState, Task
  <1>2. TypeOK /\ ExecutorShape /\ [ExecutorNext /\ UNCHANGED trouble]_<<allVars, trouble>> =>
            [Next]_vars /\ TypeOK' /\ ExecutorShape'
    BY ExecutorRefines, TypeStep, ExecutorShapeStep
  <1> QED
    BY <1>1, <1>2, PTL DEF ExecutorSpec, Spec

-----------------------------------------------------------------------------
(* A worker has its worktree. *)

\* What a row of run_attempts keeps unless it is claimed or settled.
Stays(b) ==
    /\ attempt'[b].run = attempt[b].run
    /\ attempt'[b].worktree = attempt[b].worktree
    /\ IsActive(b) => attempt'[b].status \in ActiveStatus
    /\ attempt[b].status = "absent" => attempt'[b].status = "absent"
    /\ attempt'[b] = attempt[b] \/ attempt'[b].status \in ActiveStatus

\* Neither a question nor anything written through `room serve` ends an attempt.
LEMMA SteeredRows ==
    ASSUME TypeOK, Steer \/ (\E a \in Attempt : AskQuestion(a)) \/ UNCHANGED vars
    PROVE  \A b \in Attempt : Stays(b)
  <1>1. attempt \in [Attempt -> AttemptRecord]
    BY DEF TypeOK
  <1>2. ASSUME NEW a \in Attempt, IsActive(a), NEW s \in ActiveStatus,
               attempt' = [attempt EXCEPT ![a].status = s]
        PROVE  \A b \in Attempt : Stays(b)
    <2>1. /\ attempt'[a].status = s /\ attempt'[a].run = attempt[a].run
          /\ attempt'[a].worktree = attempt[a].worktree
          /\ \A b \in Attempt \ {a} : attempt'[b] = attempt[b]
      BY <1>1, <1>2, AttemptStatusEffect
    <2>2. attempt[a].status # "absent"
      BY <1>2 DEF IsActive, ActiveStatus
    <2> QED
      BY <1>2, <2>1, <2>2 DEF Stays, IsActive
  <1>3. ASSUME NEW r \in Run, NEW a \in Attempt, CancelRun(r, a)
        PROVE  \A b \in Attempt : Stays(b)
    BY <1>2, <1>3 DEF CancelRun, ActiveStatus
  <1>4. ASSUME NEW a \in Attempt, AskQuestion(a) PROVE \A b \in Attempt : Stays(b)
    BY <1>2, <1>4 DEF AskQuestion, ActiveStatus, IsActive
  <1>5. CASE attempt' = attempt
    BY <1>5 DEF Stays, IsActive
  <1>6. Planning => attempt' = attempt
    BY DEF Planning, TransitionToArchitectureReview, TransitionToWaitingForUserConfirmation,
        SubmitImplementation, SubmitFix
  <1>7. Steering => attempt' = attempt \/ \E r \in Run, a \in Attempt : CancelRun(r, a)
    BY DEF Steering, AnswerQuestion, SubmitReview, AcceptReview, RetryRun, AddRunGuidance
  <1> QED
    BY <1>3, <1>4, <1>5, <1>6, <1>7 DEF Steer, vars

\* Nor does any of it take a ready Run out of that status.
LEMMA SteeredRuns ==
    ASSUME TypeOK, Steer \/ (\E a \in Attempt : AskQuestion(a)) \/ UNCHANGED vars,
           NEW r \in Run, run[r].status = "ready"
    PROVE  run'[r].status = "ready"
  <1>0. run \in [Run -> RunRecord]
    BY DEF TypeOK
  <1>1. ASSUME NEW q, q # r, NEW x, run' = [run EXCEPT ![q] = x]
        PROVE  run'[r].status = "ready"
    BY <1>0, <1>1
  <1>2. CASE run' = run
    BY <1>2
  <1>3. ASSUME NEW q \in Run, SubmitImplementation(q) PROVE run'[r].status = "ready"
    BY <1>1, <1>3 DEF SubmitImplementation
  <1>4. ASSUME NEW q \in Run, NEW a \in Attempt, SubmitFix(q, a) PROVE run'[r].status = "ready"
    BY <1>0, <1>4 DEF SubmitFix
  <1>5. ASSUME NEW a \in Attempt, NEW c \in BOOLEAN, AnswerQuestion(a, c)
        PROVE  run'[r].status = "ready"
    BY <1>0, <1>5 DEF AnswerQuestion
  <1>6. ASSUME NEW a \in Attempt, NEW s \in Severity, SubmitReview(a, s)
        PROVE  run'[r].status = "ready"
    BY <1>0, <1>6 DEF SubmitReview
  <1>7. ASSUME NEW a \in Attempt, AcceptReview(a) PROVE run'[r].status = "ready"
    BY <1>0, <1>7 DEF AcceptReview
  <1>8. ASSUME NEW q \in Run, RetryRun(q) PROVE run'[r].status = "ready"
    BY <1>0, <1>8 DEF RetryRun
  <1>9. ASSUME NEW q \in Run, NEW a \in Attempt, CancelRun(q, a) PROVE run'[r].status = "ready"
    BY <1>0, <1>9 DEF CancelRun, RunTransition
  <1>10. Planning => \/ run' = run
                     \/ \E q \in Run : SubmitImplementation(q)
                     \/ \E q \in Run, a \in Attempt : SubmitFix(q, a)
    BY DEF Planning, TransitionToArchitectureReview, TransitionToWaitingForUserConfirmation
  <1>11. Steering => \/ run' = run
                     \/ \E a \in Attempt, c \in BOOLEAN : AnswerQuestion(a, c)
                     \/ \E a \in Attempt, s \in Severity : SubmitReview(a, s)
                     \/ \E a \in Attempt : AcceptReview(a)
                     \/ \E q \in Run : RetryRun(q)
                     \/ \E q \in Run, a \in Attempt : CancelRun(q, a)
    BY DEF Steering, AddRunGuidance
  <1>12. \A a \in Attempt : AskQuestion(a) => run' = run
    BY DEF AskQuestion
  <1> QED
    BY <1>2, <1>3, <1>4, <1>5, <1>6, <1>7, <1>8, <1>9, <1>10, <1>11, <1>12 DEF Steer, vars

\* What a settlement changes is the row of the attempt its execution has, and its Run.
LEMMA SettleStep ==
    ASSUME TypeOK, Rows, ExecutorShape, NEW e \in Executor, Settle(e)
    PROVE  LET a == exec[e].attempt IN
           /\ exec[e].pc = "settling" /\ a \in Attempt /\ IsActive(a) /\ attempt[a].run \in Run
           /\ run[attempt[a].run].status # "ready"
           /\ \A b \in Attempt \ {a} : attempt'[b] = attempt[b]
           /\ \A q \in Run \ {attempt[a].run} : run'[q] = run[q]
           /\ exec'[e].pc \in {"done", "rejected"}
           /\ exec'[e].child = exec[e].child /\ Same(e) /\ OthersSame(e)
  <1> DEFINE a == exec[e].attempt
  <1>1. exec[e].pc = "settling" /\ a \in Attempt
    BY DEF Settle, ExecutorShape, Begun
  <1>2. /\ SettleRunAttempt(a, Settlement(e).status, Settlement(e).result,
                            Settlement(e).failure, exec[e].session)
        /\ Settlement(e).status \in TerminalStatus
    BY <1>1, SettlementKinds DEF Settle
  <1>3. IsActive(a) /\ attempt[a].run \in Run
    BY <1>1, <1>2 DEF SettleRunAttempt, IsActive, ActiveStatus, Rows, LineageShared
  <1>4. /\ \A b \in Attempt \ {a} : attempt'[b] = attempt[b]
        /\ \A q \in Run \ {attempt[a].run} : run'[q] = run[q]
    BY <1>1, <1>2, <1>3, SettleEffect
  <1>5. run[attempt[a].run].status # "ready"
    <2>1. \A target : <<"ready", RunStatusForTerminal(target)>> \notin RunTransition
      BY DEF RunStatusForTerminal, RunTransition
    <2> QED
      BY <1>2, <2>1 DEF SettleRunAttempt, SettleAdmitted
  <1>6. OthersSame(e) /\ Moves(e)
    BY MoveEffect
  <1>7. /\ Same(e) /\ exec'[e].pc \in {"done", "rejected"} /\ exec'[e].child = exec[e].child
    <2>1. exec'[e].pc \in {"done", "rejected"}
      BY <1>1 DEF Settle, ExecutorShape, Launch
    <2> QED
      BY <1>1, <1>6, <2>1 DEF Moves
  <1> QED
    BY <1>1, <1>3, <1>4, <1>5, <1>6, <1>7

\* Only a claim for it takes a ready Run out of that status.
LEMMA ReadyLeaves ==
    ASSUME TypeOK, Rows, ExecutorShape, ExecutorNext,
           NEW r \in Run, run[r].status = "ready", run'[r].status # "ready"
    PROVE  \E e \in Executor : ClaimAndSpawn(e) /\ exec[e].run = r
  <1>1. ASSUME NEW e \in Executor, ClaimAndSpawn(e),
               ClaimRunAttempt(exec[e].attempt, exec[e].run, exec[e].target)
        PROVE  exec[e].run = r
    <2>1. exec[e].run \in Run /\ exec[e].attempt \in Attempt /\ exec[e].target \in Worktree
      BY <1>1 DEF ClaimAndSpawn, ExecutorShape, Begun
    <2> QED
      BY <1>1, <2>1, ClaimEffect
  <1>2. ASSUME NEW e \in Executor, Settle(e) PROVE FALSE
    BY <1>2, SettleStep
  <1> QED
    BY <1>1, <1>2, ServiceSteps, SteeredRuns

\* A Run that has a worktree keeps it.
LEMMA WorktreeStays ==
    ASSUME TypeOK, Rows, Coherent, [Next]_vars, NEW r \in Run, run[r].worktree # None
    PROVE  run'[r].worktree = run[r].worktree
  <1>1. CASE Quiet
    BY <1>1 DEF Quiet
  <1>2. ASSUME NEW a \in Attempt, NEW q \in Run, NEW w \in Worktree, ClaimRunAttempt(a, q, w)
        PROVE  run'[r].worktree = run[r].worktree
    <2>1. run[q].worktree \in {None, w}
      BY <1>2 DEF ClaimRunAttempt
    <2> QED
      BY <1>2, <2>1, ClaimEffect
  <1>3. ASSUME NEW a \in Attempt, NEW status \in TerminalStatus,
               NEW result \in Result \cup {None}, NEW failure \in Failure \cup {None},
               NEW session \in Session \cup {None},
               SettleRunAttempt(a, status, result, failure, session)
        PROVE  run'[r].worktree = run[r].worktree
    <2>1. attempt[a].run \in Run
      BY <1>3 DEF SettleRunAttempt, IsActive, ActiveStatus, Rows, LineageShared
    <2> QED
      BY <1>3, <2>1, SettleEffect
  <1>4. ASSUME NEW a \in Attempt, AcceptReview(a) PROVE run'[r].worktree = run[r].worktree
    <2>1. run' = [run EXCEPT ![attempt[a].run].status = "accepted"]
      BY <1>4 DEF AcceptReview
    <2> QED
      BY <2>1 DEF TypeOK, RunRecord
  <1> QED
    BY <1>1, <1>2, <1>3, <1>4, StepKinds

\* An attempt that exists stays where it is.
LEMMA PlaceStays ==
    ASSUME TypeOK, Rows, Coherent, [Next]_vars, NEW b \in Attempt, attempt[b].status # "absent"
    PROVE  attempt'[b].run = attempt[b].run /\ attempt'[b].worktree = attempt[b].worktree
  <1>1. CASE attempt'[b] = attempt[b]
    BY <1>1
  <1>2. CASE attempt'[b] # attempt[b]
    <2>1. /\ attempt'[b].run = attempt[b].run
          /\ <<attempt[b].status, attempt'[b].status>> \in AttemptTransition
      BY <1>2, AttemptStep
    <2>2. attempt'[b].status # "absent"
      BY <2>1 DEF AttemptTransition
    <2>3. /\ attempt[b].run \in Run /\ run[attempt[b].run].worktree = attempt[b].worktree
          /\ attempt[b].worktree \in Worktree
      BY DEF Rows, LineageShared
    <2>4. run'[attempt'[b].run].worktree = attempt'[b].worktree
      BY <2>2, RowsStep DEF Rows, LineageShared
    <2>5. run'[attempt[b].run].worktree = run[attempt[b].run].worktree
      BY <2>3, NoneAssumption, WorktreeStays
    <2> QED
      BY <2>1, <2>3, <2>4, <2>5
  <1> QED
    BY <1>1, <1>2

\* A worker that has its attempt was given it by the claim.
LEMMA PlacedStep ==
    ASSUME TypeOK, Rows, Coherent, ExecutorShape, Placed,
           [ExecutorNext /\ UNCHANGED trouble]_<<allVars, trouble>>
    PROVE  Placed'
  <1>1. [Next]_vars
    BY ExecutorRefines
  <1>2. ASSUME NEW e \in Executor, Spawned(e), exec'[e].attempt = exec[e].attempt,
               exec'[e].run = exec[e].run, exec'[e].target = exec[e].target
        PROVE  /\ attempt'[exec'[e].attempt].run = exec'[e].run
               /\ attempt'[exec'[e].attempt].worktree = exec'[e].target
    <2>1. exec[e].attempt \in Attempt /\ exec[e].run \in Run
      BY <1>2 DEF Spawned, Breathing, ExecutorShape, Begun
    <2>2. attempt[exec[e].attempt].run = exec[e].run
          /\ attempt[exec[e].attempt].worktree = exec[e].target
      BY <1>2 DEF Placed
    <2>3. attempt[exec[e].attempt].status # "absent"
      BY <2>1, <2>2, NoneAssumption DEF Rows, AbsentRowIsFree
    <2> QED
      BY <1>1, <1>2, <2>1, <2>2, <2>3, PlaceStays
  <1>3. ASSUME NEW e \in Executor, ClaimAndSpawn(e), Same(e)
        PROVE  /\ attempt'[exec'[e].attempt].run = exec'[e].run
               /\ attempt'[exec'[e].attempt].worktree = exec'[e].target
    <2>1. exec[e].run \in Run /\ exec[e].attempt \in Attempt /\ exec[e].target \in Worktree
      BY <1>3 DEF ClaimAndSpawn, ExecutorShape, Begun
    <2>2. CASE ClaimRunAttempt(exec[e].attempt, exec[e].run, exec[e].target)
      BY <1>3, <2>1, <2>2, ClaimEffect DEF Same
    <2>3. CASE RepeatsClaim(e) /\ UNCHANGED vars
      BY <1>3, <2>3 DEF Same, RepeatsClaim, vars
    <2> QED
      BY <1>3, <2>2, <2>3 DEF ClaimAndSpawn
  <1>4. CASE UNCHANGED <<allVars, trouble>>
    BY <1>4 DEF allVars, vars, executorVars, Placed, Spawned, Breathing
  <1>5. CASE ExecutorNext
    <2> SUFFICES ASSUME NEW e \in Executor, Spawned(e)'
                 PROVE  /\ attempt'[exec'[e].attempt].run = exec'[e].run
                        /\ attempt'[exec'[e].attempt].worktree = exec'[e].target
      BY DEF Placed
    <2>1. CASE exec'[e] = exec[e]
      BY <1>2, <2>1 DEF Spawned, Breathing
    <2>2. CASE Dies(e)
      <3>1. /\ exec'[e].pc = "crashed" /\ exec'[e].child = exec[e].child /\ exec'[e].run = exec[e].run
            /\ exec'[e].attempt = exec[e].attempt /\ exec'[e].target = exec[e].target
        BY <2>2 DEF Dies, ExecutorShape, Launch
      <3> QED
        BY <1>2, <3>1 DEF Spawned, Breathing
    <2>3. CASE Launches(e) \/ Refused(e)
      BY <2>3 DEF Launches, Starts, Refused, Spawned, Breathing
    <2>4. CASE Moves(e)
      <3>1. Spawned(e) \/ ClaimAndSpawn(e)
        BY <2>4 DEF Moves, Spawned, Breathing
      <3> QED
        BY <1>2, <1>3, <2>4, <3>1 DEF Moves, Same
    <2> QED
      BY <1>5, <2>1, <2>2, <2>3, <2>4, ExecutionSteps DEF OthersSame
  <1> QED
    BY <1>4, <1>5

\* Where only the UI starts executors, what a start has checked.
LEMMA UiLaunch ==
    ASSUME Supervised, NEW e \in Executor, Launches(e)
    PROVE  /\ Starts(e) /\ exec'[e].by = "ui" /\ UNCHANGED vars
           /\ run[exec'[e].run].status = "ready"
           /\ \A d \in Executor :
                 exec[d].by = "ui" /\ exec[d].run = exec'[e].run => exec[d].pc \notin Live
           /\ IdOfStart(exec'[e].attempt)
  BY DEF Supervised, Launches, RunRoomRun, StartRun, Begin

\* Under the UI no second execution is started for a Run, and a Run whose execution has not
\* claimed yet is left ready by everybody else.
LEMMA LaunchedStep ==
    ASSUME TypeOK, Rows, ExecutorShape, Supervised, Launched,
           [ExecutorNext /\ UNCHANGED trouble]_<<allVars, trouble>>
    PROVE  Launched'
  <1>1. CASE UNCHANGED <<allVars, trouble>>
    BY <1>1 DEF allVars, vars, executorVars, Launched
  <1>2. ASSUME NEW e \in Executor, OthersSame(e), Launches(e) PROVE Launched'
    <2>1. /\ exec'[e].by = "ui" /\ exec'[e].pc = "observing" /\ run' = run
          /\ run[exec'[e].run].status = "ready"
          /\ \A d \in Executor :
                exec[d].by = "ui" /\ exec[d].run = exec'[e].run => exec[d].pc \notin Live
      BY <1>2, UiLaunch DEF Starts, vars
    <2>2. \A d \in Executor \ {e} : exec'[d] = exec[d]
      BY <1>2 DEF OthersSame
    <2> QED
      BY <2>1, <2>2 DEF Launched
  <1>3. ASSUME ExecutorNext,
               \A e \in Executor : exec'[e] = exec[e] \/ Dies(e) \/ Refused(e) \/ Moves(e)
        PROVE  Launched'
    <2>1. ASSUME NEW e \in Executor
          PROVE  /\ exec'[e].by = "ui"
                 /\ exec'[e].pc \in Live => exec[e].pc \in Live /\ exec'[e].run = exec[e].run
                 /\ exec'[e].pc \in {"observing", "ready"} =>
                       exec[e].pc \in {"observing", "ready"} /\ exec'[e].run = exec[e].run
      <3>1. exec[e].by = "ui" /\ exec[e] \in Launch
        BY DEF Launched, ExecutorShape
      <3>2. CASE Dies(e)
        BY <3>1, <3>2 DEF Dies, Live, Launch
      <3>3. CASE Refused(e)
        BY <3>3 DEF Refused, Live
      <3>4. CASE Moves(e)
        BY <3>1, <3>4 DEF Moves, Same, Live
      <3> QED
        BY <1>3, <3>1, <3>2, <3>3, <3>4
    <2>2. ASSUME NEW e \in Executor, exec'[e].pc \in {"observing", "ready"}
          PROVE  run'[exec'[e].run].status = "ready"
      <3>1. /\ exec[e].pc \in {"observing", "ready"} /\ exec'[e].run = exec[e].run
            /\ exec[e].run \in Run
        BY <2>1, <2>2 DEF ExecutorShape, Begun
      <3>2. run[exec[e].run].status = "ready"
        BY <3>1 DEF Launched
      <3>3. ASSUME NEW d \in Executor, ClaimAndSpawn(d), exec[d].run = exec[e].run PROVE FALSE
        <4>1. exec[d].pc = "ready" /\ exec'[d].pc = "working"
          BY <3>3, ExecutorShape DEF ClaimAndSpawn, ExecutorShape, Launch
        <4>2. d = e
          BY <3>1, <3>3, <4>1 DEF Launched, Live
        <4> QED
          BY <2>2, <4>1, <4>2
      <3> QED
        BY <1>3, <3>1, <3>2, <3>3, ReadyLeaves
    <2> QED
      BY <2>1, <2>2 DEF Launched
  <1> QED
    BY <1>1, <1>2, <1>3, ExecutionSteps DEF OthersSame

\* Executions that go on without a claim or a settlement keep what they own.
LEMMA OwnedRest ==
    ASSUME ExecutorShape, ExecutorShape', Supervised, Owned,
           \A b \in Attempt : Stays(b),
           \A e \in Executor : \/ exec'[e] = exec[e] \/ Dies(e) \/ Refused(e)
                               \/ Moves(e) /\ exec[e].pc # "ready"
    PROVE  Owned'
  <1>1. \A e \in Executor : exec'[e].attempt \in {exec[e].attempt, None}
    BY DEF Dies, Refused, Moves, Same, ExecutorShape, Launch
  <1>2. \A d, e \in Executor : d # e /\ exec'[d].attempt = exec'[e].attempt => exec'[e].attempt = None
    BY <1>1 DEF Owned
  <1>3. ASSUME NEW e \in Executor
        PROVE  /\ exec'[e].pc \in {"observing", "ready"} =>
                     /\ exec'[e].child = "none"
                     /\ attempt'[exec'[e].attempt].status = "absent"
               /\ Breathing(e)' =>
                     /\ exec'[e].pc \in {"working", "crashed"}
                     /\ attempt'[exec'[e].attempt].status \in ActiveStatus
    <2>1. /\ exec[e].pc \in {"observing", "ready"} =>
                exec[e].child = "none" /\ attempt[exec[e].attempt].status = "absent"
          /\ Breathing(e) =>
                /\ exec[e].pc \in {"working", "crashed"}
                /\ IsActive(exec[e].attempt)
      BY DEF Owned
    <2>2. /\ exec[e].pc \in {"observing", "ready"} \/ Breathing(e) => exec[e].attempt \in Attempt
          /\ exec[e] \in Launch
      BY DEF ExecutorShape, Begun, Breathing
    <2>3. exec[e].pc \in {"observing", "ready"} \/ Breathing(e) => Stays(exec[e].attempt)
      BY <2>2
    <2>4. CASE exec'[e] = exec[e]
      BY <2>1, <2>3, <2>4 DEF Stays, Breathing, IsActive
    <2>5. CASE Dies(e)
      <3>1. /\ exec'[e].pc = "crashed" /\ exec'[e].child = exec[e].child /\ exec'[e].run = exec[e].run
            /\ exec'[e].attempt = exec[e].attempt /\ exec'[e].target = exec[e].target
        BY <2>2, <2>5 DEF Dies, Launch
      <3> QED
        BY <2>1, <2>3, <3>1 DEF Stays, Breathing, IsActive
    <2>6. CASE Refused(e)
      BY <2>6 DEF Refused, Breathing
    <2>7. CASE Moves(e) /\ exec[e].pc # "ready"
      <3>1. exec'[e].pc \in {"observing", "ready"} => exec[e].pc = "observing"
                                                      /\ exec'[e].child = exec[e].child
        BY <2>1, <2>7 DEF Moves, Breathing
      <3>2. Breathing(e)' => Breathing(e) /\ exec[e].pc = "working" /\ exec'[e].pc = "working"
        BY <2>1, <2>7 DEF Moves, Breathing
      <3>3. /\ exec'[e].attempt = exec[e].attempt /\ exec'[e].run = exec[e].run
            /\ exec'[e].target = exec[e].target
        BY <2>7 DEF Moves, Same
      <3> QED
        BY <2>1, <2>3, <3>1, <3>2, <3>3 DEF Stays, IsActive
    <2> QED
      BY <2>4, <2>5, <2>6, <2>7
  <1> QED
    BY <1>2, <1>3 DEF Owned, IsActive

\* A claim or a settlement changes the row of its own execution, which nobody else has.
LEMMA OwnedOthers ==
    ASSUME ExecutorShape, ExecutorShape', Owned, NEW e \in Executor, OthersSame(e), Same(e),
           exec[e].attempt \in Attempt,
           \A b \in Attempt \ {exec[e].attempt} : attempt'[b] = attempt[b],
           exec'[e].pc \notin {"observing", "ready"},
           Breathing(e)' =>
                /\ exec'[e].pc \in {"working", "crashed"}
                /\ attempt'[exec[e].attempt].status \in ActiveStatus
    PROVE  Owned'
  <1>1. \A d \in Executor : exec'[d].attempt = exec[d].attempt
    BY DEF Same, OthersSame
  <1>2. ASSUME NEW d \in Executor \ {e}
        PROVE  /\ exec'[d].pc \in {"observing", "ready"} =>
                     /\ exec'[d].child = "none"
                     /\ attempt'[exec'[d].attempt].status = "absent"
               /\ Breathing(d)' =>
                     /\ exec'[d].pc \in {"working", "crashed"}
                     /\ attempt'[exec'[d].attempt].status \in ActiveStatus
    <2>1. exec'[d] = exec[d]
      BY DEF OthersSame
    <2>2. exec[d].attempt # exec[e].attempt
      BY NoneAssumption DEF Owned
    <2>3. exec[d].pc \in {"observing", "ready"} \/ Breathing(d) => exec[d].attempt \in Attempt
      BY DEF ExecutorShape, Begun, Breathing
    <2>4. exec[d].pc \in {"observing", "ready"} \/ Breathing(d) =>
             attempt'[exec[d].attempt] = attempt[exec[d].attempt]
      BY <2>2, <2>3
    <2> QED
      BY <2>1, <2>4 DEF Owned, Breathing, IsActive
  <1> QED
    BY <1>1, <1>2 DEF Owned, Same, IsActive

\* Without a used ID no step gives one attempt to two executions, starts a worker for an
\* attempt that was claimed before, or ends the attempt of a worker that lives.
LEMMA OwnedStep ==
    ASSUME TypeOK, Rows, ExecutorShape, FreshIds, Owned,
           [ExecutorNext /\ UNCHANGED trouble]_<<allVars, trouble>>
    PROVE  Owned'
  <1>1. ExecutorShape' /\ Supervised
    BY ExecutorShapeStep DEF FreshIds
  <1>2. CASE UNCHANGED <<allVars, trouble>>
    BY <1>1, <1>2, SteeredRows, OwnedRest DEF allVars, executorVars
  <1>3. ASSUME NEW e \in Executor, OthersSame(e), Launches(e) PROVE Owned'
    <2>1. /\ Starts(e) /\ attempt' = attempt
          /\ attempt[exec'[e].attempt].status = "absent"
          /\ \A d \in Executor : exec[d].attempt # exec'[e].attempt
      BY <1>1, <1>3, UiLaunch DEF IdOfStart, FreshIds, vars
    <2> QED
      BY <1>3, <2>1 DEF Owned, OthersSame, Starts, Breathing, IsActive
  <1>4. ASSUME NEW e \in Executor, ClaimAndSpawn(e) PROVE Owned'
    <2>1. exec[e].pc = "ready" /\ exec[e].attempt \in Attempt /\ exec[e].run \in Run
          /\ exec[e].target \in Worktree
      BY <1>4 DEF ClaimAndSpawn, ExecutorShape, Begun
    <2>2. attempt[exec[e].attempt].status = "absent"
      BY <2>1 DEF Owned
    <2>3. ~ RepeatsClaim(e)
      BY <2>1, <2>2, NoneAssumption DEF RepeatsClaim, Rows, AbsentRowIsFree
    <2>4. ClaimRunAttempt(exec[e].attempt, exec[e].run, exec[e].target)
      BY <1>4, <2>3 DEF ClaimAndSpawn
    <2>5. /\ attempt'[exec[e].attempt].status = "running"
          /\ \A b \in Attempt \ {exec[e].attempt} : attempt'[b] = attempt[b]
      BY <2>1, <2>4, ClaimEffect
    <2>6. OthersSame(e) /\ Moves(e)
      BY <1>4, MoveEffect
    <2>7. Same(e) /\ exec'[e].pc = "working"
      BY <2>1, <2>2, <2>6 DEF Moves, Owned, Breathing
    <2> QED
      BY <1>1, <2>1, <2>5, <2>6, <2>7, OwnedOthers DEF IsActive, ActiveStatus
  <1>5. ASSUME NEW e \in Executor, Settle(e) PROVE Owned'
    <2>1. /\ exec[e].pc = "settling" /\ exec[e].attempt \in Attempt
          /\ \A b \in Attempt \ {exec[e].attempt} : attempt'[b] = attempt[b]
          /\ exec'[e].pc \in {"done", "rejected"} /\ exec'[e].child = exec[e].child
          /\ Same(e) /\ OthersSame(e)
      BY <1>5, SettleStep
    <2>2. ~ Breathing(e)'
      BY <2>1 DEF Owned, Breathing
    <2> QED
      BY <1>1, <2>1, <2>2, OwnedOthers
  <1>6. ASSUME ExecutorNext, \A e \in Executor : ~ ClaimAndSpawn(e) /\ ~ Settle(e),
               \A e \in Executor : exec'[e] = exec[e] \/ Dies(e) \/ Refused(e) \/ Moves(e)
        PROVE  Owned'
    <2>1. \A b \in Attempt : Stays(b)
      BY <1>6, ServiceSteps, SteeredRows
    <2>2. \A e \in Executor : Moves(e) => exec[e].pc # "ready"
      BY <1>6 DEF Moves, Owned, Breathing
    <2> QED
      BY <1>1, <1>6, <2>1, <2>2, OwnedRest
  <1> QED
    BY <1>2, <1>3, <1>4, <1>5, <1>6, ExecutionSteps DEF OthersSame

\* Where no executor dies, no step ends the attempt of a worker that lives, or takes its Run
\* from it.
LEMMA AttendedStep ==
    ASSUME TypeOK, Rows, ExecutorShape, Supervised, "crash" \notin trouble,
           Placed, Launched, Attended,
           [ExecutorNext /\ UNCHANGED trouble]_<<allVars, trouble>>
    PROVE  Attended'
  <1>0. \A e \in Executor : exec[e].pc # "crashed" /\ (Breathing(e) => exec[e].pc = "working")
    BY DEF Attended
  <1> DEFINE Has(e) == /\ exec[e].attempt \in Attempt /\ exec[e].run \in Run
                       /\ attempt[exec[e].attempt].run = exec[e].run
                       /\ attempt[exec[e].attempt].status # "absent"
                       /\ IsActive(exec[e].attempt) \/ run[exec[e].run].status = "ready"
             Kept(e) == \/ attempt'[exec[e].attempt].status \in ActiveStatus
                        \/ run'[exec[e].run].status = "ready"
  <1>1. ASSUME NEW e \in Executor, Breathing(e) PROVE Has(e)
    <2>1. exec[e].attempt \in Attempt /\ exec[e].run \in Run
      BY <1>1 DEF Breathing, ExecutorShape, Begun
    <2>2. attempt[exec[e].attempt].run = exec[e].run
      BY <1>1 DEF Placed, Spawned
    <2>3. attempt[exec[e].attempt].status # "absent"
      BY <2>1, <2>2, NoneAssumption DEF Rows, AbsentRowIsFree
    <2> QED
      BY <1>1, <2>1, <2>2, <2>3 DEF Attended
  <1>2. CASE UNCHANGED <<allVars, trouble>>
    BY <1>2 DEF allVars, vars, executorVars, Attended, Breathing, IsActive
  <1>3. ASSUME NEW e \in Executor, ClaimAndSpawn(e) PROVE Attended'
    <2>1. /\ exec[e].pc = "ready" /\ exec[e].run \in Run /\ exec[e].attempt \in Attempt
          /\ exec[e].target \in Worktree
      BY <1>3 DEF ClaimAndSpawn, ExecutorShape, Begun
    <2>2. /\ exec'[e].pc = "working" /\ exec'[e].attempt = exec[e].attempt
          /\ exec'[e].run = exec[e].run /\ OthersSame(e)
      BY <1>0, <1>3, <2>1, MoveEffect DEF Moves, Same, Breathing
    <2>3. ASSUME NEW d \in Executor \ {e}, Breathing(d)
          PROVE  Has(d) /\ exec[d].pc = "working" /\ exec[d].run # exec[e].run
      BY <1>0, <1>1, <2>1, <2>3 DEF Launched, Live
    <2>4. CASE ClaimRunAttempt(exec[e].attempt, exec[e].run, exec[e].target)
      <3>1. /\ attempt'[exec[e].attempt].status = "running"
            /\ \A b \in Attempt \ {exec[e].attempt} : attempt'[b] = attempt[b]
            /\ \A q \in Run \ {exec[e].run} : run'[q] = run[q]
        BY <2>1, <2>4, ClaimEffect
      <3>4. attempt[exec[e].attempt].status = "absent"
        BY <2>4 DEF ClaimRunAttempt
      <3>2. ASSUME NEW d \in Executor \ {e}, Breathing(d) PROVE Kept(d)
        <4>1. exec[d].attempt # exec[e].attempt
          BY <2>3, <3>2, <3>4
        <4>2. /\ attempt'[exec[d].attempt] = attempt[exec[d].attempt]
              /\ run'[exec[d].run] = run[exec[d].run]
          BY <2>3, <3>1, <3>2, <4>1
        <4> QED
          BY <2>3, <3>2, <4>2 DEF IsActive
      <3>3. Kept(e)
        BY <3>1 DEF IsActive, ActiveStatus
      <3> QED
        BY <1>0, <2>2, <3>2, <3>3 DEF Attended, OthersSame, Breathing, IsActive
    <2>5. CASE UNCHANGED vars
      <3>1. Kept(e)
        BY <2>1, <2>5 DEF Launched, vars
      <3>2. ASSUME NEW d \in Executor \ {e}, Breathing(d) PROVE Kept(d)
        BY <2>3, <2>5, <3>2 DEF IsActive, vars
      <3> QED
        BY <1>0, <2>2, <3>1, <3>2 DEF Attended, OthersSame, Breathing, IsActive
    <2> QED
      BY <1>3, <2>4, <2>5 DEF ClaimAndSpawn
  <1>4. ASSUME NEW e \in Executor, Settle(e) PROVE Attended'
    <2>1. /\ exec[e].pc = "settling" /\ exec[e].attempt \in Attempt
          /\ \A b \in Attempt \ {exec[e].attempt} : attempt'[b] = attempt[b]
          /\ \A q \in Run \ {attempt[exec[e].attempt].run} : run'[q] = run[q]
          /\ exec'[e].pc \in {"done", "rejected"} /\ exec'[e].child = exec[e].child
          /\ OthersSame(e)
      BY <1>4, SettleStep
    <2>2. attempt[exec[e].attempt].run = exec[e].run
      BY <2>1 DEF Placed, Spawned
    <2>3. ~ Breathing(e)'
      BY <1>0, <2>1 DEF Breathing
    <2>4. ASSUME NEW d \in Executor \ {e}, Breathing(d) PROVE Kept(d)
      <3>1. exec[d].run # exec[e].run
        BY <1>0, <2>1, <2>4 DEF Launched, Live
      <3>2. Has(d)
        BY <1>1, <2>4
      <3>3. /\ attempt'[exec[d].attempt] = attempt[exec[d].attempt]
            /\ run'[exec[d].run] = run[exec[d].run]
        BY <2>1, <2>2, <3>1, <3>2
      <3> QED
        BY <3>2, <3>3 DEF IsActive
    <2>5. exec'[e].pc # "crashed" /\ \A d \in Executor \ {e} : exec'[d] = exec[d]
      BY <2>1 DEF OthersSame
    <2> QED
      BY <1>0, <2>3, <2>4, <2>5 DEF Attended, Breathing, IsActive
  <1>5. ASSUME ExecutorNext, \A e \in Executor : ~ ClaimAndSpawn(e) /\ ~ Settle(e)
        PROVE  Attended'
    <2>1. Steer \/ (\E a \in Attempt : AskQuestion(a)) \/ UNCHANGED vars
      BY <1>5, ServiceSteps
    <2>2. ASSUME NEW e \in Executor, Breathing(e) PROVE Kept(e)
      <3>1. Has(e)
        BY <1>1, <2>2
      <3>2. IsActive(exec[e].attempt) => attempt'[exec[e].attempt].status \in ActiveStatus
        BY <2>1, <3>1, SteeredRows DEF Stays, IsActive
      <3>3. run[exec[e].run].status = "ready" => run'[exec[e].run].status = "ready"
        BY <2>1, <3>1, SteeredRuns
      <3> QED
        BY <3>1, <3>2, <3>3
    <2>3. ASSUME NEW e \in Executor
          PROVE  /\ exec'[e].pc # "crashed"
                 /\ Breathing(e)' => /\ Breathing(e) /\ exec'[e].pc = "working"
                                     /\ exec'[e].attempt = exec[e].attempt
                                     /\ exec'[e].run = exec[e].run
      <3>1. exec[e].pc # "crashed" /\ (Breathing(e) => exec[e].pc = "working")
        BY <1>0
      <3>2. exec'[e] = exec[e] \/ Launches(e) \/ Refused(e) \/ Moves(e)
        BY <1>5, ExecutionSteps DEF OthersSame
      <3>3. CASE exec'[e] = exec[e]
        BY <3>1, <3>3 DEF Breathing
      <3>4. CASE Launches(e) \/ Refused(e)
        BY <3>4 DEF Launches, Starts, Refused, Breathing
      <3>5. CASE Moves(e)
        BY <1>5, <3>1, <3>5 DEF Moves, Same, Breathing
      <3> QED
        BY <3>2, <3>3, <3>4, <3>5
    <2> QED
      BY <2>2, <2>3 DEF Attended, IsActive
  <1> QED
    BY <1>2, <1>3, <1>4, <1>5

\* What holds under the UI goes on.
LEMMA GovernedStep ==
    ASSUME TypeOK, Rows, ExecutorShape, Placed, Governed,
           [ExecutorNext /\ UNCHANGED trouble]_<<allVars, trouble>>
    PROVE  Governed'
  <1>1. trouble' = trouble
    OBVIOUS
  <1>2. ASSUME Supervised PROVE Launched'
    BY <1>2, LaunchedStep DEF Governed
  <1>3. ASSUME FreshIds PROVE Owned'
    BY <1>3, OwnedStep DEF Governed
  <1>4. ASSUME Supervised, "crash" \notin trouble PROVE Attended'
    BY <1>4, AttendedStep DEF Governed
  <1> QED
    BY <1>1, <1>2, <1>3, <1>4 DEF Governed, Supervised, FreshIds

\* Nothing has been started yet.
LEMMA ExecutorsInit == ExecutorInit => Placed /\ Governed /\ Held
  BY DEF ExecutorInit, NotStarted, Placed, Spawned, Governed, Launched, Live, Owned, Attended,
     Breathing, Held

-----------------------------------------------------------------------------
(* Work that is not accepted is held. *)

\* The Run of a worker has the worktree the worker writes in.
LEMMA WorkerLeases ==
    ASSUME TypeOK, Rows, ExecutorShape, Placed, NEW e \in Executor, Breathing(e)
    PROVE  /\ exec[e].run \in Run /\ exec[e].target \in Worktree
           /\ exec[e].attempt \in AttemptsOf(exec[e].run)
           /\ attempt[exec[e].attempt].worktree = exec[e].target
           /\ run[exec[e].run].worktree = exec[e].target
  <1>1. exec[e].attempt \in Attempt /\ exec[e].run \in Run /\ exec[e].target \in Worktree
    BY DEF ExecutorShape, Begun, Breathing
  <1>2. /\ exec[e].attempt \in AttemptsOf(exec[e].run)
        /\ attempt[exec[e].attempt].worktree = exec[e].target
    BY <1>1 DEF Placed, Spawned, AttemptsOf
  <1> QED
    BY <1>1, <1>2, RowOfRun

\* Work is left by workers only, and lies where their Run stays.
LEMMA HeldStep ==
    ASSUME TypeOK, Rows, Coherent, ExecutorShape, Placed, Held,
           [ExecutorNext /\ UNCHANGED trouble]_<<allVars, trouble>>
    PROVE  Held'
  <1>1. [Next]_vars /\ dirty \in [Worktree -> SUBSET Run]
    BY ExecutorRefines DEF ExecutorShape
  <1>2. ASSUME NEW w \in Worktree, NEW r \in dirty[w] PROVE run'[r].worktree = w
    <2>1. r \in Run /\ run[r].worktree = w /\ w # None
      BY <1>1, NoneAssumption DEF Held
    <2> QED
      BY <1>1, <2>1, WorktreeStays
  <1>3. ASSUME NEW e \in Executor, Work(e) PROVE Held'
    <2>1. /\ Breathing(e) /\ UNCHANGED vars
          /\ dirty' = [dirty EXCEPT ![exec[e].target] = @ \cup {exec[e].run}]
      BY <1>3 DEF Work
    <2>2. run[exec[e].run].worktree = exec[e].target
      BY <2>1, WorkerLeases
    <2>3. run' = run
      BY <2>1 DEF vars
    <2> QED
      BY <1>1, <2>1, <2>2, <2>3 DEF Held
  <1>4. ASSUME NEW w \in Worktree, CleanUp(w) PROVE Held'
    BY <1>1, <1>2, <1>4 DEF CleanUp, Held
  <1>5. CASE dirty' = dirty
    BY <1>2, <1>5 DEF Held
  <1>6. ASSUME NEW e \in Executor, ExecutorStep(e), ~ Work(e) PROVE dirty' = dirty
    BY <1>6 DEF ExecutorStep, StartRun, RunRoomRun, Begin, WorktreeGate, ClaimAndSpawn,
        StartRefused, Ask, Poll, Close, InputError, OrphanEnds, CollectAndReread, Settle,
        SettleChangesNothing
  <1> QED
    BY <1>3, <1>4, <1>5, <1>6
      DEF ExecutorNext, Steer, executorVars, ReceiveQuestion, QuestionLost, Crash, allVars

\* Uncommitted work of a Run that is not accepted lies in the worktree that Run holds, under
\* every combination of troubles.
THEOREM UnacceptedWorkHeld == ExecutorSpec => []UnacceptedWorkIsHeld
  <1>1. ExecutorInit => Placed /\ Held
    BY ExecutorsInit
  <1>2. TypeOK /\ Rows /\ Coherent /\ ExecutorShape /\ Placed /\ Held
          /\ [ExecutorNext /\ UNCHANGED trouble]_<<allVars, trouble>> => Placed' /\ Held'
    BY PlacedStep, HeldStep
  <1>3. Held => UnacceptedWorkIsHeld
    BY DEF Held, UnacceptedWorkIsHeld
  <1> QED
    BY <1>1, <1>2, <1>3, ExecutorsKeepTheService, TypeCorrect, RowsConsistent,
       RunAndAttemptsAgree, PTL DEF ExecutorSpec

\* Where no executor dies or no attempt ID is used again, the Run of a worker is not accepted.
LEMMA WorkersRunIsOpen ==
    ASSUME TypeOK, Rows, Coherent, ExecutorShape, Placed, Governed, Orderly,
           NEW e \in Executor, Breathing(e)
    PROVE  /\ run[exec[e].run].status # "accepted"
           /\ FreshIds => IsActive(exec[e].attempt)
  <1>1. IsActive(exec[e].attempt) \/ run[exec[e].run].status = "ready"
    BY DEF Orderly, FreshIds, Governed, Owned, Attended
  <1>2. IsActive(exec[e].attempt) => run[exec[e].run].status \in {"running", "cancel_requested"}
    BY WorkerLeases, ActiveRunStatus
  <1>3. FreshIds => IsActive(exec[e].attempt)
    BY DEF Governed, Owned
  <1> QED
    BY <1>1, <1>2, <1>3

\* Nor is it the Run of another worker.
LEMMA WorkersApart ==
    ASSUME TypeOK, Rows, Coherent, WorktreeLeaseUnique, ActiveAttemptsApart, ExecutorShape,
           Placed, Governed, Orderly, NEW d \in Executor, NEW e \in Executor,
           Breathing(d), Breathing(e), d # e
    PROVE  exec[d].target # exec[e].target
  <1> SUFFICES ASSUME exec[d].target = exec[e].target PROVE FALSE
    OBVIOUS
  <1>1. CASE FreshIds
    <2>1. IsActive(exec[d].attempt) /\ IsActive(exec[e].attempt)
      BY <1>1, WorkersRunIsOpen
    <2>2. exec[d].attempt \in Attempt /\ exec[e].attempt \in Attempt
      BY WorkerLeases DEF AttemptsOf
    <2>3. exec[d].attempt # exec[e].attempt
      BY <1>1, <2>2, NoneAssumption DEF Governed, Owned
    <2>4. attempt[exec[d].attempt].worktree = attempt[exec[e].attempt].worktree
      BY WorkerLeases
    <2> QED
      BY <2>1, <2>2, <2>3, <2>4 DEF ActiveAttemptsApart
  <1>2. CASE Supervised /\ "crash" \notin trouble
    <2>1. exec[d].run \in Run /\ exec[e].run \in Run
      BY WorkerLeases
    <2>2. /\ run[exec[d].run].worktree = run[exec[e].run].worktree
          /\ run[exec[d].run].worktree # None
      BY WorkerLeases, NoneAssumption
    <2>3. run[exec[d].run].status # "accepted" /\ run[exec[e].run].status # "accepted"
      BY WorkersRunIsOpen
    <2>4. exec[d].run = exec[e].run
      BY <2>1, <2>2, <2>3 DEF WorktreeLeaseUnique
    <2>5. exec[d].pc = "working" /\ exec[e].pc = "working"
      BY <1>2 DEF Governed, Attended
    <2> QED
      BY <1>2, <2>4, <2>5 DEF Governed, Launched, Live
  <1> QED
    BY <1>1, <1>2 DEF Orderly, FreshIds

\* A worker works for an attempt of its Run, whatever happens; under the UI it has the worktree
\* its Run leases and has it alone, unless executors die while attempt IDs are used again.
THEOREM WorkersHoldWorktrees == ExecutorSpec => []WorkerHoldsWorktree
  <1>1. ExecutorInit => Placed /\ Governed
    BY ExecutorsInit
  <1>2. TypeOK /\ Rows /\ Coherent /\ ExecutorShape /\ Placed /\ Governed
          /\ [ExecutorNext /\ UNCHANGED trouble]_<<allVars, trouble>> => Placed' /\ Governed'
    BY PlacedStep, GovernedStep
  <1>3. TypeOK /\ Rows /\ Coherent /\ WorktreeLeaseUnique /\ ActiveAttemptsApart
          /\ ExecutorShape /\ Placed /\ Governed => WorkerHoldsWorktree
    <2> SUFFICES ASSUME TypeOK, Rows, Coherent, WorktreeLeaseUnique, ActiveAttemptsApart,
                        ExecutorShape, Placed, Governed
                 PROVE  WorkerHoldsWorktree
      OBVIOUS
    <2>1. ProcessOwnsAttempt
      BY WorkerLeases, WorkersRunIsOpen
        DEF ProcessOwnsAttempt, AttemptsOf, Orderly, FreshIds
    <2>2. OneProcessPerWorktree
      BY WorkersApart DEF OneProcessPerWorktree
    <2> QED
      BY <2>1, <2>2 DEF WorkerHoldsWorktree
  <1> QED
    BY <1>1, <1>2, <1>3, ExecutorsKeepTheService, TypeCorrect, RowsConsistent,
       RunAndAttemptsAgree, LeaseExclusive, ActiveAttemptsApartAlways, PTL DEF ExecutorSpec

-----------------------------------------------------------------------------
(* Success is earned. *)

\* What has ended stays as it ended.
LEMMA DoneStays ==
    ASSUME TypeOK, ExecutorShape, ExecutorNext, NEW e \in Executor,
           exec[e].pc = "done", exec[e].child = "gone"
    PROVE  exec'[e] = exec[e]
  <1>1. ~ Launches(e) /\ ~ Refused(e) /\ ~ Moves(e) /\ ~ Dies(e)
    BY DEF Launches, Starts, Refused, Moves, Dies, Live, Breathing
  <1> QED
    BY <1>1, ExecutionSteps DEF OthersSame

\* A settlement as succeeded is that of a worker that completed the Task of its attempt.
LEMMA SettledAsSucceeded ==
    ASSUME TypeOK, Rows, ExecutorShape, NEW e \in Executor, Settle(e),
           NEW a \in Attempt, attempt[a].status # "succeeded", attempt'[a].status = "succeeded"
    PROVE  /\ a = exec[e].attempt /\ exec[e].pc = "settling" /\ exec[e].outcome = "completed"
           /\ exec[e].task = attempt'[a].task
           /\ exec'[e] = [exec[e] EXCEPT !.pc = "done"]
  <1> DEFINE s == Settlement(e)
             b == exec[e].attempt
  <1>1. exec[e].pc = "settling" /\ b \in Attempt /\ s.status \in TerminalStatus
    BY SettlementKinds DEF Settle, ExecutorShape, Begun
  <1>2. SettleRunAttempt(b, s.status, s.result, s.failure, exec[e].session)
    BY DEF Settle
  <1>3. attempt[b].run \in Run
    BY <1>1, <1>2 DEF SettleRunAttempt, IsActive, ActiveStatus, Rows, LineageShared
  <1>4. a = b /\ attempt'[b].task = attempt[b].task
    BY <1>1, <1>2, <1>3, SettleEffect
  <1>5. attempt'[b].status = SettleTarget(b, s.status)
    <2>1. attempt \in [Attempt -> AttemptRecord]
      BY DEF TypeOK
    <2> DEFINE target == SettleTarget(b, s.status)
               re == IF target = "canceled" THEN None ELSE s.result
               fa == IF target = "canceled" THEN None ELSE s.failure
    <2>2. attempt' = [attempt EXCEPT ![b].status = target, ![b].result = re, ![b].failure = fa,
                                     ![b].session = exec[e].session]
      BY <1>2, Zenon DEF SettleRunAttempt
    <2> HIDE DEF target, re, fa, b
    <2> QED
      BY <1>1, <2>1, <2>2 DEF AttemptRecord, target
  <1>6. SettleTarget(b, s.status) = "succeeded" /\ s.status = "succeeded"
    BY <1>4, <1>5 DEF SettleTarget
  <1>7. s.result = [status |-> "completed", task |-> attempt[b].task]
    BY <1>2, <1>6 DEF SettleRunAttempt, SettleAdmitted, IsCanonicalPayload
  <1>8. exec[e].outcome = "completed" /\ s.result = [status |-> "completed", task |-> exec[e].task]
    BY <1>1, <1>6, SettlementKinds
  <1>9. exec[e].task = attempt[b].task
    BY <1>7, <1>8
  <1>10. exec'[e] = [exec[e] EXCEPT !.pc = "done"]
    BY DEF Settle, ExecutorShape
  <1> QED
    BY <1>1, <1>4, <1>8, <1>9, <1>10

\* No step makes a success of anything else.
LEMMA EarnedStep ==
    ASSUME TypeOK, Rows, ExecutorShape, Earned,
           [ExecutorNext /\ UNCHANGED trouble]_<<allVars, trouble>>
    PROVE  Earned'
  <1> DEFINE Closed(x) ==
          x.pc \in {"collecting", "settling", "done"} /\ x.outcome = "completed" =>
              x.child = "gone"
             By(x, a) ==
          /\ x.attempt = a /\ x.pc = "done" /\ x.outcome = "completed" /\ x.child = "gone"
  <1>1. CASE UNCHANGED <<allVars, trouble>>
    BY <1>1 DEF allVars, vars, executorVars, Earned, SuccessIsEarned
  <1>2. CASE ExecutorNext
    <2>1. [Next]_vars /\ exec \in [Executor -> Launch]
      BY ExecutorRefines DEF ExecutorShape
    <2>2. ASSUME NEW e \in Executor PROVE Closed(exec'[e])
      <3>1. Closed(exec[e])
        BY DEF Earned
      <3>2. CASE exec'[e] = exec[e]
        BY <3>1, <3>2
      <3>3. CASE Dies(e)
        BY <2>1, <3>3 DEF Dies, Launch
      <3>4. CASE Launches(e) \/ Refused(e)
        BY <3>4 DEF Launches, Starts, Refused
      <3>5. CASE Moves(e)
        BY <3>1, <3>5 DEF Moves
      <3> QED
        BY <1>2, <3>2, <3>3, <3>4, <3>5, ExecutionSteps DEF OthersSame
    <2>3. ASSUME NEW a \in Attempt, attempt[a].status = "succeeded"
          PROVE  \E e \in Executor : By(exec'[e], a) /\ exec'[e].task = attempt'[a].task
      <3>1. PICK e \in Executor : By(exec[e], a) /\ exec[e].task = attempt[a].task
        BY <2>3 DEF Earned, SuccessIsEarned
      <3>2. attempt'[a] = attempt[a]
        BY <2>1, <2>3, TerminalStays DEF TerminalStatus
      <3>3. exec'[e] = exec[e]
        BY <1>2, <3>1, DoneStays
      <3> QED
        BY <3>1, <3>2, <3>3
    <2>4. ASSUME NEW a \in Attempt, attempt[a].status # "succeeded",
                 attempt'[a].status = "succeeded"
          PROVE  \E e \in Executor : By(exec'[e], a) /\ exec'[e].task = attempt'[a].task
      <3>1. ~ Stays(a)
        BY <2>4 DEF Stays, ActiveStatus
      <3>2. ASSUME NEW e \in Executor, ClaimAndSpawn(e),
                   ClaimRunAttempt(exec[e].attempt, exec[e].run, exec[e].target)
            PROVE  FALSE
        <4>1. exec[e].run \in Run /\ exec[e].attempt \in Attempt /\ exec[e].target \in Worktree
          BY <3>2 DEF ClaimAndSpawn, ExecutorShape, Begun
        <4> QED
          BY <2>4, <3>2, <4>1, ClaimEffect
      <3>3. PICK e \in Executor : Settle(e)
        BY <1>2, <3>1, <3>2, ServiceSteps, SteeredRows
      <3>4. /\ a = exec[e].attempt /\ exec[e].pc = "settling" /\ exec[e].outcome = "completed"
            /\ exec[e].task = attempt'[a].task
            /\ exec'[e] = [exec[e] EXCEPT !.pc = "done"]
        BY <2>4, <3>3, SettledAsSucceeded
      <3>5. exec[e].child = "gone"
        BY <3>4 DEF Earned
      <3> QED
        BY <2>1, <3>4, <3>5 DEF Launch
    <2> QED
      BY <2>2, <2>3, <2>4 DEF Earned, SuccessIsEarned
  <1> QED
    BY <1>1, <1>2

\* A Run reaches review only on the word of a worker that has closed, completed and read the
\* Task its attempt is bound to, under every combination of troubles.
THEOREM SuccessEarned == ExecutorSpec => []SuccessIsEarned
  <1>1. ExecutorInit => Earned
    BY DEF ExecutorInit, Init, NoAttempt, NotStarted, Earned, SuccessIsEarned
  <1>2. TypeOK /\ Rows /\ ExecutorShape /\ Earned
          /\ [ExecutorNext /\ UNCHANGED trouble]_<<allVars, trouble>> => Earned'
    BY EarnedStep
  <1>3. Earned => SuccessIsEarned
    BY DEF Earned
  <1> QED
    BY <1>1, <1>2, <1>3, ExecutorsKeepTheService, TypeCorrect, RowsConsistent, PTL
      DEF ExecutorSpec
=============================================================================
