------------------------- MODULE RunLifecycleProofs -------------------------
(***************************************************************************)
(* Proofs, for every set of Runs, attempts, guidance and worktrees and for *)
(* every bound, of what RunLifecycle's runs check on small instances.      *)
(***************************************************************************)
EXTENDS RunLifecycle, TLAPS

-----------------------------------------------------------------------------
(* Updates of a row keep its type. *)

\* updateRun with a new status.
LEMMA RunStatusUpdate ==
    ASSUME NEW f \in [Run -> RunRecord], NEW r, NEW s \in RunStatus
    PROVE  [f EXCEPT ![r].status = s] \in [Run -> RunRecord]
  BY DEF RunRecord

\* updateAttempt with a new status.
LEMMA AttemptStatusUpdate ==
    ASSUME NEW f \in [Attempt -> AttemptRecord], NEW a \in Attempt,
           NEW s \in ActiveStatus \cup TerminalStatus
    PROVE  [f EXCEPT ![a].status = s] \in [Attempt -> AttemptRecord]
  BY DEF AttemptRecord

\* updateAttempt with the terminal evidence of a settlement.
LEMMA SettlementUpdate ==
    ASSUME NEW f \in [Attempt -> AttemptRecord], NEW a \in Attempt,
           NEW s \in TerminalStatus, NEW re \in Result \cup {None},
           NEW fa \in Failure \cup {None}, NEW se \in Session \cup {None}
    PROVE  [f EXCEPT ![a].status = s, ![a].result = re, ![a].failure = fa, ![a].session = se]
              \in [Attempt -> AttemptRecord]
  <1> DEFINE row == [f[a] EXCEPT !.status = s, !.result = re, !.failure = fa, !.session = se]
  <1>1. row \in AttemptRecord
    BY DEF AttemptRecord
  <1>2. [f EXCEPT ![a].status = s, ![a].result = re, ![a].failure = fa, ![a].session = se]
           = [f EXCEPT ![a] = row]
    OBVIOUS
  <1> QED
    BY <1>1, <1>2

-----------------------------------------------------------------------------
\* Every step of the service keeps each column in its domain.
LEMMA TypeStep == TypeOK /\ [Next]_vars => TypeOK'
  <1> SUFFICES ASSUME TypeOK, [Next]_vars PROVE TypeOK'
    OBVIOUS
  <1> USE BoundAssumption DEF TypeOK
  <1>1. CASE TransitionToArchitectureReview
    BY <1>1 DEF TransitionToArchitectureReview, RoomState
  <1>2. CASE TransitionToWaitingForUserConfirmation
    BY <1>2 DEF TransitionToWaitingForUserConfirmation, RoomState
  <1>3. ASSUME NEW r \in Run, SubmitImplementation(r) PROVE TypeOK'
    BY <1>3 DEF SubmitImplementation, RunRecord, RunStatus, RoomState, Task
  <1>4. ASSUME NEW r \in Run, NEW a \in Attempt, SubmitFix(r, a) PROVE TypeOK'
    BY <1>4 DEF SubmitFix, RunRecord, RunStatus, Task
  <1>5. ASSUME NEW a \in Attempt, NEW changesContract \in BOOLEAN,
               AnswerQuestion(a, changesContract)
        PROVE  TypeOK'
    BY <1>5 DEF AnswerQuestion, RunRecord, RunStatus, RoomState
  <1>6. ASSUME NEW a \in Attempt, NEW severity \in Severity, SubmitReview(a, severity)
        PROVE  TypeOK'
    BY <1>6 DEF SubmitReview, RunRecord, RunStatus
  <1>7. ASSUME NEW a \in Attempt, AcceptReview(a) PROVE TypeOK'
    BY <1>7 DEF AcceptReview, RunRecord, RunStatus
  <1>8. ASSUME NEW r \in Run, RetryRun(r) PROVE TypeOK'
    BY <1>8 DEF RetryRun, RunRecord, RunStatus
  <1>9. ASSUME NEW r \in Run, NEW a \in Attempt, CancelRun(r, a) PROVE TypeOK'
    BY <1>9, AttemptStatusUpdate, RunStatusUpdate DEF CancelRun, RunStatus, ActiveStatus
  <1>10. ASSUME NEW g \in Guidance, NEW r \in Run, AddRunGuidance(g, r) PROVE TypeOK'
    BY <1>10 DEF AddRunGuidance
  <1>11. ASSUME NEW a \in Attempt, NEW r \in Run, NEW w \in Worktree, ClaimRunAttempt(a, r, w)
         PROVE  TypeOK'
    <2>1. PICK n \in 1 .. MaxAttemptNo :
             attempt' = [attempt EXCEPT ![a] =
                [status |-> "running", run |-> r, no |-> n, task |-> run[r].task,
                 worktree |-> w, result |-> None, failure |-> None, session |-> None]]
      BY <1>11 DEF ClaimRunAttempt, Claimable, WorktreeFree
    <2>2. attempt' \in [Attempt -> AttemptRecord]
      BY <2>1 DEF AttemptRecord, ActiveStatus, RunRecord
    <2>3. run' \in [Run -> RunRecord]
      <3>1. [run[r] EXCEPT !.status = "running", !.worktree = w] \in RunRecord
        BY DEF RunRecord, RunStatus
      <3>2. run' = [run EXCEPT ![r] = [run[r] EXCEPT !.status = "running", !.worktree = w]]
        BY <1>11, Zenon DEF ClaimRunAttempt, Claimable, WorktreeFree
      <3> QED
        BY <3>1, <3>2
    <2>4. guidance' \in [Guidance -> [run : Run \cup {None}, by : Attempt \cup {None}]]
      BY <1>11 DEF ClaimRunAttempt, Claimable, WorktreeFree
    <2> QED
      BY <1>11, <2>2, <2>3, <2>4 DEF ClaimRunAttempt, Claimable, WorktreeFree
  <1>12. ASSUME NEW a \in Attempt, AskQuestion(a) PROVE TypeOK'
    BY <1>12, AttemptStatusUpdate DEF AskQuestion, ActiveStatus
  <1>13. ASSUME NEW a \in Attempt, NEW status \in TerminalStatus,
                NEW result \in Result \cup {None}, NEW failure \in Failure \cup {None},
                NEW session \in Session \cup {None}, SettleRunAttempt(a, status, result, failure, session)
         PROVE  TypeOK'
    <2> DEFINE target == SettleTarget(a, status)
               re == IF target = "canceled" THEN None ELSE result
               fa == IF target = "canceled" THEN None ELSE failure
    <2>1. /\ target \in TerminalStatus
          /\ re \in Result \cup {None}
          /\ fa \in Failure \cup {None}
          /\ RunStatusForTerminal(target) \in RunStatus
      BY DEF SettleTarget, TerminalStatus, RunStatusForTerminal, RunStatus
    <2>2. /\ attempt' = [attempt EXCEPT ![a].status = target, ![a].result = re,
                                        ![a].failure = fa, ![a].session = session]
          /\ run' = [run EXCEPT ![attempt[a].run].status = RunStatusForTerminal(target)]
          /\ UNCHANGED <<room, question, review, guidance>>
      BY <1>13, Zenon DEF SettleRunAttempt
    <2> HIDE DEF target, re, fa
    <2>3. attempt' \in [Attempt -> AttemptRecord]
      <3>1. attempt \in [Attempt -> AttemptRecord]
        OBVIOUS
      <3>2. [attempt EXCEPT ![a].status = target, ![a].result = re, ![a].failure = fa,
                            ![a].session = session] \in [Attempt -> AttemptRecord]
        BY <2>1, <3>1, SettlementUpdate, Zenon
      <3> QED
        BY <2>2, <3>2
    <2>4. run' \in [Run -> RunRecord]
      BY <2>1, <2>2, RunStatusUpdate
    <2> QED
      BY <2>2, <2>3, <2>4
  <1>14. CASE UNCHANGED vars
    BY <1>14 DEF vars
  <1>15. QED
    <2>1. CASE Planning
      BY <2>1, <1>1, <1>2, <1>3, <1>4 DEF Planning
    <2>2. CASE Steering
      BY <2>2, <1>5, <1>6, <1>7, <1>8, <1>9, <1>10 DEF Steering
    <2>3. CASE Execution
      BY <2>3, <1>11, <1>12, <1>13 DEF Execution
    <2> QED
      BY <1>14, <2>1, <2>2, <2>3 DEF Next

\* Each column keeps its domain through every handler of the service.
THEOREM TypeCorrect == Spec => []TypeOK
<1>1. Init => TypeOK
  BY NoneAssumption, BoundAssumption
  DEF Init, TypeOK, NoRun, NoAttempt, RunRecord, AttemptRecord, RoomState, Task
<1>2. QED
  BY <1>1, TypeStep, PTL DEF Spec

-----------------------------------------------------------------------------
(* What each handler that writes a row of runs or run_attempts does to it. *)

\* Only the status of the row r changes.
LEMMA RunStatusEffect ==
    ASSUME NEW f \in [Run -> RunRecord], NEW r \in Run, NEW s, NEW g,
           g = [f EXCEPT ![r].status = s]
    PROVE  /\ g[r].status = s
           /\ g[r].worktree = f[r].worktree
           /\ g[r].task = f[r].task
           /\ \A q \in Run \ {r} : g[q] = f[q]
  BY DEF RunRecord

\* Only the status of the row a changes.
LEMMA AttemptStatusEffect ==
    ASSUME NEW f \in [Attempt -> AttemptRecord], NEW a \in Attempt, NEW s, NEW g,
           g = [f EXCEPT ![a].status = s]
    PROVE  /\ g[a].status = s
           /\ g[a].run = f[a].run
           /\ g[a].no = f[a].no
           /\ g[a].task = f[a].task
           /\ g[a].worktree = f[a].worktree
           /\ \A b \in Attempt \ {a} : g[b] = f[b]
  BY DEF AttemptRecord

\* A claim inserts row a with a fresh number and marks row r running.
LEMMA ClaimEffect ==
    ASSUME TypeOK, NEW a \in Attempt, NEW r \in Run, NEW w \in Worktree,
           ClaimRunAttempt(a, r, w)
    PROVE  /\ attempt'[a].status = "running"
           /\ attempt'[a].run = r
           /\ attempt'[a].task = run[r].task
           /\ attempt'[a].worktree = w
           /\ attempt'[a].no \in 1 .. MaxAttemptNo
           /\ \A b \in AttemptsOf(r) : attempt[b].no < attempt'[a].no
           /\ \A b \in Attempt \ {a} : attempt'[b] = attempt[b]
           /\ run'[r].status = "running"
           /\ run'[r].worktree = w
           /\ run'[r].task = run[r].task
           /\ \A q \in Run \ {r} : run'[q] = run[q]
  <1> USE DEF TypeOK
  <1>1. PICK n \in 1 .. MaxAttemptNo :
           /\ IsNextAttemptNo(r, n)
           /\ attempt' = [attempt EXCEPT ![a] =
                [status |-> "running", run |-> r, no |-> n, task |-> run[r].task,
                 worktree |-> w, result |-> None, failure |-> None, session |-> None]]
    BY DEF ClaimRunAttempt, Claimable, WorktreeFree
  <1>2. run' = [run EXCEPT ![r] = [run[r] EXCEPT !.status = "running", !.worktree = w]]
    BY Zenon DEF ClaimRunAttempt, Claimable, WorktreeFree
  <1>3. /\ run'[r].status = "running"
        /\ run'[r].worktree = w
        /\ run'[r].task = run[r].task
        /\ \A q \in Run \ {r} : run'[q] = run[q]
    BY <1>2 DEF RunRecord
  <1>4. attempt'[a] =
          [status |-> "running", run |-> r, no |-> n, task |-> run[r].task,
           worktree |-> w, result |-> None, failure |-> None, session |-> None]
    BY <1>1
  <1>5. \A b \in Attempt \ {a} : attempt'[b] = attempt[b]
    BY <1>1
  <1>6. \A b \in AttemptsOf(r) : attempt[b].no < n
    BY <1>1 DEF IsNextAttemptNo
  <1> QED
    BY <1>3, <1>4, <1>5, <1>6

\* A settlement moves one active attempt and its Run to their terminal pair.
LEMMA SettleEffect ==
    ASSUME TypeOK, NEW a \in Attempt, NEW status \in TerminalStatus, NEW result,
           NEW failure, NEW session, attempt[a].run \in Run,
           SettleRunAttempt(a, status, result, failure, session)
    PROVE  /\ attempt'[a].run = attempt[a].run
           /\ attempt'[a].no = attempt[a].no
           /\ attempt'[a].task = attempt[a].task
           /\ attempt'[a].worktree = attempt[a].worktree
           /\ \A b \in Attempt \ {a} : attempt'[b] = attempt[b]
           /\ run'[attempt[a].run].status = RunStatusForTerminal(attempt'[a].status)
           /\ run'[attempt[a].run].worktree = run[attempt[a].run].worktree
           /\ run'[attempt[a].run].task = run[attempt[a].run].task
           /\ \A q \in Run \ {attempt[a].run} : run'[q] = run[q]
           /\ <<attempt[a].status, attempt'[a].status>> \in AttemptTransition
           /\ attempt'[a].status \in TerminalStatus
  <1> DEFINE target == SettleTarget(a, status)
             re == IF target = "canceled" THEN None ELSE result
             fa == IF target = "canceled" THEN None ELSE failure
  <1>1. /\ target \in TerminalStatus
        /\ <<attempt[a].status, target>> \in AttemptTransition
    BY DEF SettleTarget, TerminalStatus, SettleRunAttempt, SettleAdmitted
  <1>2. /\ attempt' = [attempt EXCEPT ![a].status = target, ![a].result = re,
                                      ![a].failure = fa, ![a].session = session]
        /\ run' = [run EXCEPT ![attempt[a].run].status = RunStatusForTerminal(target)]
    BY Zenon DEF SettleRunAttempt
  <1>3. attempt \in [Attempt -> AttemptRecord] /\ run \in [Run -> RunRecord]
    BY DEF TypeOK
  <1> HIDE DEF target, re, fa
  <1>4. /\ attempt'[a].status = target
        /\ attempt'[a].run = attempt[a].run
        /\ attempt'[a].no = attempt[a].no
        /\ attempt'[a].task = attempt[a].task
        /\ attempt'[a].worktree = attempt[a].worktree
        /\ \A b \in Attempt \ {a} : attempt'[b] = attempt[b]
    <2>1. attempt' = [attempt EXCEPT ![a] =
             [attempt[a] EXCEPT !.status = target, !.result = re,
                                !.failure = fa, !.session = session]]
      BY <1>2
    <2>2. attempt'[a] = [attempt[a] EXCEPT !.status = target, !.result = re,
                                           !.failure = fa, !.session = session]
      BY <1>3, <2>1
    <2>3. \A b \in Attempt \ {a} : attempt'[b] = attempt[b]
      BY <1>3, <2>1
    <2>4. attempt[a] \in AttemptRecord
      BY <1>3
    <2> QED
      BY <2>2, <2>3, <2>4 DEF AttemptRecord
  <1>5. /\ run'[attempt[a].run].status = RunStatusForTerminal(target)
        /\ run'[attempt[a].run].worktree = run[attempt[a].run].worktree
        /\ run'[attempt[a].run].task = run[attempt[a].run].task
        /\ \A q \in Run \ {attempt[a].run} : run'[q] = run[q]
    BY <1>2, <1>3, RunStatusEffect
  <1> QED
    BY <1>1, <1>4, <1>5

-----------------------------------------------------------------------------
(* The rows of run_attempts: the first layer of the inductive invariant.   *)

\* attempt_no tells the attempts of one Run apart (UNIQUE(run_id, attempt_no)).
NumbersDistinct ==
    \A r \in Run : \A a, b \in AttemptsOf(r) : a # b => attempt[a].no # attempt[b].no

\* An attempt that was claimed belongs to a Run that exists, in its worktree.
LineageShared ==
    \A a \in Attempt :
        attempt[a].status # "absent" =>
            /\ attempt[a].run \in Run
            /\ run[attempt[a].run].status # "absent"
            /\ run[attempt[a].run].worktree = attempt[a].worktree
            /\ attempt[a].worktree \in Worktree

\* A row that was not inserted belongs to no Run.
AbsentRowIsFree ==
    \A a \in Attempt : attempt[a].status = "absent" => attempt[a].run = None

\* A Run that was not submitted holds no worktree.
AbsentRunHoldsNothing == \A r \in Run : run[r].status = "absent" => run[r].worktree = None

Rows == NumbersDistinct /\ LineageShared /\ AbsentRowIsFree /\ AbsentRunHoldsNothing

\* A row of a Run exists, and so does its Run.
LEMMA RowOfRun ==
    ASSUME TypeOK, Rows, NEW r \in Run, NEW a \in AttemptsOf(r)
    PROVE  /\ a \in Attempt
           /\ attempt[a].run = r
           /\ attempt[a].status # "absent"
           /\ run[r].status # "absent"
           /\ run[r].worktree = attempt[a].worktree
  BY NoneAssumption DEF Rows, LineageShared, AbsentRowIsFree, AttemptsOf

\* No two claims get one number, and no handler moves an attempt to another Run or
\* worktree.
LEMMA RowsStep == TypeOK /\ Rows /\ [Next]_vars => Rows'
<1> SUFFICES ASSUME TypeOK, Rows, [Next]_vars PROVE Rows'
  OBVIOUS
<1> USE NoneAssumption
    DEF Rows, NumbersDistinct, LineageShared, AbsentRowIsFree, AbsentRunHoldsNothing, AttemptsOf
<1> DEFINE SameRows == attempt' = attempt
           RunsStay == \A r \in Run : /\ run'[r].worktree = run[r].worktree
                                      /\ run[r].status = "absent" <=> run'[r].status = "absent"
<1>a. SameRows /\ RunsStay => Rows'
  OBVIOUS
<1>t. run \in [Run -> RunRecord] /\ attempt \in [Attempt -> AttemptRecord]
  BY DEF TypeOK
<1>1. CASE TransitionToArchitectureReview
  BY <1>1 DEF TransitionToArchitectureReview
<1>2. CASE TransitionToWaitingForUserConfirmation
  BY <1>2 DEF TransitionToWaitingForUserConfirmation
<1>3. ASSUME NEW r \in Run, SubmitImplementation(r) PROVE Rows'
  BY <1>3, <1>t DEF SubmitImplementation
<1>4. ASSUME NEW r \in Run, NEW a \in Attempt, SubmitFix(r, a) PROVE Rows'
  <2>1. RunsStay
    BY <1>4, <1>t DEF SubmitFix, RunRecord
  <2> QED
    BY <1>4, <1>a, <2>1 DEF SubmitFix
<1>5. ASSUME NEW a \in Attempt, NEW changesContract \in BOOLEAN,
             AnswerQuestion(a, changesContract)
      PROVE  Rows'
  <2>1. RunsStay
    BY <1>5, <1>t DEF AnswerQuestion, RunRecord
  <2> QED
    BY <1>5, <1>a, <2>1 DEF AnswerQuestion
<1>6. ASSUME NEW a \in Attempt, NEW severity \in Severity, SubmitReview(a, severity)
      PROVE  Rows'
  <2>1. RunsStay
    BY <1>6, <1>t DEF SubmitReview, RunRecord
  <2> QED
    BY <1>6, <1>a, <2>1 DEF SubmitReview
<1>7. ASSUME NEW a \in Attempt, AcceptReview(a) PROVE Rows'
  <2>1. RunsStay
    BY <1>7, <1>t DEF AcceptReview, RunRecord
  <2> QED
    BY <1>7, <1>a, <2>1 DEF AcceptReview
<1>8. ASSUME NEW r \in Run, RetryRun(r) PROVE Rows'
  <2>1. RunsStay
    BY <1>8, <1>t DEF RetryRun, RunRecord
  <2> QED
    BY <1>8, <1>a, <2>1 DEF RetryRun
<1>9. ASSUME NEW r \in Run, NEW a \in Attempt, CancelRun(r, a) PROVE Rows'
  <2>1. RunsStay
    BY <1>9, <1>t DEF CancelRun, RunRecord
  <2>2. attempt' = [attempt EXCEPT ![a].status = "cancel_requested"]
    BY <1>9 DEF CancelRun
  <2>3. /\ attempt'[a].run = attempt[a].run
        /\ attempt'[a].no = attempt[a].no
        /\ attempt'[a].worktree = attempt[a].worktree
        /\ \A b \in Attempt \ {a} : attempt'[b] = attempt[b]
    BY <2>2, <1>t, AttemptStatusEffect
  <2>4. attempt[a].status # "absent"
    BY <1>9 DEF CancelRun, IsActive, ActiveStatus
  <2>5. attempt'[a].status # "absent"
    BY <2>2, <1>t DEF AttemptRecord
  <2> QED
    BY <2>1, <2>3, <2>4, <2>5
<1>10. ASSUME NEW g \in Guidance, NEW r \in Run, AddRunGuidance(g, r) PROVE Rows'
  BY <1>10 DEF AddRunGuidance
<1>11. ASSUME NEW a \in Attempt, NEW r \in Run, NEW w \in Worktree, ClaimRunAttempt(a, r, w)
       PROVE  Rows'
  <2>1. /\ attempt'[a].status = "running"
        /\ attempt'[a].run = r
        /\ attempt'[a].worktree = w
        /\ attempt'[a].no \in 1 .. MaxAttemptNo
        /\ \A b \in AttemptsOf(r) : attempt[b].no < attempt'[a].no
        /\ \A b \in Attempt \ {a} : attempt'[b] = attempt[b]
        /\ run'[r].status = "running"
        /\ run'[r].worktree = w
        /\ \A q \in Run \ {r} : run'[q] = run[q]
    BY <1>11, ClaimEffect
  <2>2. attempt[a].status = "absent" /\ run[r].worktree \in {None, w}
    BY <1>11 DEF ClaimRunAttempt, Claimable, WorktreeFree
  <2>3. NumbersDistinct'
    <3> SUFFICES ASSUME NEW q \in Run, NEW b \in Attempt, NEW c \in Attempt, b # c,
                        attempt'[b].run = q, attempt'[c].run = q
                 PROVE  attempt'[b].no # attempt'[c].no
      OBVIOUS
    <3>1. CASE b # a /\ c # a
      BY <2>1, <3>1
    <3>2. CASE b = a
      BY <2>1, <3>2, <1>t DEF AttemptRecord
    <3>3. CASE c = a
      BY <2>1, <3>3, <1>t DEF AttemptRecord
    <3> QED
      BY <3>1, <3>2, <3>3
  <2>4. LineageShared'
    BY <2>1, <2>2
  <2>5. AbsentRowIsFree'
    BY <2>1
  <2>6. AbsentRunHoldsNothing'
    BY <2>1
  <2> QED
    BY <2>3, <2>4, <2>5, <2>6
<1>12. ASSUME NEW a \in Attempt, AskQuestion(a) PROVE Rows'
  <2>1. RunsStay
    BY <1>12 DEF AskQuestion
  <2>2. attempt' = [attempt EXCEPT ![a].status = "decision_requested"]
    BY <1>12 DEF AskQuestion
  <2>3. /\ attempt'[a].run = attempt[a].run
        /\ attempt'[a].no = attempt[a].no
        /\ attempt'[a].worktree = attempt[a].worktree
        /\ \A b \in Attempt \ {a} : attempt'[b] = attempt[b]
    BY <2>2, <1>t, AttemptStatusEffect
  <2>4. attempt[a].status # "absent"
    BY <1>12 DEF AskQuestion
  <2>5. attempt'[a].status # "absent"
    BY <2>2, <1>t DEF AttemptRecord
  <2> QED
    BY <2>1, <2>3, <2>4, <2>5
<1>13. ASSUME NEW a \in Attempt, NEW status \in TerminalStatus,
              NEW result \in Result \cup {None}, NEW failure \in Failure \cup {None},
              NEW session \in Session \cup {None},
              SettleRunAttempt(a, status, result, failure, session)
       PROVE  Rows'
  <2>1. attempt[a].status # "absent" /\ attempt[a].run \in Run
    BY <1>13 DEF SettleRunAttempt, IsActive, ActiveStatus
  <2>2. /\ attempt'[a].run = attempt[a].run
        /\ attempt'[a].no = attempt[a].no
        /\ attempt'[a].worktree = attempt[a].worktree
        /\ \A b \in Attempt \ {a} : attempt'[b] = attempt[b]
        /\ run'[attempt[a].run].status = RunStatusForTerminal(attempt'[a].status)
        /\ run'[attempt[a].run].worktree = run[attempt[a].run].worktree
        /\ \A q \in Run \ {attempt[a].run} : run'[q] = run[q]
        /\ attempt'[a].status \in TerminalStatus
    BY <1>13, <2>1, SettleEffect
  <2>3. RunStatusForTerminal(attempt'[a].status) # "absent"
    BY DEF RunStatusForTerminal
  <2>4. attempt'[a].status # "absent"
    BY <2>2 DEF TerminalStatus
  <2> QED
    BY <2>1, <2>2, <2>3, <2>4
<1>14. CASE UNCHANGED vars
  BY <1>14 DEF vars
<1>15. QED
  <2>1. CASE Planning
    BY <2>1, <1>1, <1>2, <1>3, <1>4 DEF Planning
  <2>2. CASE Steering
    BY <2>2, <1>5, <1>6, <1>7, <1>8, <1>9, <1>10 DEF Steering
  <2>3. CASE Execution
    BY <2>3, <1>11, <1>12, <1>13 DEF Execution
  <2> QED
    BY <1>14, <2>1, <2>2, <2>3 DEF Next

\* The rows stay consistent whatever a caller does: no two claims get one
\* number, and no handler moves an attempt to another Run or worktree.
THEOREM RowsConsistent == Spec => []Rows
<1>1. Init => Rows
  BY NoneAssumption
  DEF Init, Rows, NumbersDistinct, LineageShared, AbsentRowIsFree, AbsentRunHoldsNothing,
      AttemptsOf, NoAttempt, NoRun
<1>2. QED
  BY <1>1, RowsStep, TypeCorrect, PTL DEF Spec

-----------------------------------------------------------------------------
(* Run and latest attempt: the second layer.                               *)

\* The active attempt of a Run is its only latest attempt.
LEMMA ActiveIsLatest ==
    ASSUME TypeOK, OneActiveAttempt, NEW r \in Run, NEW a \in AttemptsOf(r), IsActive(a)
    PROVE  /\ IsLatestAttempt(r, a)
           /\ \A b \in Attempt : IsLatestAttempt(r, b) => b = a
           /\ \A b \in AttemptsOf(r) : IsActive(b) => b = a
  <1>1. \A b \in Attempt : attempt[b].no \in Int
    BY BoundAssumption DEF TypeOK, AttemptRecord
  <1> QED
    BY <1>1 DEF OneActiveAttempt, IsLatestAttempt, AttemptsOf

\* The status of a Run with an active attempt is the active attempt's.
LEMMA ActiveRunStatus ==
    ASSUME TypeOK, Coherent, NEW r \in Run, NEW a \in AttemptsOf(r), IsActive(a)
    PROVE  /\ attempt[a].status = "cancel_requested" => run[r].status = "cancel_requested"
           /\ attempt[a].status # "cancel_requested" => run[r].status = "running"
           /\ attempt[a].task = run[r].task
  <1>1. IsLatestAttempt(r, a) /\ a \in Attempt
    BY ActiveIsLatest DEF Coherent, AttemptsOf
  <1>2. attempt[a].status \in LatestStatus(run[r].status) \cap ActiveStatus
    BY <1>1 DEF Coherent, RunFollowsLatestAttempt, IsActive
  <1>3. run[r].status \in RunStatus \cup {"absent"}
    BY DEF TypeOK, RunRecord
  <1>4. /\ attempt[a].status = "cancel_requested" => run[r].status = "cancel_requested"
        /\ attempt[a].status # "cancel_requested" => run[r].status = "running"
    BY <1>2, <1>3 DEF LatestStatus, ActiveStatus, TerminalStatus, RunStatus
  <1>5. run[r].status # "ready"
    BY <1>4
  <1> QED
    BY <1>1, <1>4, <1>5 DEF Coherent, RunFollowsLatestAttempt

\* A step that leaves every attempt alone and moves one Run to a status that
\* stands for at least the same outcomes keeps the two in agreement.
LEMMA RunStatusStep ==
    ASSUME TypeOK, Coherent, NEW r \in Run, NEW s \in RunStatus,
           attempt' = attempt,
           run'[r].status = s,
           run[r].status # "ready",
           s # "ready" => run'[r].task = run[r].task,
           s # "ready" => run[r].status # "absent",
           LatestStatus(run[r].status) \subseteq LatestStatus(s),
           \A q \in Run \ {r} : run'[q] = run[q]
    PROVE  Coherent'
  <1>1. OneActiveAttempt'
    BY DEF Coherent, OneActiveAttempt, AttemptsOf, IsActive
  <1>2. ASSUME NEW q \in Run, NEW a \in Attempt
        PROVE  /\ IsLatestAttempt(q, a)' =>
                    /\ attempt'[a].status \in LatestStatus(run'[q].status)
                    /\ run'[q].status # "ready" => attempt'[a].task = run'[q].task
               /\ run'[q].status \notin {"absent", "ready"} => AttemptsOf(q)' # {}
    <2>1. /\ IsLatestAttempt(q, a)' = IsLatestAttempt(q, a)
          /\ AttemptsOf(q)' = AttemptsOf(q)
      BY DEF IsLatestAttempt, AttemptsOf
    <2>2. /\ IsLatestAttempt(q, a) =>
                /\ attempt[a].status \in LatestStatus(run[q].status)
                /\ run[q].status # "ready" => attempt[a].task = run[q].task
          /\ run[q].status \notin {"absent", "ready"} => AttemptsOf(q) # {}
      BY DEF Coherent, RunFollowsLatestAttempt
    <2>3. CASE q = r
      BY <2>1, <2>2, <2>3
    <2>4. CASE q # r
      BY <2>1, <2>2, <2>4
    <2> QED
      BY <2>3, <2>4
  <1> QED
    BY <1>1, <1>2 DEF Coherent, RunFollowsLatestAttempt

\* A step that moves the active attempt of one Run, and the Run with it, keeps
\* the two in agreement if the new pair of statuses agrees.
LEMMA ActiveAttemptStep ==
    ASSUME TypeOK, Coherent, NEW r \in Run, NEW a \in AttemptsOf(r), IsActive(a),
           attempt'[a].run = r,
           attempt'[a].no = attempt[a].no,
           attempt'[a].task = attempt[a].task,
           \A b \in Attempt \ {a} : attempt'[b] = attempt[b],
           run'[r].status \notin {"absent", "ready"},
           run'[r].task = run[r].task,
           attempt'[a].status \in LatestStatus(run'[r].status),
           \A q \in Run \ {r} : run'[q] = run[q]
    PROVE  Coherent'
  <1>0. a \in Attempt /\ attempt[a].run = r /\ attempt[a].task = run[r].task
    BY ActiveRunStatus DEF AttemptsOf
  <1>1. \A q \in Run : AttemptsOf(q)' = AttemptsOf(q)
    BY <1>0 DEF AttemptsOf
  <1>2. \A q \in Run, b \in Attempt : IsLatestAttempt(q, b)' = IsLatestAttempt(q, b)
    BY <1>0, <1>1 DEF IsLatestAttempt, AttemptsOf
  <1>3. \A b \in Attempt : IsLatestAttempt(r, b) => b = a
    BY ActiveIsLatest DEF Coherent
  <1>4. OneActiveAttempt'
    <2> SUFFICES ASSUME NEW q \in Run, NEW b \in AttemptsOf(q), IsActive(b)',
                        NEW c \in AttemptsOf(q) \ {b}
                 PROVE  ~IsActive(c)' /\ attempt'[c].no < attempt'[b].no
      BY <1>1 DEF OneActiveAttempt
    <2>0. b \in Attempt /\ c \in Attempt /\ attempt[b].run = q /\ attempt[c].run = q
      BY DEF AttemptsOf
    <2>1. CASE q = r
      <3>1. IsActive(b) => b = a
        BY <2>1, ActiveIsLatest DEF Coherent
      <3>2. b = a
        BY <2>0, <3>1 DEF IsActive
      <3>3. ~IsActive(c) /\ attempt[c].no < attempt[a].no
        BY <2>1, <3>2 DEF Coherent, OneActiveAttempt
      <3> QED
        BY <2>0, <3>2, <3>3 DEF IsActive
    <2>2. CASE q # r
      <3>1. attempt'[b] = attempt[b] /\ attempt'[c] = attempt[c]
        BY <1>0, <2>0, <2>2
      <3> QED
        BY <3>1 DEF Coherent, OneActiveAttempt, IsActive
    <2> QED
      BY <2>1, <2>2
  <1>5. ASSUME NEW q \in Run, NEW b \in Attempt
        PROVE  /\ IsLatestAttempt(q, b)' =>
                    /\ attempt'[b].status \in LatestStatus(run'[q].status)
                    /\ run'[q].status # "ready" => attempt'[b].task = run'[q].task
               /\ run'[q].status \notin {"absent", "ready"} => AttemptsOf(q)' # {}
    <2>1. CASE q = r
      BY <1>0, <1>1, <1>2, <1>3, <2>1
    <2>2. CASE q # r
      <3>1. IsLatestAttempt(q, b) => attempt'[b] = attempt[b]
        BY <1>0, <2>2 DEF IsLatestAttempt, AttemptsOf
      <3> QED
        BY <1>1, <1>2, <2>2, <3>1 DEF Coherent, RunFollowsLatestAttempt
    <2> QED
      BY <2>1, <2>2
  <1> QED
    BY <1>4, <1>5 DEF Coherent, RunFollowsLatestAttempt

\* Each handler moves a Run and its latest attempt to statuses that agree.
LEMMA CoherentStep == TypeOK /\ Rows /\ Coherent /\ [Next]_vars => Coherent'
<1> SUFFICES ASSUME TypeOK, Rows, Coherent, [Next]_vars PROVE Coherent'
  OBVIOUS
<1>t. run \in [Run -> RunRecord] /\ attempt \in [Attempt -> AttemptRecord]
  BY DEF TypeOK
<1>r. ASSUME NEW a \in Attempt, attempt[a].status # "absent"
      PROVE  attempt[a].run \in Run /\ a \in AttemptsOf(attempt[a].run)
  BY <1>r DEF Rows, LineageShared, AttemptsOf
<1>s. ASSUME attempt' = attempt, run' = run PROVE Coherent'
  BY <1>s DEF Coherent, RunFollowsLatestAttempt, OneActiveAttempt, AttemptsOf,
              IsLatestAttempt, IsActive
<1>1. CASE TransitionToArchitectureReview
  BY <1>1, <1>s DEF TransitionToArchitectureReview
<1>2. CASE TransitionToWaitingForUserConfirmation
  BY <1>2, <1>s DEF TransitionToWaitingForUserConfirmation
<1>3. ASSUME NEW r \in Run, SubmitImplementation(r) PROVE Coherent'
  <2>1. /\ run[r].status = "absent"
        /\ attempt' = attempt
        /\ run'[r].status = "ready"
        /\ \A q \in Run \ {r} : run'[q] = run[q]
    BY <1>3, <1>t DEF SubmitImplementation
  <2>2. LatestStatus("absent") \subseteq LatestStatus("ready")
    BY DEF LatestStatus
  <2> QED
    BY <2>1, <2>2, RunStatusStep DEF RunStatus
<1>4. ASSUME NEW r \in Run, NEW a \in Attempt, SubmitFix(r, a) PROVE Coherent'
  <2>1. /\ run[r].status = "review_discussion"
        /\ attempt' = attempt
        /\ run'[r].status = "ready"
        /\ \A q \in Run \ {r} : run'[q] = run[q]
    BY <1>4, <1>t DEF SubmitFix, RunRecord
  <2>2. LatestStatus("review_discussion") \subseteq LatestStatus("ready")
    BY DEF LatestStatus, TerminalStatus
  <2> QED
    BY <2>1, <2>2, RunStatusStep DEF RunStatus
<1>5. ASSUME NEW a \in Attempt, NEW changesContract \in BOOLEAN,
             AnswerQuestion(a, changesContract)
      PROVE  Coherent'
  <2> DEFINE r == attempt[a].run
  <2>1. r \in Run
    BY <1>5, <1>r DEF AnswerQuestion
  <2>2. CASE run' = run
    BY <1>5, <1>s, <2>2 DEF AnswerQuestion
  <2>3. CASE run' = [run EXCEPT ![r].status = "ready"]
    <3>1. /\ run[r].status = "needs_decision"
          /\ attempt' = attempt
      BY <1>5 DEF AnswerQuestion
    <3>2. /\ run'[r].status = "ready"
          /\ \A q \in Run \ {r} : run'[q] = run[q]
      BY <2>1, <2>3, <1>t, RunStatusEffect
    <3>3. LatestStatus("needs_decision") \subseteq LatestStatus("ready")
      BY DEF LatestStatus, TerminalStatus
    <3> QED
      BY <2>1, <3>1, <3>2, <3>3, RunStatusStep DEF RunStatus
  <2> QED
    BY <1>5, <2>2, <2>3 DEF AnswerQuestion
<1>6. ASSUME NEW a \in Attempt, NEW severity \in Severity, SubmitReview(a, severity)
      PROVE  Coherent'
  <2> DEFINE r == attempt[a].run
  <2>1. r \in Run
    BY <1>6, <1>r DEF SubmitReview
  <2>2. /\ run[r].status = "review_required"
        /\ attempt' = attempt
        /\ run' = [run EXCEPT ![r].status = "review_discussion"]
    BY <1>6 DEF SubmitReview
  <2>3. /\ run'[r].status = "review_discussion"
        /\ run'[r].task = run[r].task
        /\ \A q \in Run \ {r} : run'[q] = run[q]
    BY <2>1, <2>2, <1>t, RunStatusEffect
  <2>4. LatestStatus("review_required") \subseteq LatestStatus("review_discussion")
    BY DEF LatestStatus
  <2> QED
    BY <2>1, <2>2, <2>3, <2>4, RunStatusStep DEF RunStatus
<1>7. ASSUME NEW a \in Attempt, AcceptReview(a) PROVE Coherent'
  <2> DEFINE r == attempt[a].run
  <2>1. CASE r \in Run
    <3>1. /\ run[r].status = "review_discussion"
          /\ attempt' = attempt
          /\ run' = [run EXCEPT ![r].status = "accepted"]
      BY <1>7 DEF AcceptReview
    <3>2. /\ run'[r].status = "accepted"
          /\ run'[r].task = run[r].task
          /\ \A q \in Run \ {r} : run'[q] = run[q]
      BY <2>1, <3>1, <1>t, RunStatusEffect
    <3>3. LatestStatus("review_discussion") \subseteq LatestStatus("accepted")
      BY DEF LatestStatus
    <3> QED
      BY <2>1, <3>1, <3>2, <3>3, RunStatusStep DEF RunStatus
  <2>2. CASE r \notin Run
    BY <1>7, <1>s, <1>t, <2>2 DEF AcceptReview
  <2> QED
    BY <2>1, <2>2
<1>8. ASSUME NEW r \in Run, RetryRun(r) PROVE Coherent'
  <2>1. /\ run[r].status \in {"failed", "canceled"}
        /\ attempt' = attempt
        /\ run' = [run EXCEPT ![r].status = "ready"]
    BY <1>8 DEF RetryRun
  <2>2. /\ run'[r].status = "ready"
        /\ \A q \in Run \ {r} : run'[q] = run[q]
    BY <2>1, <1>t, RunStatusEffect
  <2>3. LatestStatus(run[r].status) \subseteq LatestStatus("ready")
    BY <2>1 DEF LatestStatus, TerminalStatus
  <2> QED
    BY <2>1, <2>2, <2>3, RunStatusStep DEF RunStatus
<1>9. ASSUME NEW r \in Run, NEW a \in Attempt, CancelRun(r, a) PROVE Coherent'
  <2>1. /\ a \in AttemptsOf(r) /\ attempt[a].run = r
        /\ IsActive(a)
        /\ attempt' = [attempt EXCEPT ![a].status = "cancel_requested"]
        /\ run' = [run EXCEPT ![r].status = "cancel_requested"]
    BY <1>9 DEF CancelRun, AttemptsOf
  <2>2. /\ attempt'[a].status = "cancel_requested"
        /\ attempt'[a].run = r
        /\ attempt'[a].no = attempt[a].no
        /\ attempt'[a].task = attempt[a].task
        /\ \A b \in Attempt \ {a} : attempt'[b] = attempt[b]
    BY <2>1, <1>t, AttemptStatusEffect
  <2>3. /\ run'[r].status = "cancel_requested"
        /\ run'[r].task = run[r].task
        /\ \A q \in Run \ {r} : run'[q] = run[q]
    BY <2>1, <1>t, RunStatusEffect
  <2>4. "cancel_requested" \in LatestStatus("cancel_requested")
    BY DEF LatestStatus
  <2> QED
    BY <2>1, <2>2, <2>3, <2>4, ActiveAttemptStep
<1>10. ASSUME NEW g \in Guidance, NEW r \in Run, AddRunGuidance(g, r) PROVE Coherent'
  BY <1>10, <1>s DEF AddRunGuidance
<1>11. ASSUME NEW a \in Attempt, NEW r \in Run, NEW w \in Worktree, ClaimRunAttempt(a, r, w)
       PROVE  Coherent'
  <2>1. /\ attempt'[a].status = "running"
        /\ attempt'[a].run = r
        /\ attempt'[a].task = run[r].task
        /\ attempt'[a].no \in 1 .. MaxAttemptNo
        /\ \A b \in AttemptsOf(r) : attempt[b].no < attempt'[a].no
        /\ \A b \in Attempt \ {a} : attempt'[b] = attempt[b]
        /\ run'[r].status = "running"
        /\ run'[r].task = run[r].task
        /\ \A q \in Run \ {r} : run'[q] = run[q]
    BY <1>11, ClaimEffect
  <2>2. /\ attempt[a].run = None
        /\ ~HasActiveAttempt(r)
    BY <1>11 DEF ClaimRunAttempt, Claimable, WorktreeFree, Rows, AbsentRowIsFree
  <2>3. AttemptsOf(r)' = AttemptsOf(r) \cup {a}
    BY <2>1 DEF AttemptsOf
  <2>4. \A q \in Run \ {r} : AttemptsOf(q)' = AttemptsOf(q) /\ a \notin AttemptsOf(q)
    BY <2>1, <2>2, NoneAssumption DEF AttemptsOf
  <2>5. a \notin AttemptsOf(r)
    BY <2>2, NoneAssumption DEF AttemptsOf
  <2>6. \A b \in Attempt : IsLatestAttempt(r, b)' => b = a
    <3> SUFFICES ASSUME NEW b \in Attempt, IsLatestAttempt(r, b)', b # a PROVE FALSE
      OBVIOUS
    <3>1. b \in AttemptsOf(r)
      BY <2>3 DEF IsLatestAttempt
    <3>2. attempt'[a].no <= attempt'[b].no
      BY <2>3 DEF IsLatestAttempt
    <3>3. attempt'[b] = attempt[b] /\ attempt[b].no < attempt'[a].no
      BY <2>1, <3>1
    <3>4. attempt[b].no \in Int
      BY <1>t, BoundAssumption DEF AttemptRecord
    <3> QED
      BY <2>1, <3>2, <3>3, <3>4
  <2>7. OneActiveAttempt'
    <3> SUFFICES ASSUME NEW q \in Run, NEW b \in AttemptsOf(q)', IsActive(b)',
                        NEW c \in AttemptsOf(q)' \ {b}
                 PROVE  ~IsActive(c)' /\ attempt'[c].no < attempt'[b].no
      BY DEF OneActiveAttempt
    <3>0. b \in Attempt /\ c \in Attempt
      BY DEF AttemptsOf
    <3>1. CASE q = r
      <4>1. \A d \in AttemptsOf(r) : ~IsActive(d)'
        BY <2>1, <2>2, <2>5 DEF HasActiveAttempt, IsActive, AttemptsOf
      <4>2. b = a /\ c \in AttemptsOf(r)
        BY <2>3, <3>1, <4>1
      <4> QED
        BY <2>1, <4>1, <4>2, <3>0
    <3>2. CASE q # r
      <4>1. b # a /\ c # a /\ b \in AttemptsOf(q) /\ c \in AttemptsOf(q)
        BY <2>4, <3>2
      <4>2. attempt'[b] = attempt[b] /\ attempt'[c] = attempt[c]
        BY <2>1, <3>0, <4>1
      <4> QED
        BY <4>1, <4>2 DEF Coherent, OneActiveAttempt, IsActive
    <3> QED
      BY <3>1, <3>2
  <2>8. ASSUME NEW q \in Run, NEW b \in Attempt
        PROVE  /\ IsLatestAttempt(q, b)' =>
                    /\ attempt'[b].status \in LatestStatus(run'[q].status)
                    /\ run'[q].status # "ready" => attempt'[b].task = run'[q].task
               /\ run'[q].status \notin {"absent", "ready"} => AttemptsOf(q)' # {}
    <3>1. CASE q = r
      <4>1. "running" \in LatestStatus("running")
        BY DEF LatestStatus
      <4> QED
        BY <2>1, <2>3, <2>6, <3>1, <4>1
    <3>2. CASE q # r
      <4>1. IsLatestAttempt(q, b)' => IsLatestAttempt(q, b) /\ attempt'[b] = attempt[b]
        BY <2>1, <2>4, <3>2 DEF IsLatestAttempt, AttemptsOf
      <4> QED
        BY <2>1, <2>4, <3>2, <4>1 DEF Coherent, RunFollowsLatestAttempt
    <3> QED
      BY <3>1, <3>2
  <2> QED
    BY <2>7, <2>8 DEF Coherent, RunFollowsLatestAttempt
<1>12. ASSUME NEW a \in Attempt, AskQuestion(a) PROVE Coherent'
  <2> DEFINE r == attempt[a].run
  <2>1. /\ r \in Run /\ a \in AttemptsOf(r) /\ IsActive(a)
        /\ attempt[a].status = "running"
        /\ attempt' = [attempt EXCEPT ![a].status = "decision_requested"]
        /\ run' = run
    BY <1>12, <1>r DEF AskQuestion, IsActive, ActiveStatus
  <2>2. /\ attempt'[a].status = "decision_requested"
        /\ attempt'[a].run = r
        /\ attempt'[a].no = attempt[a].no
        /\ attempt'[a].task = attempt[a].task
        /\ \A b \in Attempt \ {a} : attempt'[b] = attempt[b]
    BY <2>1, <1>t, AttemptStatusEffect
  <2>3. run[r].status = "running"
    BY <2>1, ActiveRunStatus
  <2>4. "decision_requested" \in LatestStatus("running")
    BY DEF LatestStatus
  <2> QED
    BY <2>1, <2>2, <2>3, <2>4, ActiveAttemptStep
<1>13. ASSUME NEW a \in Attempt, NEW status \in TerminalStatus,
              NEW result \in Result \cup {None}, NEW failure \in Failure \cup {None},
              NEW session \in Session \cup {None},
              SettleRunAttempt(a, status, result, failure, session)
       PROVE  Coherent'
  <2> DEFINE r == attempt[a].run
             s == attempt'[a].status
  <2>1. IsActive(a) /\ r \in Run /\ a \in AttemptsOf(r)
    BY <1>13, <1>r DEF SettleRunAttempt, IsActive, ActiveStatus
  <2>2. /\ attempt'[a].run = r
        /\ attempt'[a].no = attempt[a].no
        /\ attempt'[a].task = attempt[a].task
        /\ \A b \in Attempt \ {a} : attempt'[b] = attempt[b]
        /\ run'[r].status = RunStatusForTerminal(s)
        /\ run'[r].task = run[r].task
        /\ \A q \in Run \ {r} : run'[q] = run[q]
        /\ s \in TerminalStatus
    BY <1>13, <2>1, SettleEffect
  <2> HIDE DEF s
  <2>3. /\ RunStatusForTerminal(s) \notin {"absent", "ready"}
        /\ s \in LatestStatus(RunStatusForTerminal(s))
    BY <2>2 DEF TerminalStatus, RunStatusForTerminal, LatestStatus
  <2> QED
    BY <2>1, <2>2, <2>3, ActiveAttemptStep DEF s
<1>14. CASE UNCHANGED vars
  BY <1>14, <1>s DEF vars
<1>15. QED
  <2>1. CASE Planning
    BY <2>1, <1>1, <1>2, <1>3, <1>4 DEF Planning
  <2>2. CASE Steering
    BY <2>2, <1>5, <1>6, <1>7, <1>8, <1>9, <1>10 DEF Steering
  <2>3. CASE Execution
    BY <2>3, <1>11, <1>12, <1>13 DEF Execution
  <2> QED
    BY <1>14, <2>1, <2>2, <2>3 DEF Next

\* RunFollowsLatestAttempt and OneActiveAttempt are inductive together: a Run is
\* ready or settled only while its attempts are, and only a ready Run is claimed.
THEOREM RunAndAttemptsAgree == Spec => []Coherent
<1>1. Init => Coherent
  BY NoneAssumption
  DEF Init, Coherent, RunFollowsLatestAttempt, OneActiveAttempt, AttemptsOf, IsLatestAttempt,
      NoAttempt, NoRun
<1>2. QED
  BY <1>1, CoherentStep, TypeCorrect, RowsConsistent, PTL DEF Spec

\* The status of a Run and of its latest attempt agree, for every instance.
THEOREM RunFollowsAttemptAlways == Spec => []RunFollowsLatestAttempt
  BY RunAndAttemptsAgree, PTL DEF Coherent

\* A Run never has two active attempts, for every instance.
THEOREM OneActiveAttemptAlways == Spec => []OneActiveAttempt
  BY RunAndAttemptsAgree, PTL DEF Coherent
=============================================================================
