---------------------------- MODULE HistoryProofs ----------------------------
(***************************************************************************)
(* Proofs about what is written once: terminal outcomes, Reviews, answers  *)
(* and guidance; and about worktrees: the lease is exclusive, active       *)
(* attempts never share a worktree, a lineage never moves, and             *)
(* RunLifecycle implements WorktreeLease.  All for every set of Runs,      *)
(* attempts, guidance and worktrees.                                       *)
(***************************************************************************)
EXTENDS RunLifecycleProofs

\* A step that writes a row of run_attempts is a claim, a question, a
\* settlement or a cancel, of the attempt it names.
LEMMA AttemptStepKinds ==
    ASSUME [Next]_vars
    PROVE  \/ attempt' = attempt
           \/ \E a \in Attempt, r \in Run, w \in Worktree : ClaimRunAttempt(a, r, w)
           \/ \E a \in Attempt : AskQuestion(a)
           \/ \E a \in Attempt, status \in TerminalStatus, result \in Result \cup {None},
                 failure \in Failure \cup {None}, session \in Session \cup {None} :
                   SettleRunAttempt(a, status, result, failure, session)
           \/ \E r \in Run, a \in Attempt : CancelRun(r, a)
  <1>1. CASE Planning
    BY <1>1 DEF Planning, TransitionToArchitectureReview, SubmitImplementation, SubmitFix,
                TransitionToWaitingForUserConfirmation
  <1>2. CASE Steering
    BY <1>2 DEF Steering, AnswerQuestion, SubmitReview, AcceptReview, RetryRun, AddRunGuidance
  <1>3. CASE Execution
    BY <1>3 DEF Execution
  <1>4. CASE UNCHANGED vars
    BY <1>4 DEF vars
  <1> QED
    BY <1>1, <1>2, <1>3, <1>4 DEF Next

\* A claim changes an absent row only; the other writers change an active row
\* only, along the transition table and without moving it.
LEMMA AttemptStep ==
    ASSUME TypeOK, Rows, [Next]_vars, NEW b \in Attempt, attempt'[b] # attempt[b]
    PROVE  \/ attempt[b].status = "absent"
           \/ /\ <<attempt[b].status, attempt'[b].status>> \in AttemptTransition
              /\ attempt'[b].run = attempt[b].run
              /\ attempt'[b].no = attempt[b].no
              /\ attempt'[b].task = attempt[b].task
  <1>t. run \in [Run -> RunRecord] /\ attempt \in [Attempt -> AttemptRecord]
    BY DEF TypeOK
  <1>1. ASSUME NEW a \in Attempt, NEW r \in Run, NEW w \in Worktree, ClaimRunAttempt(a, r, w)
        PROVE  attempt[b].status = "absent"
    <2>1. \A c \in Attempt \ {a} : attempt'[c] = attempt[c]
      BY <1>1, ClaimEffect
    <2> QED
      BY <1>1, <2>1 DEF ClaimRunAttempt, Claimable, WorktreeFree
  <1>2. ASSUME NEW a \in Attempt, AskQuestion(a)
        PROVE  /\ <<attempt[b].status, attempt'[b].status>> \in AttemptTransition
               /\ attempt'[b].run = attempt[b].run
               /\ attempt'[b].no = attempt[b].no
               /\ attempt'[b].task = attempt[b].task
    <2>1. /\ attempt' = [attempt EXCEPT ![a].status = "decision_requested"]
          /\ attempt[a].status = "running"
      BY <1>2 DEF AskQuestion
    <2> QED
      BY <1>t, <2>1, AttemptStatusEffect DEF AttemptTransition
  <1>3. ASSUME NEW a \in Attempt, NEW status \in TerminalStatus,
               NEW result \in Result \cup {None}, NEW failure \in Failure \cup {None},
               NEW session \in Session \cup {None},
               SettleRunAttempt(a, status, result, failure, session)
        PROVE  /\ <<attempt[b].status, attempt'[b].status>> \in AttemptTransition
               /\ attempt'[b].run = attempt[b].run
               /\ attempt'[b].no = attempt[b].no
               /\ attempt'[b].task = attempt[b].task
    <2>1. attempt[a].run \in Run
      BY <1>3 DEF SettleRunAttempt, IsActive, ActiveStatus, Rows, LineageShared
    <2> QED
      BY <1>3, <2>1, SettleEffect
  <1>4. ASSUME NEW r \in Run, NEW a \in Attempt, CancelRun(r, a)
        PROVE  /\ <<attempt[b].status, attempt'[b].status>> \in AttemptTransition
               /\ attempt'[b].run = attempt[b].run
               /\ attempt'[b].no = attempt[b].no
               /\ attempt'[b].task = attempt[b].task
    <2>1. /\ attempt' = [attempt EXCEPT ![a].status = "cancel_requested"]
          /\ <<attempt[a].status, "cancel_requested">> \in AttemptTransition
      BY <1>4 DEF CancelRun
    <2> QED
      BY <1>t, <2>1, AttemptStatusEffect
  <1> QED
    BY <1>1, <1>2, <1>3, <1>4, AttemptStepKinds

-----------------------------------------------------------------------------
(* Outcomes.                                                               *)

\* A settled attempt is never written again.
LEMMA TerminalStays ==
    ASSUME TypeOK, Rows, [Next]_vars, NEW a \in Attempt, attempt[a].status \in TerminalStatus
    PROVE  attempt'[a] = attempt[a]
  BY AttemptStep DEF TerminalStatus, AttemptTransition

\* The first terminal outcome wins, and after a recorded cancel it is canceled.
THEOREM OutcomeFinal == Spec => TerminalOutcomeIsFinal
<1>1. TypeOK /\ Rows /\ [Next]_vars =>
        [\A a \in Attempt :
            /\ attempt[a].status \in TerminalStatus => attempt'[a] = attempt[a]
            /\ attempt[a].status = "cancel_requested" =>
                  attempt'[a].status \in {"cancel_requested", "canceled"}]_vars
  <2> SUFFICES ASSUME TypeOK, Rows, [Next]_vars, NEW a \in Attempt
               PROVE  /\ attempt[a].status \in TerminalStatus => attempt'[a] = attempt[a]
                      /\ attempt[a].status = "cancel_requested" =>
                            attempt'[a].status \in {"cancel_requested", "canceled"}
    OBVIOUS
  <2>1. attempt[a].status = "cancel_requested" =>
          attempt'[a].status \in {"cancel_requested", "canceled"}
    BY AttemptStep DEF AttemptTransition
  <2> QED
    BY <2>1, TerminalStays
<1>2. QED
  BY <1>1, TypeCorrect, RowsConsistent, PTL DEF Spec, TerminalOutcomeIsFinal

\* Only a ready Run gets a new attempt, so the latest attempt of any other Run
\* stays the latest.
LEMMA LatestStays ==
    ASSUME TypeOK, Rows, [Next]_vars, NEW r \in Run, run[r].status # "ready"
    PROVE  /\ AttemptsOf(r)' = AttemptsOf(r)
           /\ \A a \in AttemptsOf(r) : attempt'[a].no = attempt[a].no
           /\ \A a \in Attempt : IsLatestAttempt(r, a)' <=> IsLatestAttempt(r, a)
  <1>1. \A b \in Attempt : b \in AttemptsOf(r) \/ b \in AttemptsOf(r)' =>
          /\ attempt'[b].run = attempt[b].run
          /\ attempt'[b].no = attempt[b].no
    <2> SUFFICES ASSUME NEW b \in Attempt, b \in AttemptsOf(r) \/ b \in AttemptsOf(r)',
                        attempt'[b] # attempt[b]
                 PROVE  /\ attempt'[b].run = attempt[b].run
                        /\ attempt'[b].no = attempt[b].no
      OBVIOUS
    <2>1. CASE attempt[b].status = "absent"
      <3>1. \A a \in Attempt, q \in Run, w \in Worktree : ~ClaimRunAttempt(a, q, w) \/ a # b \/ q # r
        BY DEF ClaimRunAttempt, Claimable, WorktreeFree
      <3>2. \A a \in Attempt, q \in Run, w \in Worktree : ~ClaimRunAttempt(a, q, w)
        <4> SUFFICES ASSUME NEW a \in Attempt, NEW q \in Run, NEW w \in Worktree,
                            ClaimRunAttempt(a, q, w)
                     PROVE  FALSE
          OBVIOUS
        <4>1. /\ attempt'[a].run = q
              /\ \A c \in Attempt \ {a} : attempt'[c] = attempt[c]
          BY ClaimEffect
        <4>2. a = b /\ q # r
          BY <3>1, <4>1
        <4> QED
          BY <2>1, <4>1, <4>2, RowOfRun DEF AttemptsOf
      <3>3. \A a \in Attempt : AskQuestion(a) => attempt'[b] = attempt[b]
        BY <2>1 DEF AskQuestion, TypeOK, AttemptRecord
      <3>4. \A q \in Run, a \in Attempt : CancelRun(q, a) => attempt'[b] = attempt[b]
        BY <2>1 DEF CancelRun, IsActive, ActiveStatus, TypeOK, AttemptRecord
      <3>5. ASSUME NEW a \in Attempt, NEW status \in TerminalStatus,
                   NEW result \in Result \cup {None}, NEW failure \in Failure \cup {None},
                   NEW session \in Session \cup {None},
                   SettleRunAttempt(a, status, result, failure, session)
            PROVE  attempt'[b] = attempt[b]
        <4>1. a # b /\ attempt[a].run \in Run
          BY <2>1, <3>5 DEF SettleRunAttempt, IsActive, ActiveStatus, Rows, LineageShared
        <4> QED
          BY <3>5, <4>1, SettleEffect
      <3> QED
        BY <3>2, <3>3, <3>4, <3>5, AttemptStepKinds
    <2>2. CASE attempt[b].status # "absent"
      BY <2>2, AttemptStep
    <2> QED
      BY <2>1, <2>2
  <1> QED
    BY <1>1 DEF AttemptsOf, IsLatestAttempt

-----------------------------------------------------------------------------
(* Reviews.                                                                *)

ReviewedSucceeded ==
    \A a \in Attempt : review[a] # "none" => attempt[a].status = "succeeded"

AwaitedReviewIsMissing ==
    \A r \in Run : \A a \in Attempt :
        run[r].status = "review_required" /\ IsLatestAttempt(r, a) => review[a] = "none"

DiscussedReviewIsLatest ==
    \A r \in Run : run[r].status \in {"review_discussion", "accepted"} =>
        \E a \in AttemptsOf(r) :
            /\ IsLatestAttempt(r, a)
            /\ review[a] # "none"
            /\ run[r].status = "accepted" => review[a] # "blocker"

Reviewed == ReviewedSucceeded /\ AwaitedReviewIsMissing /\ DiscussedReviewIsLatest

\* The run row a step writes, as far as Reviews care: review_required comes from
\* a settlement of the active attempt, review_discussion from a Review and
\* accepted from an acceptance.
LEMMA ReviewStatusStep ==
    ASSUME TypeOK, Rows, Coherent, Reviewed, [Next]_vars, NEW r \in Run, run'[r] # run[r]
    PROVE  /\ run'[r].status = "review_required" =>
                \E a \in AttemptsOf(r) : IsActive(a) /\ review'[a] = review[a]
           /\ run'[r].status = "review_discussion" =>
                \E a \in AttemptsOf(r) :
                    /\ IsLatestAttempt(r, a)
                    /\ run[r].status = "review_required"
                    /\ review'[a] # "none"
           /\ run'[r].status = "accepted" =>
                \E a \in AttemptsOf(r) :
                    /\ IsCurrentReview(r, a)
                    /\ run[r].status = "review_discussion"
                    /\ review[a] # "blocker"
                    /\ review' = review
  <1>t. /\ run \in [Run -> RunRecord] /\ attempt \in [Attempt -> AttemptRecord]
        /\ review \in [Attempt -> Severity \cup {"none"}]
    BY DEF TypeOK
  <1> DEFINE ToReady == run'[r].status = "ready"
  <1>1. ASSUME NEW q \in Run, SubmitImplementation(q) PROVE ToReady
    BY <1>1, <1>t DEF SubmitImplementation
  <1>2. ASSUME NEW q \in Run, NEW a \in Attempt, SubmitFix(q, a) PROVE ToReady
    BY <1>2, <1>t DEF SubmitFix, RunRecord
  <1>3. ASSUME NEW a \in Attempt, NEW c \in BOOLEAN, AnswerQuestion(a, c) PROVE ToReady
    BY <1>3, <1>t DEF AnswerQuestion, RunRecord
  <1>4. ASSUME NEW a \in Attempt, NEW severity \in Severity, SubmitReview(a, severity)
        PROVE  /\ run'[r].status = "review_discussion"
               /\ run[r].status = "review_required"
               /\ a \in AttemptsOf(r) /\ IsLatestAttempt(r, a) /\ review'[a] # "none"
    <2>1. /\ run' = [run EXCEPT ![attempt[a].run].status = "review_discussion"]
          /\ run[attempt[a].run].status = "review_required"
          /\ IsLatestAttempt(attempt[a].run, a)
          /\ review' = [review EXCEPT ![a] = severity]
      BY <1>4 DEF SubmitReview
    <2>2. attempt[a].run = r
      BY <1>t, <2>1
    <2> QED
      BY <1>t, <2>1, <2>2 DEF RunRecord, IsLatestAttempt, Severity
  <1>5. ASSUME NEW a \in Attempt, AcceptReview(a)
        PROVE  /\ run'[r].status = "accepted" /\ run[r].status = "review_discussion"
               /\ a \in AttemptsOf(r) /\ IsCurrentReview(r, a)
               /\ review[a] # "blocker" /\ review' = review
    <2>1. /\ run' = [run EXCEPT ![attempt[a].run].status = "accepted"]
          /\ run[attempt[a].run].status = "review_discussion"
          /\ IsCurrentReview(attempt[a].run, a)
          /\ review[a] # "blocker" /\ review' = review
      BY <1>5 DEF AcceptReview
    <2>2. attempt[a].run = r
      BY <1>t, <2>1
    <2> QED
      BY <1>t, <2>1, <2>2 DEF RunRecord, IsCurrentReview
  <1>6. ASSUME NEW q \in Run, RetryRun(q) PROVE ToReady
    BY <1>6, <1>t DEF RetryRun, RunRecord
  <1>7. ASSUME NEW q \in Run, NEW a \in Attempt, CancelRun(q, a)
        PROVE  run'[r].status = "cancel_requested"
    BY <1>7, <1>t DEF CancelRun, RunRecord
  <1>8. ASSUME NEW a \in Attempt, NEW q \in Run, NEW w \in Worktree, ClaimRunAttempt(a, q, w)
        PROVE  run'[r].status = "running"
    BY <1>8, ClaimEffect
  <1>9. ASSUME NEW a \in Attempt, NEW status \in TerminalStatus,
               NEW result \in Result \cup {None}, NEW failure \in Failure \cup {None},
               NEW session \in Session \cup {None},
               SettleRunAttempt(a, status, result, failure, session)
        PROVE  /\ a \in AttemptsOf(r) /\ IsActive(a) /\ review' = review
               /\ run'[r].status \notin {"review_discussion", "accepted"}
    <2>1. attempt[a].run \in Run /\ IsActive(a) /\ review' = review
      BY <1>9 DEF SettleRunAttempt, IsActive, ActiveStatus, Rows, LineageShared
    <2>2. /\ run'[attempt[a].run].status = RunStatusForTerminal(attempt'[a].status)
          /\ \A q \in Run \ {attempt[a].run} : run'[q] = run[q]
      BY <1>9, <2>1, SettleEffect
    <2>3. attempt[a].run = r
      BY <2>2
    <2> QED
      BY <2>1, <2>2, <2>3 DEF RunStatusForTerminal, AttemptsOf
  <1>10. CASE Planning
    BY <1>10, <1>1, <1>2
    DEF Planning, TransitionToArchitectureReview, TransitionToWaitingForUserConfirmation
  <1>11. CASE Steering
    BY <1>11, <1>3, <1>4, <1>5, <1>6, <1>7 DEF Steering, AddRunGuidance
  <1>12. CASE Execution
    BY <1>12, <1>8, <1>9 DEF Execution, AskQuestion
  <1> QED
    BY <1>10, <1>11, <1>12 DEF Next, vars

\* The only writer of a Review is submitReview, of the attempt it reviews.
LEMMA ReviewStep ==
    ASSUME TypeOK, [Next]_vars, NEW a \in Attempt, review'[a] # review[a]
    PROVE  /\ attempt[a].status = "succeeded"
           /\ IsLatestAttempt(attempt[a].run, a)
           /\ run[attempt[a].run].status = "review_required"
           /\ review'[a] # "none"
           /\ attempt' = attempt
           /\ run' = [run EXCEPT ![attempt[a].run].status = "review_discussion"]
  <1> DEFINE Goal == /\ attempt[a].status = "succeeded"
                     /\ IsLatestAttempt(attempt[a].run, a)
                     /\ run[attempt[a].run].status = "review_required"
                     /\ review'[a] # "none"
                     /\ attempt' = attempt
                     /\ run' = [run EXCEPT ![attempt[a].run].status = "review_discussion"]
  <1>1. ASSUME NEW b \in Attempt, NEW severity \in Severity, SubmitReview(b, severity)
        PROVE  Goal
    <2>1. review' = [review EXCEPT ![b] = severity]
      BY <1>1 DEF SubmitReview
    <2>2. b = a /\ review'[a] = severity
      BY <2>1 DEF TypeOK
    <2> QED
      BY <1>1, <2>2 DEF SubmitReview, Severity
  <1> SUFFICES Goal
    OBVIOUS
  <1> HIDE DEF Goal
  <1>2. CASE Planning
    BY <1>2 DEF Planning, TransitionToArchitectureReview, SubmitImplementation, SubmitFix,
                TransitionToWaitingForUserConfirmation
  <1>3. CASE Steering
    BY <1>1, <1>3 DEF Steering, AnswerQuestion, AcceptReview, RetryRun, CancelRun,
                      AddRunGuidance
  <1>4. CASE Execution
    <2>1. \A b, r, w : ClaimRunAttempt(b, r, w) => review' = review
      BY DEF ClaimRunAttempt, Claimable, WorktreeFree
    <2>2. \A b : AskQuestion(b) => review' = review
      BY DEF AskQuestion
    <2>3. \A b, s, re, fa, se : SettleRunAttempt(b, s, re, fa, se) => review' = review
      BY DEF SettleRunAttempt
    <2> QED
      BY <1>4, <2>1, <2>2, <2>3 DEF Execution
  <1> QED
    BY <1>2, <1>3, <1>4 DEF Next, vars

\* Reviews follow the attempts they are of, through every Fix and retry.
THEOREM ReviewsConsistent == Spec => []Reviewed
<1>1. Init => Reviewed
  BY NoneAssumption
  DEF Init, Reviewed, ReviewedSucceeded, AwaitedReviewIsMissing, DiscussedReviewIsLatest, NoRun
<1>2. TypeOK /\ Rows /\ Coherent /\ Reviewed /\ [Next]_vars => Reviewed'
  <2> SUFFICES ASSUME TypeOK, Rows, Coherent, Reviewed, [Next]_vars PROVE Reviewed'
    OBVIOUS
  <2>1. ReviewedSucceeded'
    <3> SUFFICES ASSUME NEW a \in Attempt, review'[a] # "none"
                 PROVE  attempt'[a].status = "succeeded"
      BY DEF ReviewedSucceeded
    <3>1. CASE review'[a] = review[a]
      BY <3>1, TerminalStays DEF Reviewed, ReviewedSucceeded, TerminalStatus
    <3>2. CASE review'[a] # review[a]
      BY <3>2, ReviewStep
    <3> QED
      BY <3>1, <3>2
  <2>2. AwaitedReviewIsMissing'
    <3> SUFFICES ASSUME NEW r \in Run, NEW a \in Attempt,
                        run'[r].status = "review_required", IsLatestAttempt(r, a)'
                 PROVE  review'[a] = "none"
      BY DEF AwaitedReviewIsMissing
    <3>1. CASE run'[r] = run[r]
      <4>1. IsLatestAttempt(r, a) /\ review[a] = "none"
        BY <3>1, LatestStays DEF Reviewed, AwaitedReviewIsMissing
      <4>2. review'[a] = review[a]
        <5> SUFFICES ASSUME review'[a] # review[a] PROVE FALSE
          OBVIOUS
        <5>1. attempt[a].run = r
          BY <4>1 DEF IsLatestAttempt, AttemptsOf
        <5>2. run' = [run EXCEPT ![r].status = "review_discussion"]
          BY <5>1, ReviewStep
        <5>3. run'[r].status = "review_discussion"
          BY <5>2, RunStatusEffect DEF TypeOK
        <5> QED
          BY <5>3
      <4> QED
        BY <4>1, <4>2
    <3>2. CASE run'[r] # run[r]
      <4>1. PICK b \in AttemptsOf(r) : IsActive(b) /\ review'[b] = review[b]
        BY <3>2, ReviewStatusStep
      <4>2. run[r].status # "ready"
        BY <4>1, ActiveRunStatus
      <4>3. a = b
        BY <4>1, <4>2, LatestStays, ActiveIsLatest DEF Coherent
      <4>4. review[b] = "none"
        BY <4>1 DEF Reviewed, ReviewedSucceeded, IsActive, ActiveStatus, AttemptsOf
      <4> QED
        BY <4>1, <4>3, <4>4
    <3> QED
      BY <3>1, <3>2
  <2>3. DiscussedReviewIsLatest'
    <3> SUFFICES ASSUME NEW r \in Run, run'[r].status \in {"review_discussion", "accepted"}
                 PROVE  \E a \in AttemptsOf(r)' :
                            /\ IsLatestAttempt(r, a)'
                            /\ review'[a] # "none"
                            /\ run'[r].status = "accepted" => review'[a] # "blocker"
      BY DEF DiscussedReviewIsLatest
    <3>1. CASE run'[r] = run[r]
      <4>1. PICK a \in AttemptsOf(r) :
               /\ IsLatestAttempt(r, a)
               /\ review[a] # "none"
               /\ run[r].status = "accepted" => review[a] # "blocker"
        BY <3>1 DEF Reviewed, DiscussedReviewIsLatest
      <4>2. a \in Attempt /\ attempt[a].run = r
        BY DEF AttemptsOf
      <4>3. review'[a] = review[a]
        BY <3>1, <4>2, ReviewStep
      <4>4. IsLatestAttempt(r, a)' /\ a \in AttemptsOf(r)'
        BY <3>1, <4>1, <4>2, LatestStays
      <4> QED
        BY <3>1, <4>1, <4>3, <4>4
    <3>2. CASE run'[r] # run[r] /\ run'[r].status = "review_discussion"
      <4>1. PICK a \in AttemptsOf(r) : /\ IsLatestAttempt(r, a)
                                       /\ run[r].status = "review_required"
                                       /\ review'[a] # "none"
        BY <3>2, ReviewStatusStep
      <4>2. a \in Attempt
        BY DEF AttemptsOf
      <4> QED
        BY <3>2, <4>1, <4>2, LatestStays
    <3>3. CASE run'[r] # run[r] /\ run'[r].status = "accepted"
      <4>1. PICK a \in AttemptsOf(r) :
               /\ IsCurrentReview(r, a)
               /\ run[r].status = "review_discussion"
               /\ review[a] # "blocker"
               /\ review' = review
        BY <3>3, ReviewStatusStep
      <4>2. PICK b \in AttemptsOf(r) : IsLatestAttempt(r, b) /\ review[b] # "none"
        BY <4>1 DEF Reviewed, DiscussedReviewIsLatest
      <4>3. a \in Attempt /\ b \in Attempt /\ attempt[a].no \in Int /\ attempt[b].no \in Int
        BY BoundAssumption DEF AttemptsOf, TypeOK, AttemptRecord
      <4>4. a = b
        BY <4>1, <4>2, <4>3 DEF IsCurrentReview, IsLatestAttempt, Rows, NumbersDistinct
      <4> QED
        BY <4>1, <4>2, <4>3, <4>4, LatestStays
    <3> QED
      BY <3>1, <3>2, <3>3
  <2> QED
    BY <2>1, <2>2, <2>3 DEF Reviewed
<1>3. QED
  BY <1>1, <1>2, TypeCorrect, RowsConsistent, RunAndAttemptsAgree, PTL DEF Spec

\* Acceptance rests on the current Review of the latest attempt, which worked on
\* the latest Task.
THEOREM AcceptedReviewed == Spec => []AcceptedWorkIsReviewed
<1>1. TypeOK /\ Coherent /\ Reviewed => AcceptedWorkIsReviewed
  <2> SUFFICES ASSUME TypeOK, Coherent, Reviewed, NEW r \in Run, run[r].status = "accepted"
               PROVE  \E a \in AttemptsOf(r) :
                          /\ IsLatestAttempt(r, a)
                          /\ attempt[a].status = "succeeded"
                          /\ attempt[a].task = run[r].task
                          /\ review[a] \in {"clean", "minor"}
    BY DEF AcceptedWorkIsReviewed
  <2>1. PICK a \in AttemptsOf(r) : /\ IsLatestAttempt(r, a)
                                   /\ review[a] \notin {"none", "blocker"}
    BY DEF Reviewed, DiscussedReviewIsLatest
  <2>2. a \in Attempt
    BY DEF AttemptsOf
  <2>3. review[a] \in {"clean", "minor"}
    BY <2>1, <2>2 DEF TypeOK, Severity
  <2>4. attempt[a].status \in LatestStatus("accepted") /\ attempt[a].task = run[r].task
    BY <2>1, <2>2 DEF Coherent, RunFollowsLatestAttempt
  <2>5. attempt[a].status = "succeeded"
    BY <2>4 DEF LatestStatus
  <2> QED
    BY <2>1, <2>3, <2>4, <2>5
<1>2. QED
  BY <1>1, TypeCorrect, RunAndAttemptsAgree, ReviewsConsistent, PTL

\* A Review once submitted is never replaced.
THEOREM ReviewFixed == Spec => ReviewNeverRewritten
<1>1. TypeOK /\ Rows /\ Reviewed /\ [Next]_vars =>
        [\A a \in Attempt : review[a] # "none" => review'[a] = review[a]]_vars
  <2> SUFFICES ASSUME TypeOK, Rows, Reviewed, [Next]_vars, NEW a \in Attempt,
                      review'[a] # review[a]
               PROVE  review[a] = "none"
    OBVIOUS
  <2>1. /\ attempt[a].status = "succeeded"
        /\ IsLatestAttempt(attempt[a].run, a)
        /\ run[attempt[a].run].status = "review_required"
    BY ReviewStep
  <2>2. attempt[a].run \in Run
    BY <2>1 DEF Rows, LineageShared
  <2> QED
    BY <2>1, <2>2 DEF Reviewed, AwaitedReviewIsMissing
<1>2. QED
  BY <1>1, TypeCorrect, RowsConsistent, ReviewsConsistent, PTL DEF Spec, ReviewNeverRewritten

-----------------------------------------------------------------------------
(* Guidance.                                                               *)

PendingWaits(g) ==
    IsPending(g) => \A b \in Attempt : attempt[b].run = guidance[g].run => ~IsActive(b)

ConsumedByOwnRun(g) ==
    guidance[g].by # None => /\ guidance[g].run \in Run
                             /\ attempt[guidance[g].by].run = guidance[g].run

GuidanceInv == \A g \in Guidance : PendingWaits(g) /\ ConsumedByOwnRun(g)

\* What a step may do to guidance and to the activity of Runs: a claim consumes
\* what is pending for its Run, the planner adds to a Run that has no active
\* attempt, and no other step makes a Run active.
LEMMA GuidanceStep ==
    ASSUME TypeOK, Rows, [Next]_vars
    PROVE  \/ \E a \in Attempt, r \in Run, w \in Worktree : ClaimRunAttempt(a, r, w)
           \/ \E g \in Guidance, r \in Run : AddRunGuidance(g, r)
           \/ /\ guidance' = guidance
              /\ \A b \in Attempt : attempt'[b] = attempt[b] \/ IsActive(b)
  <1>1. CASE Planning
    BY <1>1 DEF Planning, TransitionToArchitectureReview, SubmitImplementation, SubmitFix,
                TransitionToWaitingForUserConfirmation
  <1>2. ASSUME NEW r \in Run, NEW a \in Attempt, CancelRun(r, a)
        PROVE  /\ guidance' = guidance
               /\ \A b \in Attempt : attempt'[b] = attempt[b] \/ IsActive(b)
    BY <1>2 DEF CancelRun, TypeOK
  <1>3. CASE Steering
    BY <1>2, <1>3 DEF Steering, AnswerQuestion, SubmitReview, AcceptReview, RetryRun
  <1>4. ASSUME NEW a \in Attempt, AskQuestion(a)
        PROVE  /\ guidance' = guidance
               /\ \A b \in Attempt : attempt'[b] = attempt[b] \/ IsActive(b)
    BY <1>4 DEF AskQuestion, TypeOK, IsActive, ActiveStatus
  <1>5. ASSUME NEW a \in Attempt, NEW status \in TerminalStatus,
               NEW result \in Result \cup {None}, NEW failure \in Failure \cup {None},
               NEW session \in Session \cup {None},
               SettleRunAttempt(a, status, result, failure, session)
        PROVE  /\ guidance' = guidance
               /\ \A b \in Attempt : attempt'[b] = attempt[b] \/ IsActive(b)
    <2>1. IsActive(a) /\ guidance' = guidance /\ attempt[a].run \in Run
      BY <1>5 DEF SettleRunAttempt, IsActive, ActiveStatus, Rows, LineageShared
    <2>2. \A b \in Attempt \ {a} : attempt'[b] = attempt[b]
      BY <1>5, <2>1, SettleEffect
    <2> QED
      BY <2>1, <2>2
  <1>6. CASE Execution
    BY <1>4, <1>5, <1>6 DEF Execution
  <1> QED
    BY <1>1, <1>3, <1>6 DEF Next, vars

\* Guidance never waits behind a running attempt and reaches its own Run.
THEOREM GuidanceConsistent == Spec => []GuidanceInv
<1>1. Init => GuidanceInv
  BY DEF Init, GuidanceInv, PendingWaits, ConsumedByOwnRun, IsPending
<1>2. TypeOK /\ Rows /\ GuidanceInv /\ [Next]_vars => GuidanceInv'
  <2> SUFFICES ASSUME TypeOK, Rows, GuidanceInv, [Next]_vars, NEW g \in Guidance
               PROVE  PendingWaits(g)' /\ ConsumedByOwnRun(g)'
    BY DEF GuidanceInv
  <2> USE NoneAssumption DEF PendingWaits, ConsumedByOwnRun, IsPending
  <2>0. /\ PendingWaits(g) /\ ConsumedByOwnRun(g)
        /\ guidance \in [Guidance -> [run : Run \cup {None}, by : Attempt \cup {None}]]
    BY DEF GuidanceInv, TypeOK
  <2>1. ASSUME NEW b \in Attempt, attempt[b].run \in Run
        PROVE  attempt'[b].run = attempt[b].run
    BY <2>1, AttemptStep DEF Rows, AbsentRowIsFree
  <2>2. ASSUME guidance'[g] = guidance[g] PROVE ConsumedByOwnRun(g)'
    BY <2>0, <2>1, <2>2
  <2>3. ASSUME NEW a \in Attempt, NEW r \in Run, NEW w \in Worktree, ClaimRunAttempt(a, r, w)
        PROVE  PendingWaits(g)' /\ ConsumedByOwnRun(g)'
    <3>1. /\ attempt'[a].run = r
          /\ \A b \in Attempt \ {a} : attempt'[b] = attempt[b]
      BY <2>3, ClaimEffect
    <3>2. guidance'[g] = IF IsPending(g) /\ guidance[g].run = r
                           THEN [guidance[g] EXCEPT !.by = a]
                           ELSE guidance[g]
      BY <2>3 DEF ClaimRunAttempt, Claimable, WorktreeFree
    <3>3. CASE IsPending(g) /\ guidance[g].run = r
      <4>1. guidance'[g].by = a /\ guidance'[g].run = r
        BY <2>0, <3>2, <3>3
      <4> QED
        BY <3>1, <4>1
    <3>4. CASE ~(IsPending(g) /\ guidance[g].run = r)
      <4>1. guidance'[g] = guidance[g]
        BY <3>2, <3>4
      <4>2. PendingWaits(g)'
        BY <2>0, <3>1, <3>4, <4>1 DEF IsActive
      <4> QED
        BY <2>2, <4>1, <4>2
    <3> QED
      BY <3>3, <3>4
  <2>4. ASSUME NEW h \in Guidance, NEW r \in Run, AddRunGuidance(h, r)
        PROVE  PendingWaits(g)' /\ ConsumedByOwnRun(g)'
    <3>1. /\ attempt' = attempt
          /\ \A b \in Attempt : attempt[b].run = r => ~IsActive(b)
          /\ guidance' = [guidance EXCEPT ![h] = [run |-> r, by |-> None]]
      BY <2>4 DEF AddRunGuidance, HasActiveAttempt, AttemptsOf
    <3>2. CASE g = h
      <4>1. guidance'[g].run = r /\ guidance'[g].by = None
        BY <2>0, <3>1, <3>2
      <4> QED
        BY <3>1, <4>1 DEF IsActive
    <3>3. CASE g # h
      <4>1. guidance'[g] = guidance[g]
        BY <2>0, <3>1, <3>3
      <4> QED
        BY <2>0, <2>2, <3>1, <4>1 DEF IsActive
    <3> QED
      BY <3>2, <3>3
  <2>5. CASE guidance' = guidance /\ \A b \in Attempt : attempt'[b] = attempt[b] \/ IsActive(b)
    <3>1. ASSUME NEW b \in Attempt, IsPending(g), attempt'[b].run = guidance[g].run, IsActive(b)'
          PROVE  FALSE
      <4>1. IsActive(b)
        BY <2>5, <3>1 DEF IsActive
      <4>2. attempt[b].run = guidance[g].run
        BY <2>1, <3>1, <4>1 DEF IsActive, ActiveStatus, Rows, LineageShared
      <4> QED
        BY <2>0, <3>1, <4>1, <4>2
    <3> QED
      BY <2>2, <2>5, <3>1
  <2> QED
    BY <2>3, <2>4, <2>5, GuidanceStep
<1>3. QED
  BY <1>1, <1>2, TypeCorrect, RowsConsistent, PTL DEF Spec

\* The invariant the runs check, for every instance.
THEOREM GuidanceReaches == Spec => [](GuidanceReachesNextAttempt /\ GuidanceStaysWithRun)
<1>1. TypeOK /\ GuidanceInv => GuidanceReachesNextAttempt /\ GuidanceStaysWithRun
  BY DEF TypeOK, GuidanceInv, PendingWaits, ConsumedByOwnRun, GuidanceReachesNextAttempt,
         GuidanceStaysWithRun, HasActiveAttempt, AttemptsOf
<1>2. QED
  BY <1>1, TypeCorrect, GuidanceConsistent, PTL

\* A consumed guidance is never consumed again.
THEOREM GuidanceOnce == Spec => GuidanceConsumedOnce
<1>1. TypeOK /\ Rows /\ GuidanceInv /\ [Next]_vars =>
        [\A g \in Guidance : guidance[g].by # None => guidance'[g] = guidance[g]]_vars
  <2> SUFFICES ASSUME TypeOK, Rows, GuidanceInv, [Next]_vars, NEW g \in Guidance,
                      guidance[g].by # None
               PROVE  guidance'[g] = guidance[g]
    OBVIOUS
  <2>1. guidance[g].run # None
    BY NoneAssumption DEF GuidanceInv, ConsumedByOwnRun
  <2>2. \A a, r, w : ClaimRunAttempt(a, r, w) => guidance'[g] = guidance[g]
    BY DEF ClaimRunAttempt, Claimable, WorktreeFree, IsPending
  <2>3. \A h \in Guidance : \A r : AddRunGuidance(h, r) => guidance'[g] = guidance[g]
    BY <2>1 DEF AddRunGuidance, TypeOK
  <2> QED
    BY <2>2, <2>3, GuidanceStep
<1>2. QED
  BY <1>1, TypeCorrect, RowsConsistent, GuidanceConsistent, PTL DEF Spec, GuidanceConsumedOnce

-----------------------------------------------------------------------------
(* Questions.                                                              *)

QuestionOk(a) ==
    /\ question[a] = "open" => attempt[a].status \in {"decision_requested", "needs_decision"}
    /\ attempt[a].status = "decision_requested" => question[a] = "open"
    /\ attempt[a].status = "needs_decision" => question[a] \in {"open", "answered"}

QuestionIsLatest(r, a) ==
    question[a] = "open" /\ attempt[a].run = r =>
        /\ IsLatestAttempt(r, a)
        /\ run[r].status \in {"running", "needs_decision"}

QuestionInv ==
    \A a \in Attempt : QuestionOk(a) /\ \A r \in Run : QuestionIsLatest(r, a)

\* A step that touches no Question and no attempt, and no Run that runs or waits
\* for a decision, keeps the Questions in order.
LEMMA QuestionFrame ==
    ASSUME QuestionInv, attempt' = attempt, question' = question,
           \A r \in Run : run[r].status \in {"running", "needs_decision"} => run'[r] = run[r]
    PROVE  QuestionInv'
  BY DEF QuestionInv, QuestionOk, QuestionIsLatest, IsLatestAttempt, AttemptsOf

\* A step that touches one active attempt and its Run keeps the other Questions
\* in order.
LEMMA QuestionOfOthers ==
    ASSUME TypeOK, Rows, Coherent, QuestionInv, [Next]_vars,
           NEW r \in Run, NEW a \in AttemptsOf(r), IsActive(a),
           NEW b \in Attempt \ {a},
           attempt'[b] = attempt[b],
           question'[b] = question[b],
           \A q \in Run \ {r} : run'[q] = run[q]
    PROVE  QuestionOk(b)' /\ \A q \in Run : QuestionIsLatest(q, b)'
  <1>1. QuestionOk(b)'
    BY DEF QuestionInv, QuestionOk
  <1>2. ASSUME NEW q \in Run, question[b] = "open", attempt[b].run = q
        PROVE  IsLatestAttempt(q, b)' /\ run'[q].status \in {"running", "needs_decision"}
    <2>1. IsLatestAttempt(q, b) /\ run[q].status \in {"running", "needs_decision"}
      BY <1>2 DEF QuestionInv, QuestionIsLatest
    <2>2. q # r
      BY <2>1, ActiveIsLatest DEF Coherent
    <2> QED
      BY <2>1, <2>2, LatestStays
  <1> QED
    BY <1>1, <1>2 DEF QuestionIsLatest

\* Questions follow the attempts that asked them and never outlive a cancel.
THEOREM QuestionsConsistent == Spec => []QuestionInv
<1>1. Init => QuestionInv
  BY DEF Init, QuestionInv, QuestionOk, QuestionIsLatest, NoAttempt
<1>2. TypeOK /\ Rows /\ Coherent /\ QuestionInv /\ [Next]_vars => QuestionInv'
  <2> SUFFICES ASSUME TypeOK, Rows, Coherent, QuestionInv, [Next]_vars PROVE QuestionInv'
    OBVIOUS
  <2>t. /\ run \in [Run -> RunRecord] /\ attempt \in [Attempt -> AttemptRecord]
        /\ question \in [Attempt -> {"none", "open", "answered", "superseded"}]
    BY DEF TypeOK
  <2>r. ASSUME NEW a \in Attempt, attempt[a].status # "absent"
        PROVE  attempt[a].run \in Run /\ a \in AttemptsOf(attempt[a].run)
    BY <2>r DEF Rows, LineageShared, AttemptsOf
  <2>1. CASE TransitionToArchitectureReview
    BY <2>1, QuestionFrame DEF TransitionToArchitectureReview
  <2>2. CASE TransitionToWaitingForUserConfirmation
    BY <2>2, QuestionFrame DEF TransitionToWaitingForUserConfirmation
  <2>3. ASSUME NEW r \in Run, SubmitImplementation(r) PROVE QuestionInv'
    BY <2>3, <2>t, QuestionFrame DEF SubmitImplementation
  <2>4. ASSUME NEW r \in Run, NEW a \in Attempt, SubmitFix(r, a) PROVE QuestionInv'
    BY <2>4, <2>t, QuestionFrame DEF SubmitFix
  <2>5. ASSUME NEW a \in Attempt, NEW changesContract \in BOOLEAN,
               AnswerQuestion(a, changesContract)
        PROVE  QuestionInv'
    <3> DEFINE r == attempt[a].run
    <3>1. /\ question[a] = "open" /\ attempt[a].status = "needs_decision"
          /\ question' = [question EXCEPT ![a] = "answered"]
          /\ attempt' = attempt
          /\ run' = run \/ run' = [run EXCEPT ![r].status = "ready"]
      BY <2>5 DEF AnswerQuestion
    <3>2. r \in Run /\ a \in AttemptsOf(r)
      BY <3>1, <2>r
    <3>3. \A q \in Run \ {r} : run'[q] = run[q]
      BY <3>1, <2>t
    <3>4. QuestionOk(a)' /\ question'[a] = "answered"
      BY <3>1, <2>t DEF QuestionOk
    <3>5. ASSUME NEW b \in Attempt \ {a}, NEW q \in Run, question[b] = "open",
                 attempt[b].run = q
          PROVE  q # r
      <4>1. \A c \in Attempt : attempt[c].no \in Int
        BY <2>t, BoundAssumption DEF AttemptRecord
      <4> QED
        BY <3>1, <3>2, <3>5, <4>1
        DEF QuestionInv, QuestionIsLatest, IsLatestAttempt, AttemptsOf, Rows, NumbersDistinct
    <3>6. ASSUME NEW b \in Attempt \ {a}
          PROVE  QuestionOk(b)' /\ \A q \in Run : QuestionIsLatest(q, b)'
      <4>1. question'[b] = question[b]
        BY <3>1, <2>t
      <4> QED
        BY <3>1, <3>3, <3>5, <4>1
        DEF QuestionInv, QuestionOk, QuestionIsLatest, IsLatestAttempt, AttemptsOf
    <3> QED
      BY <3>4, <3>6 DEF QuestionInv, QuestionIsLatest
  <2>6. ASSUME NEW a \in Attempt, NEW severity \in Severity, SubmitReview(a, severity)
        PROVE  QuestionInv'
    BY <2>6, <2>t, QuestionFrame DEF SubmitReview
  <2>7. ASSUME NEW a \in Attempt, AcceptReview(a) PROVE QuestionInv'
    BY <2>7, <2>t, QuestionFrame DEF AcceptReview
  <2>8. ASSUME NEW r \in Run, RetryRun(r) PROVE QuestionInv'
    BY <2>8, <2>t, QuestionFrame DEF RetryRun
  <2>9. ASSUME NEW r \in Run, NEW a \in Attempt, CancelRun(r, a) PROVE QuestionInv'
    <3>1. /\ a \in AttemptsOf(r) /\ IsActive(a)
          /\ attempt' = [attempt EXCEPT ![a].status = "cancel_requested"]
          /\ question' = [question EXCEPT ![a] = IF @ = "open" THEN "superseded" ELSE @]
          /\ run' = [run EXCEPT ![r].status = "cancel_requested"]
      BY <2>9 DEF CancelRun
    <3>2. \A b \in Attempt \ {a} : attempt'[b] = attempt[b] /\ question'[b] = question[b]
      BY <3>1, <2>t
    <3>3. \A q \in Run \ {r} : run'[q] = run[q]
      BY <3>1, <2>t
    <3>4. /\ attempt'[a].status = "cancel_requested"
          /\ question'[a] # "open"
      BY <3>1, <2>t DEF AttemptsOf, AttemptRecord
    <3>5. \A b \in Attempt \ {a} : QuestionOk(b)' /\ \A q \in Run : QuestionIsLatest(q, b)'
      BY <3>1, <3>2, <3>3, QuestionOfOthers
    <3> QED
      BY <3>4, <3>5 DEF QuestionInv, QuestionOk, QuestionIsLatest
  <2>10. ASSUME NEW g \in Guidance, NEW r \in Run, AddRunGuidance(g, r) PROVE QuestionInv'
    BY <2>10, QuestionFrame DEF AddRunGuidance
  <2>11. ASSUME NEW a \in Attempt, NEW r \in Run, NEW w \in Worktree, ClaimRunAttempt(a, r, w)
         PROVE  QuestionInv'
    <3>1. /\ attempt'[a].status = "running"
          /\ \A b \in Attempt \ {a} : attempt'[b] = attempt[b]
          /\ \A q \in Run \ {r} : run'[q] = run[q]
      BY <2>11, ClaimEffect
    <3>2. /\ attempt[a].status = "absent" /\ run[r].status = "ready"
          /\ question' = question
      BY <2>11 DEF ClaimRunAttempt, Claimable, WorktreeFree
    <3>3. question'[a] # "open"
      BY <3>2 DEF QuestionInv, QuestionOk
    <3>4. ASSUME NEW b \in Attempt \ {a}, NEW q \in Run, question[b] = "open",
                 attempt[b].run = q
          PROVE  IsLatestAttempt(q, b)' /\ run'[q].status \in {"running", "needs_decision"}
      <4>1. IsLatestAttempt(q, b) /\ run[q].status \in {"running", "needs_decision"}
        BY <3>4 DEF QuestionInv, QuestionIsLatest
      <4> QED
        BY <3>1, <3>2, <4>1, LatestStays
    <3>5. \A b \in Attempt \ {a} : QuestionOk(b)' /\ \A q \in Run : QuestionIsLatest(q, b)'
      BY <3>1, <3>2, <3>4 DEF QuestionInv, QuestionOk, QuestionIsLatest
    <3> QED
      BY <3>1, <3>3, <3>5 DEF QuestionInv, QuestionOk, QuestionIsLatest
  <2>12. ASSUME NEW a \in Attempt, AskQuestion(a) PROVE QuestionInv'
    <3> DEFINE r == attempt[a].run
    <3>1. /\ r \in Run /\ a \in AttemptsOf(r) /\ IsActive(a)
          /\ attempt[a].status = "running"
          /\ attempt' = [attempt EXCEPT ![a].status = "decision_requested"]
          /\ question' = [question EXCEPT ![a] = "open"]
          /\ run' = run
      BY <2>12, <2>r DEF AskQuestion, IsActive, ActiveStatus
    <3>2. \A b \in Attempt \ {a} : attempt'[b] = attempt[b] /\ question'[b] = question[b]
      BY <3>1, <2>t
    <3>3. /\ attempt'[a].status = "decision_requested" /\ attempt'[a].run = r
          /\ question'[a] = "open"
      BY <3>1, <2>t DEF AttemptRecord
    <3>4. run[r].status = "running" /\ IsLatestAttempt(r, a)
      BY <3>1, ActiveRunStatus, ActiveIsLatest DEF Coherent
    <3>5. IsLatestAttempt(r, a)'
      BY <3>1, <3>4, LatestStays
    <3>6. \A b \in Attempt \ {a} : QuestionOk(b)' /\ \A q \in Run : QuestionIsLatest(q, b)'
      BY <3>1, <3>2, QuestionOfOthers
    <3>7. QuestionOk(a)' /\ \A q \in Run : QuestionIsLatest(q, a)'
      BY <3>1, <3>3, <3>4, <3>5 DEF QuestionOk, QuestionIsLatest
    <3> QED
      BY <3>6, <3>7 DEF QuestionInv
  <2>13. ASSUME NEW a \in Attempt, NEW status \in TerminalStatus,
                NEW result \in Result \cup {None}, NEW failure \in Failure \cup {None},
                NEW session \in Session \cup {None},
                SettleRunAttempt(a, status, result, failure, session)
         PROVE  QuestionInv'
    <3> DEFINE r == attempt[a].run
    <3>1. /\ IsActive(a) /\ r \in Run /\ a \in AttemptsOf(r)
          /\ question' = question
      BY <2>13, <2>r DEF SettleRunAttempt, IsActive, ActiveStatus
    <3>2. /\ attempt'[a].run = r
          /\ \A b \in Attempt \ {a} : attempt'[b] = attempt[b]
          /\ run'[r].status = RunStatusForTerminal(attempt'[a].status)
          /\ \A q \in Run \ {r} : run'[q] = run[q]
          /\ <<attempt[a].status, attempt'[a].status>> \in AttemptTransition
          /\ attempt'[a].status \in TerminalStatus
      BY <2>13, <3>1, SettleEffect
    <3>3. \A b \in Attempt \ {a} : QuestionOk(b)' /\ \A q \in Run : QuestionIsLatest(q, b)'
      BY <3>1, <3>2, QuestionOfOthers
    <3>4. QuestionOk(a)
      BY DEF QuestionInv
    <3>5. question[a] = "open" =>
            /\ attempt'[a].status = "needs_decision"
            /\ run'[r].status = "needs_decision"
      <4>1. question[a] = "open" => attempt[a].status = "decision_requested"
        BY <3>1, <3>4 DEF QuestionOk, IsActive, ActiveStatus
      <4> QED
        BY <3>2, <4>1 DEF AttemptTransition, TerminalStatus, RunStatusForTerminal
    <3>6. IsLatestAttempt(r, a)'
      <4>1. IsLatestAttempt(r, a)
        BY <3>1, ActiveIsLatest DEF Coherent
      <4>2. run[r].status # "ready"
        BY <3>1, ActiveRunStatus
      <4> QED
        BY <3>1, <3>2, <4>1, <4>2, LatestStays
    <3>7. attempt'[a].status = "needs_decision" => question[a] = "open"
      BY <3>2, <3>4 DEF AttemptTransition, QuestionOk
    <3>8. QuestionOk(a)' /\ \A q \in Run : QuestionIsLatest(q, a)'
      BY <3>1, <3>2, <3>5, <3>6, <3>7 DEF QuestionOk, QuestionIsLatest, TerminalStatus
    <3> QED
      BY <3>3, <3>8 DEF QuestionInv
  <2>14. CASE UNCHANGED vars
    BY <2>14, QuestionFrame DEF vars
  <2>15. QED
    <3>1. CASE Planning
      BY <3>1, <2>1, <2>2, <2>3, <2>4 DEF Planning
    <3>2. CASE Steering
      BY <3>2, <2>5, <2>6, <2>7, <2>8, <2>9, <2>10 DEF Steering
    <3>3. CASE Execution
      BY <3>3, <2>11, <2>12, <2>13 DEF Execution
    <3> QED
      BY <2>14, <3>1, <3>2, <3>3 DEF Next
<1>3. QED
  BY <1>1, <1>2, TypeCorrect, RowsConsistent, RunAndAttemptsAgree, PTL DEF Spec

\* The invariant the runs check, for every instance.
THEOREM QuestionFollows == Spec => []QuestionFollowsAttempt
<1>1. Rows /\ QuestionInv => QuestionFollowsAttempt
  <2> SUFFICES ASSUME Rows, QuestionInv, NEW a \in Attempt
               PROVE  /\ question[a] = "open" =>
                           /\ attempt[a].status \in {"decision_requested", "needs_decision"}
                           /\ IsLatestAttempt(attempt[a].run, a)
                           /\ run[attempt[a].run].status \in {"running", "needs_decision"}
                      /\ attempt[a].status = "decision_requested" => question[a] = "open"
                      /\ attempt[a].status = "needs_decision" =>
                           question[a] \in {"open", "answered"}
    BY DEF QuestionFollowsAttempt
  <2>1. QuestionOk(a)
    BY DEF QuestionInv
  <2>2. question[a] = "open" => attempt[a].run \in Run
    BY <2>1 DEF QuestionOk, Rows, LineageShared
  <2> QED
    BY <2>1, <2>2 DEF QuestionInv, QuestionOk, QuestionIsLatest
<1>2. QED
  BY <1>1, RowsConsistent, QuestionsConsistent, PTL

-----------------------------------------------------------------------------
\* Guidance reaches the next attempt of its Run, once, for every instance.
THEOREM GuidanceDelivered == Spec => GuidanceIsDelivered
  BY GuidanceReaches, GuidanceOnce, PTL DEF GuidanceIsDelivered

-----------------------------------------------------------------------------
(* Steps, as far as worktrees care.                                        *)

\* What every handler but claim, settlement and acceptance leaves alone.
Quiet ==
    /\ \A r \in Run : /\ run'[r].worktree = run[r].worktree
                      /\ run'[r].status = "accepted" <=> run[r].status = "accepted"
    /\ \A a \in Attempt : /\ attempt'[a].run = attempt[a].run
                          /\ IsActive(a)' <=> IsActive(a)
                          /\ attempt'[a].status \in TerminalStatus
                                <=> attempt[a].status \in TerminalStatus

\* Every handler but claim, settlement and acceptance is quiet.
LEMMA QuietStep ==
    ASSUME TypeOK, Rows, Coherent,
           \/ Planning
           \/ \E a \in Attempt, changesContract \in BOOLEAN : AnswerQuestion(a, changesContract)
           \/ \E a \in Attempt, severity \in Severity : SubmitReview(a, severity)
           \/ \E r \in Run : RetryRun(r)
           \/ \E r \in Run, a \in Attempt : CancelRun(r, a)
           \/ \E g \in Guidance, r \in Run : AddRunGuidance(g, r)
           \/ \E a \in Attempt : AskQuestion(a)
           \/ UNCHANGED vars
    PROVE  Quiet
  <1>t. run \in [Run -> RunRecord] /\ attempt \in [Attempt -> AttemptRecord]
    BY DEF TypeOK
  <1>s. ASSUME attempt' = attempt, run' = run PROVE Quiet
    BY <1>s DEF Quiet, IsActive
  <1>u. ASSUME NEW r \in Run, NEW s, attempt' = attempt, run' = [run EXCEPT ![r].status = s],
               s # "accepted", run[r].status # "accepted"
        PROVE  Quiet
    <2>1. /\ run'[r].status = s
          /\ run'[r].worktree = run[r].worktree
          /\ \A q \in Run \ {r} : run'[q] = run[q]
      BY <1>t, <1>u, RunStatusEffect
    <2> QED
      BY <1>u, <2>1 DEF Quiet, IsActive
  <1>1. CASE TransitionToArchitectureReview
    BY <1>1, <1>s DEF TransitionToArchitectureReview
  <1>2. CASE TransitionToWaitingForUserConfirmation
    BY <1>2, <1>s DEF TransitionToWaitingForUserConfirmation
  <1>3. ASSUME NEW r \in Run, SubmitImplementation(r) PROVE Quiet
    <2>1. /\ run[r].status = "absent"
          /\ attempt' = attempt
          /\ run'[r].status = "ready"
          /\ run'[r].worktree = None
          /\ \A q \in Run \ {r} : run'[q] = run[q]
      BY <1>3, <1>t DEF SubmitImplementation
    <2> QED
      BY <2>1 DEF Quiet, IsActive, Rows, AbsentRunHoldsNothing
  <1>4. ASSUME NEW r \in Run, NEW a \in Attempt, SubmitFix(r, a) PROVE Quiet
    <2>1. /\ run[r].status = "review_discussion"
          /\ attempt' = attempt
          /\ run'[r].status = "ready"
          /\ run'[r].worktree = run[r].worktree
          /\ \A q \in Run \ {r} : run'[q] = run[q]
      BY <1>4, <1>t DEF SubmitFix, RunRecord
    <2> QED
      BY <2>1 DEF Quiet, IsActive
  <1>5. ASSUME NEW a \in Attempt, NEW changesContract \in BOOLEAN,
               AnswerQuestion(a, changesContract)
        PROVE  Quiet
    <2>1. attempt[a].run \in Run
      BY <1>5 DEF AnswerQuestion, Rows, LineageShared
    <2>2. CASE run' = run
      BY <1>5, <1>s, <2>2 DEF AnswerQuestion
    <2>3. CASE run' = [run EXCEPT ![attempt[a].run].status = "ready"]
      BY <1>5, <1>u, <2>1, <2>3 DEF AnswerQuestion
    <2> QED
      BY <1>5, <2>2, <2>3 DEF AnswerQuestion
  <1>6. ASSUME NEW a \in Attempt, NEW severity \in Severity, SubmitReview(a, severity)
        PROVE  Quiet
    <2>1. attempt[a].run \in Run
      BY <1>6 DEF SubmitReview, Rows, LineageShared
    <2> QED
      BY <1>6, <1>u, <2>1 DEF SubmitReview
  <1>7. ASSUME NEW r \in Run, RetryRun(r) PROVE Quiet
    BY <1>7, <1>u DEF RetryRun
  <1>8. ASSUME NEW r \in Run, NEW a \in Attempt, CancelRun(r, a) PROVE Quiet
    <2>1. /\ attempt' = [attempt EXCEPT ![a].status = "cancel_requested"]
          /\ run' = [run EXCEPT ![r].status = "cancel_requested"]
          /\ IsActive(a)
          /\ <<run[r].status, "cancel_requested">> \in RunTransition
      BY <1>8 DEF CancelRun
    <2>2. /\ attempt'[a].status = "cancel_requested"
          /\ attempt'[a].run = attempt[a].run
          /\ \A b \in Attempt \ {a} : attempt'[b] = attempt[b]
      BY <1>t, <2>1, AttemptStatusEffect
    <2>3. /\ run'[r].status = "cancel_requested"
          /\ run'[r].worktree = run[r].worktree
          /\ \A q \in Run \ {r} : run'[q] = run[q]
      BY <1>t, <2>1, RunStatusEffect
    <2>4. run[r].status # "accepted"
      BY <2>1 DEF RunTransition
    <2>5. /\ IsActive(a)'
          /\ attempt[a].status \notin TerminalStatus
          /\ attempt'[a].status \notin TerminalStatus
      BY <2>1, <2>2 DEF IsActive, ActiveStatus, TerminalStatus
    <2> QED
      BY <2>1, <2>2, <2>3, <2>4, <2>5 DEF Quiet, IsActive
  <1>9. ASSUME NEW g \in Guidance, NEW r \in Run, AddRunGuidance(g, r) PROVE Quiet
    BY <1>9, <1>s DEF AddRunGuidance
  <1>10. ASSUME NEW a \in Attempt, AskQuestion(a) PROVE Quiet
    <2>1. /\ attempt' = [attempt EXCEPT ![a].status = "decision_requested"]
          /\ attempt[a].status = "running"
          /\ run' = run
      BY <1>10 DEF AskQuestion
    <2>2. /\ attempt'[a].status = "decision_requested"
          /\ attempt'[a].run = attempt[a].run
          /\ \A b \in Attempt \ {a} : attempt'[b] = attempt[b]
      BY <1>t, <2>1, AttemptStatusEffect
    <2> QED
      BY <2>1, <2>2 DEF Quiet, IsActive, ActiveStatus, TerminalStatus
  <1>11. CASE UNCHANGED vars
    BY <1>11, <1>s DEF vars
  <1>12. CASE Planning
    BY <1>12, <1>1, <1>2, <1>3, <1>4 DEF Planning
  <1> QED
    BY <1>5, <1>6, <1>7, <1>8, <1>9, <1>10, <1>11, <1>12

\* A step is a claim, a settlement, an acceptance, or quiet.
LEMMA StepKinds ==
    ASSUME TypeOK, Rows, Coherent, [Next]_vars
    PROVE  \/ Quiet
           \/ \E a \in Attempt, r \in Run, w \in Worktree : ClaimRunAttempt(a, r, w)
           \/ \E a \in Attempt, status \in TerminalStatus, result \in Result \cup {None},
                 failure \in Failure \cup {None}, session \in Session \cup {None} :
                   SettleRunAttempt(a, status, result, failure, session)
           \/ \E a \in Attempt : AcceptReview(a)
  BY QuietStep DEF Next, Steering, Execution

-----------------------------------------------------------------------------
(* The lease.                                                              *)

\* Whoever takes or keeps a worktree, nobody else who is not accepted has it.
LEMMA LeaseStep ==
    TypeOK /\ Rows /\ Coherent /\ WorktreeLeaseUnique /\ [Next]_vars => WorktreeLeaseUnique'
<1> SUFFICES ASSUME TypeOK, Rows, Coherent, WorktreeLeaseUnique, [Next]_vars
             PROVE  WorktreeLeaseUnique'
  OBVIOUS
<1> USE NoneAssumption DEF WorktreeLeaseUnique
<1>1. CASE Quiet
  BY <1>1 DEF Quiet
<1>2. ASSUME NEW a \in Attempt, NEW r \in Run, NEW w \in Worktree, ClaimRunAttempt(a, r, w)
      PROVE  WorktreeLeaseUnique'
  <2>1. /\ run'[r].worktree = w
        /\ \A q \in Run \ {r} : run'[q] = run[q]
    BY <1>2, ClaimEffect
  <2>2. \A q \in Run \ {r} : run[q].worktree = w => run[q].status = "accepted"
    BY <1>2 DEF ClaimRunAttempt, Claimable, WorktreeFree
  <2> QED
    BY <2>1, <2>2
<1>3. ASSUME NEW a \in Attempt, NEW status \in TerminalStatus,
             NEW result \in Result \cup {None}, NEW failure \in Failure \cup {None},
             NEW session \in Session \cup {None},
             SettleRunAttempt(a, status, result, failure, session)
      PROVE  WorktreeLeaseUnique'
  <2> DEFINE r == attempt[a].run
  <2>1. r \in Run /\ a \in AttemptsOf(r) /\ IsActive(a)
    BY <1>3 DEF SettleRunAttempt, IsActive, ActiveStatus, Rows, LineageShared, AttemptsOf
  <2>2. /\ run'[r].worktree = run[r].worktree
        /\ \A q \in Run \ {r} : run'[q] = run[q]
    BY <1>3, <2>1, SettleEffect
  <2>3. run[r].status # "accepted"
    BY <2>1, ActiveRunStatus
  <2> QED
    BY <2>1, <2>2, <2>3
<1>4. ASSUME NEW a \in Attempt, AcceptReview(a) PROVE WorktreeLeaseUnique'
  <2>1. run' = [run EXCEPT ![attempt[a].run].status = "accepted"]
    BY <1>4 DEF AcceptReview
  <2>2. \A q \in Run : /\ run'[q].worktree = run[q].worktree
                       /\ run[q].status = "accepted" => run'[q].status = "accepted"
    BY <2>1 DEF TypeOK, RunRecord
  <2> QED
    BY <2>2
<1> QED
  BY <1>1, <1>2, <1>3, <1>4, StepKinds

\* Nobody gets a worktree that another Run which is not accepted still holds.
THEOREM LeaseExclusive == Spec => []WorktreeLeaseUnique
<1>1. Init => WorktreeLeaseUnique
  BY DEF Init, WorktreeLeaseUnique, NoRun
<1>2. QED
  BY <1>1, LeaseStep, TypeCorrect, RowsConsistent, RunAndAttemptsAgree, PTL DEF Spec

\* No two attempts work in one worktree at the same time: attempts of one Run by
\* OneActiveAttempt, attempts of two Runs because neither Run is accepted and
\* each attempt works in the worktree its Run leases.
THEOREM ActiveAttemptsApartAlways == Spec => []ActiveAttemptsApart
<1>1. TypeOK /\ Rows /\ Coherent /\ WorktreeLeaseUnique => ActiveAttemptsApart
  <2> SUFFICES ASSUME TypeOK, Rows, Coherent, WorktreeLeaseUnique,
                      NEW a \in Attempt, NEW b \in Attempt,
                      IsActive(a), IsActive(b), a # b,
                      attempt[a].worktree = attempt[b].worktree
               PROVE  FALSE
    BY DEF ActiveAttemptsApart
  <2> DEFINE r == attempt[a].run
             q == attempt[b].run
  <2>1. /\ r \in Run /\ a \in AttemptsOf(r)
        /\ q \in Run /\ b \in AttemptsOf(q)
        /\ run[r].worktree = run[q].worktree
        /\ run[r].worktree # None
    BY NoneAssumption DEF Rows, LineageShared, IsActive, ActiveStatus, AttemptsOf
  <2>2. r # q
    BY <2>1, ActiveIsLatest DEF Coherent
  <2>3. run[r].status # "accepted" /\ run[q].status # "accepted"
    BY <2>1, ActiveRunStatus
  <2> QED
    BY <2>1, <2>2, <2>3 DEF WorktreeLeaseUnique
<1>2. QED
  BY <1>1, TypeCorrect, RowsConsistent, RunAndAttemptsAgree, LeaseExclusive, PTL

\* A lineage never moves: a Run keeps the worktree of its first attempt and
\* every attempt it ever gets works there.
THEOREM LineageNeverMoves == Spec => LineageKeepsWorktree
<1>1. TypeOK /\ Rows /\ Coherent /\ Rows' /\ [Next]_vars =>
        [\A r \in Run : run[r].worktree # None =>
            /\ run'[r].worktree = run[r].worktree
            /\ \A a \in Attempt : attempt'[a].run = r =>
                  attempt'[a].worktree = run[r].worktree]_vars
  <2> SUFFICES ASSUME TypeOK, Rows, Coherent, Rows', [Next]_vars,
                      NEW r \in Run, run[r].worktree # None
               PROVE  /\ run'[r].worktree = run[r].worktree
                      /\ \A a \in Attempt : attempt'[a].run = r =>
                            attempt'[a].worktree = run[r].worktree
    OBVIOUS
  <2>1. Quiet => run'[r].worktree = run[r].worktree
    BY DEF Quiet
  <2>2. ASSUME NEW a \in Attempt, NEW q \in Run, NEW w \in Worktree, ClaimRunAttempt(a, q, w)
        PROVE  run'[r].worktree = run[r].worktree
    <3>1. /\ run'[q].worktree = w
          /\ \A o \in Run \ {q} : run'[o] = run[o]
      BY <2>2, ClaimEffect
    <3>2. run[q].worktree \in {None, w}
      BY <2>2 DEF ClaimRunAttempt, Claimable, WorktreeFree
    <3> QED
      BY <3>1, <3>2
  <2>3. ASSUME NEW a \in Attempt, NEW status \in TerminalStatus,
               NEW result \in Result \cup {None}, NEW failure \in Failure \cup {None},
               NEW session \in Session \cup {None},
               SettleRunAttempt(a, status, result, failure, session)
        PROVE  run'[r].worktree = run[r].worktree
    <3>1. attempt[a].run \in Run
      BY <2>3 DEF SettleRunAttempt, IsActive, ActiveStatus, Rows, LineageShared
    <3>2. /\ run'[attempt[a].run].worktree = run[attempt[a].run].worktree
          /\ \A q \in Run \ {attempt[a].run} : run'[q] = run[q]
      BY <2>3, <3>1, SettleEffect
    <3> QED
      BY <3>1, <3>2
  <2>4. ASSUME NEW a \in Attempt, AcceptReview(a) PROVE run'[r].worktree = run[r].worktree
    <3>1. run' = [run EXCEPT ![attempt[a].run].status = "accepted"]
      BY <2>4 DEF AcceptReview
    <3> QED
      BY <3>1 DEF TypeOK, RunRecord
  <2>5. run'[r].worktree = run[r].worktree
    BY <2>1, <2>2, <2>3, <2>4, StepKinds
  <2>6. ASSUME NEW a \in Attempt, attempt'[a].run = r
        PROVE  attempt'[a].worktree = run'[r].worktree
    BY <2>6, NoneAssumption DEF Rows, LineageShared, AbsentRowIsFree
  <2> QED
    BY <2>5, <2>6
<1>2. QED
  BY <1>1, TypeCorrect, RowsConsistent, RunAndAttemptsAgree, PTL
  DEF Spec, LineageKeepsWorktree

-----------------------------------------------------------------------------
(* The refinement.                                                         *)

\* RunLifecycle implements WorktreeLease: claim is Start, settlement is Stop,
\* acceptance is Release, and every other handler is invisible.
THEOREM LeaseImplemented == Spec => ImplementsWorktreeLease
<1>1. Init => Lease!Init
  BY NoneAssumption
  DEF Init, Lease!Init, NoRun, NoAttempt, IsActive, ActiveStatus, TerminalStatus
<1>2. TypeOK /\ Rows /\ Coherent /\ Reviewed /\ [Next]_vars => [Lease!Next]_(Lease!vars)
  <2> SUFFICES ASSUME TypeOK, Rows, Coherent, Reviewed, [Next]_vars
               PROVE  [Lease!Next]_(Lease!vars)
    OBVIOUS
  <2> USE NoneAssumption
  <2>1. CASE Quiet
    BY <2>1 DEF Quiet, Lease!vars
  <2>2. ASSUME NEW a \in Attempt, NEW r \in Run, NEW w \in Worktree, ClaimRunAttempt(a, r, w)
        PROVE  Lease!Start(a, r, w)
    <3>1. /\ attempt'[a].status = "running"
          /\ attempt'[a].run = r
          /\ \A b \in Attempt \ {a} : attempt'[b] = attempt[b]
          /\ run'[r].status = "running"
          /\ run'[r].worktree = w
          /\ \A q \in Run \ {r} : run'[q] = run[q]
      BY <2>2, ClaimEffect
    <3>2. /\ attempt[a].status = "absent"
          /\ run[r].status = "ready"
          /\ \A b \in AttemptsOf(r) : ~IsActive(b)
          /\ run[r].worktree \in {None, w}
          /\ \A q \in Run \ {r} : run[q].worktree = w => run[q].status = "accepted"
      BY <2>2 DEF ClaimRunAttempt, Claimable, WorktreeFree, HasActiveAttempt
    <3>3. ~IsActive(a) /\ IsActive(a)' /\ attempt[a].status \notin TerminalStatus
          /\ attempt'[a].status \notin TerminalStatus
      BY <3>1, <3>2 DEF IsActive, ActiveStatus, TerminalStatus
    <3>4. \A b \in Attempt \ {a} : IsActive(b)' <=> IsActive(b)
      BY <3>1 DEF IsActive
    <3>5. Lease!Idle(r)
      BY <3>2 DEF Lease!Idle, AttemptsOf
    <3>6. [q \in Run |-> IF run[q].status = "accepted" THEN None ELSE run[q].worktree]'
            = [[q \in Run |-> IF run[q].status = "accepted" THEN None ELSE run[q].worktree]
                 EXCEPT ![r] = w]
      BY <3>1
    <3>7. [b \in Attempt |-> IF IsActive(b) THEN attempt[b].run ELSE None]'
            = [[b \in Attempt |-> IF IsActive(b) THEN attempt[b].run ELSE None] EXCEPT ![a] = r]
      BY <3>1, <3>3, <3>4
    <3>8. {b \in Attempt : attempt[b].status \in TerminalStatus}'
            = {b \in Attempt : attempt[b].status \in TerminalStatus}
      BY <3>1, <3>3
    <3>9. {q \in Run : run[q].status = "accepted"}' = {q \in Run : run[q].status = "accepted"}
      BY <3>1, <3>2
    <3> QED
      BY <3>2, <3>3, <3>5, <3>6, <3>7, <3>8, <3>9 DEF Lease!Start
  <2>3. ASSUME NEW a \in Attempt, NEW status \in TerminalStatus,
               NEW result \in Result \cup {None}, NEW failure \in Failure \cup {None},
               NEW session \in Session \cup {None},
               SettleRunAttempt(a, status, result, failure, session)
        PROVE  Lease!Stop(a)
    <3> DEFINE r == attempt[a].run
    <3>1. r \in Run /\ a \in AttemptsOf(r) /\ IsActive(a)
      BY <2>3 DEF SettleRunAttempt, IsActive, ActiveStatus, Rows, LineageShared, AttemptsOf
    <3>2. /\ attempt'[a].status \in TerminalStatus
          /\ \A b \in Attempt \ {a} : attempt'[b] = attempt[b]
          /\ run'[r].status = RunStatusForTerminal(attempt'[a].status)
          /\ run'[r].worktree = run[r].worktree
          /\ \A q \in Run \ {r} : run'[q] = run[q]
      BY <2>3, <3>1, SettleEffect
    <3>3. run[r].status # "accepted" /\ run'[r].status # "accepted"
      BY <3>1, <3>2, ActiveRunStatus DEF RunStatusForTerminal
    <3>4. ~IsActive(a)' /\ \A b \in Attempt \ {a} : IsActive(b)' <=> IsActive(b)
      BY <3>2 DEF IsActive, ActiveStatus, TerminalStatus
    <3> QED
      BY <3>1, <3>2, <3>3, <3>4 DEF Lease!Stop
  <2>4. ASSUME NEW r \in Run, NEW a \in Attempt, attempt[a].run = r, AcceptReview(a)
        PROVE  Lease!Release(r)
    <3>1. /\ run[r].status = "review_discussion"
          /\ run' = [run EXCEPT ![r].status = "accepted"]
          /\ attempt' = attempt
      BY <2>4 DEF AcceptReview
    <3>2. /\ a \in AttemptsOf(r)
          /\ run[r].worktree # None
      BY <2>4 DEF AcceptReview, Severity, Reviewed, ReviewedSucceeded, Rows, LineageShared,
                  AttemptsOf
    <3>3. /\ run'[r].status = "accepted"
          /\ run'[r].worktree = run[r].worktree
          /\ \A q \in Run \ {r} : run'[q] = run[q]
      BY <3>1, RunStatusEffect DEF TypeOK
    <3>4. \A b \in Attempt : ~IsActive(b) \/ attempt[b].run # r
      BY <3>1, ActiveRunStatus DEF AttemptsOf
    <3>5. \A b \in Attempt : IsActive(b)' = IsActive(b)
      BY <3>1 DEF IsActive
    <3>6. Lease!Idle(r)
      BY <3>4 DEF Lease!Idle
    <3>7. [q \in Run |-> IF run[q].status = "accepted" THEN None ELSE run[q].worktree]'
            = [[q \in Run |-> IF run[q].status = "accepted" THEN None ELSE run[q].worktree]
                 EXCEPT ![r] = None]
      BY <3>3
    <3>8. [b \in Attempt |-> IF IsActive(b) THEN attempt[b].run ELSE None]'
            = [b \in Attempt |-> IF IsActive(b) THEN attempt[b].run ELSE None]
      BY <3>1, <3>5
    <3>9. {b \in Attempt : attempt[b].status \in TerminalStatus}'
            = {b \in Attempt : attempt[b].status \in TerminalStatus}
      BY <3>1
    <3>10. {q \in Run : run[q].status = "accepted"}'
            = {q \in Run : run[q].status = "accepted"} \cup {r}
      BY <3>3
    <3>11. (IF run[r].status = "accepted" THEN None ELSE run[r].worktree) # None
      BY <3>1, <3>2
    <3> QED
      BY <3>6, <3>7, <3>8, <3>9, <3>10, <3>11 DEF Lease!Release
  <2>5. CASE \E a \in Attempt, r \in Run, w \in Worktree : ClaimRunAttempt(a, r, w)
    BY <2>2, <2>5 DEF Lease!Next
  <2>6. CASE \E a \in Attempt, status \in TerminalStatus, result \in Result \cup {None},
                failure \in Failure \cup {None}, session \in Session \cup {None} :
                  SettleRunAttempt(a, status, result, failure, session)
    BY <2>3, <2>6 DEF Lease!Next
  <2>7. CASE \E a \in Attempt : AcceptReview(a)
    <3>1. PICK a \in Attempt : AcceptReview(a)
      BY <2>7
    <3>2. attempt[a].run \in Run
      BY <3>1 DEF AcceptReview, Severity, Reviewed, ReviewedSucceeded, Rows, LineageShared
    <3> QED
      BY <2>4, <3>1, <3>2 DEF Lease!Next
  <2> QED
    BY <2>1, <2>5, <2>6, <2>7, StepKinds
<1>3. QED
  BY <1>1, <1>2, TypeCorrect, RowsConsistent, RunAndAttemptsAgree, ReviewsConsistent, PTL
  DEF Spec, ImplementsWorktreeLease, Lease!Spec

-----------------------------------------------------------------------------
\* Nobody else is let into the worktree of a Run, for every instance.
THEOREM WorktreesApartAlways == Spec => []WorktreesApart
<1>1. WorktreeLeaseUnique /\ ActiveAttemptsApart => WorktreesApart
  BY DEF WorktreesApart
<1>2. QED
  BY <1>1, LeaseExclusive, ActiveAttemptsApartAlways, PTL

\* Outcomes, Reviews and worktrees of lineages are never rewritten, for every instance.
THEOREM HistoryKept == Spec => HistoryIsKept
  BY OutcomeFinal, LineageNeverMoves, ReviewFixed DEF HistoryIsKept
=============================================================================
