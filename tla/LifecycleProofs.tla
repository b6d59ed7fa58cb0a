--------------------------- MODULE LifecycleProofs ---------------------------
(***************************************************************************)
(* Proofs about the lifecycle of a Stage after its first candidate, for     *)
(* every set of confirmations, bundles, identifiers and troubles, and any   *)
(* number of commits: what becomes main was accepted and authorized,        *)
(* confirmations, rounds, preparations and commits agree, a fix is          *)
(* dispatched as it was confirmed, readiness for review follows the Stage,  *)
(* and a failure is told to come before the first write only when it does.  *)
(*                                                                         *)
(* A command checks the records when it begins and writes when others may   *)
(* have moved the Stage, main or the records.  Each inductive invariant     *)
(* says what a command at each of its steps may still rely on.              *)
(***************************************************************************)
EXTENDS BridgeLifecycle, FiniteSetTheorems, SequenceTheorems, TLAPS

Round       == Of("FIX_ROUND_OPENED_V1")
Prepared    == Of("FIX_PREPARED_V1")
Review      == Of("FORMAL_REVIEW_V1")
Authorized  == Of("STAGE_CLOSURE_AUTHORIZATION_V1")

\* Commits there are.
Made == DOMAIN commit

\* The records of decisions, of commands only, and those of others.
DecisionType == {"FORMAL_REVIEW_V1", "FIX_BUNDLE_ACCEPTANCE_V1", "STAGE_ACCEPTANCE_V1"}
WorkflowType == {"LOCAL_CODEX_STAGE_CANDIDATE_V1", "STAGE_VERIFICATION_V1",
                 "CHAT_REVIEW_HANDOFF_V1", "FIX_DISPATCH_HANDOFF_V1",
                 "STAGE_CLOSURE_AUTHORIZATION_V1"}

\* Events of the workflow.
Event == [kind : {"push", "candidate"}, head : Nat, stop : 0 .. 2]

\* What a command works on.
CommandForm ==
    /\ cmd \in {"none", "record", "prepare", "close"}
    /\ cmd = "none" => step = "none"
    /\ cmd = "record" => step = "publish" /\ input.type \in DecisionType /\ input.sha \in Made
    /\ cmd = "prepare" =>
          /\ step \in {"round", "commit", "record", "push"}
          /\ \E b \in Bundle, v \in Review :
                /\ v.decision = "REQUEST_CHANGES"
                /\ input = [bundle |-> b, round |-> RoundOf(b, v), source |-> v.sha]
    /\ cmd = "close" =>
          /\ step \in {"push", "record", "repo_label", "label", "pr"}
          /\ input \in Authorized /\ Binds(input)

\* Types of what others see, as far as the proofs need them: everything that names a commit
\* names one that was made.
GitShape ==
    /\ commit \in Seq([parent : Sha, of : Confirmation \cup {None}])
    /\ Len(commit) \in 1 .. MaxCommit
    /\ \A n \in Made : commit[n].parent < n
    /\ stage \in heads /\ tree \in Made /\ heads \subseteq Made /\ landed \subseteq Made
    /\ main \in {0, MaxCommit + 1} \cup landed

PrShape ==
    /\ label \subseteq {"codex-stage-candidate", "codex-dispatch-ready", "chat-review",
                        "codex-stage-closed"}
    /\ pr \in {"OPEN", "CLOSED", "MERGED"}
    /\ \A r \in records : r.sha \in Made

QueueShape == queue \in Seq(Event) /\ Len(queue) <= 2

WorldShape == trouble \in Fault /\ GitShape /\ PrShape /\ QueueShape

Shape == WorldShape /\ CommandForm

\* What is or is not so.
Flags ==
    /\ calm \in BOOLEAN /\ clean \in BOOLEAN
    /\ repoLabel \in BOOLEAN /\ draft \in BOOLEAN

\* What was written is remembered as observed, while the command runs.
Observed ==
    /\ seen \in BOOLEAN /\ wrote \in BOOLEAN
    /\ wrote => seen
    /\ ReportIsHonest

\* main leaves its baseline once, and a closure that goes on finds what its earlier steps
\* have left.
Closing ==
    /\ landed # {} => main # 0
    /\ MainIsAccepted
    /\ ClosedInOrder
    /\ cmd = "close" /\ step \in {"record", "repo_label", "label", "pr"} => input.sha \in landed
    /\ cmd = "close" /\ step \in {"repo_label", "label", "pr"} => Of("STAGE_CLOSED_V1") # {}
    /\ cmd = "close" /\ step \in {"label", "pr"} => repoLabel
    /\ cmd = "close" /\ step = "pr" => "codex-stage-closed" \in label

\* A round or a preparation is found by its identifier, a confirmation by itself, and the
\* preparation of a round under one identifier, unless callers may replace it.
Identified ==
    /\ \A r, s \in Round \cup Prepared : SameIdentity(r, s) => r = s
    /\ \A r, q \in Round : r.confirmation = q.confirmation => r = q
    /\ "replace" \notin trouble => \A p, q \in Prepared : p.round = q.round => p.id = q.id

\* Rounds are opened for reviews and preparations are made for rounds.
Derived ==
    /\ \A r \in Round :
          /\ r.confirmation \in Confirmation
          /\ \E v \in Review : v.id = r.review /\ v.decision = "REQUEST_CHANGES" /\ v.sha = r.sha
    /\ \A p \in Prepared : \E r \in Round :
          /\ r.id = p.round /\ p.source = r.sha
          /\ commit[p.sha] = [parent |-> r.sha, of |-> r.confirmation]

\* What prepare-fix may rely on at each of its steps: the Stage has not come to its commit
\* but by itself, and nobody takes the worktree away from it.
PreparingOf(b) ==
    /\ \A r \in SameRound(b) : r = input.round
    /\ "replace" \notin trouble => \A p \in PreparationsOf(b.round) : p.id = b.prep
    /\ input.source \in heads
    /\ stage = input.source \/ commit[stage].of = None
    /\ step # "round" => input.round \in records
    /\ step \in {"record", "push"} =>
          commit[tree] = [parent |-> input.source, of |-> b.confirmation]
    /\ step = "push" => Preparation \in records

\* The commits the Stage has been at come before it, and what is told of commits is told
\* of those.
StageAdvances ==
    /\ \A n \in heads : n <= stage
    /\ \A r \in Of("STAGE_VERIFICATION_V1") \cup Of("CHAT_REVIEW_HANDOFF_V1") : r.sha \in heads
    /\ \A i \in 1 .. Len(queue) : queue[i].head \in heads
    /\ ~ clean => tree \in heads

Preparing ==
    /\ Identified /\ Derived /\ StageAdvances
    /\ cmd = "prepare" => PreparingOf(input.bundle)
    /\ PreparedIsRecorded /\ PreparationIsHere /\ FixIsAuthorized

\* The workflow has still to answer for the push of the Stage, as the last of its events.
PushIsLast ==
    /\ queue # <<>> /\ queue[Len(queue)].kind = "push" /\ queue[Len(queue)].head = stage
    /\ Len(queue) = 1 => queue[1].stop = 0

\* Candidates are commits of no confirmation, and an event waits before it is answered.
EventsInOrder ==
    /\ \A i \in 1 .. Len(queue) : queue[i].kind = "candidate" => commit[queue[i].head].of = None
    /\ Len(queue) = 2 => queue[2].stop = 0

\* Ready for review the Stage is neither while a push is answered, nor once it was
\* verified as a prepared fix, nor when that fix was integrated, until it is handed over;
\* and where it moved, its push waits, or failed.
ReadyStage ==
    /\ queue # <<>> /\ queue[1].kind = "push" => queue[1].stop = 0
    /\ commit[stage].of # None => \A r \in Of("STAGE_VERIFICATION_V1") : r.sha # stage
    /\ commit[stage].of = None /\ (\E d \in dispatched : d.sha = commit[stage].parent) =>
          ReviewHandoff(stage) \in records
    /\ pr = "OPEN" => ReviewHandoff(stage) \in records \/ PushIsLast \/ stage \in failed

Readiness == EventsInOrder /\ ("chat-review" \in label => ReadyStage)

-----------------------------------------------------------------------------
(* What the parts of an action do.                                          *)

\* A command has come to its end.
Stopped == cmd' = "none" /\ step' = "none"

\* A write is done or found done, and the command goes on, or it ends.
LEMMA GoEffect ==
    ASSUME NEW next, NEW write, Go(next, write)
    PROVE  Stopped \/ (step' = next /\ UNCHANGED <<cmd, input>>)
  BY DEF Go, End, Stopped

\* publishStructuredRecord writes its record and nothing else, never beside another record
\* of the same identity, and goes on only with the record there.
LEMMA PublishEffect ==
    ASSUME NEW r, NEW next, Publish(r, next)
    PROVE  /\ UNCHANGED <<trouble, calm, gitVars, label, repoLabel, draft, pr, queue, failed,
                           dispatched>>
           /\ records' = records \/ (records' = records \cup {r} /\ ~ Conflicts(r))
           /\ Stopped \/ (r \in records' /\ step' = next /\ UNCHANGED <<cmd, input>>)
  BY GoEffect DEF Publish, Mutation, End, Stopped, world, gitVars, prVars

\* A command begins and touches nothing.
LEMMA BeginEffect ==
    ASSUME NEW command, NEW first, NEW in, Begin(command, first, in)
    PROVE  /\ cmd' = command /\ step' = first /\ input' = in
           /\ UNCHANGED <<trouble, calm, world>>
  BY DEF Begin

\* No commit has the number of the baseline of main, or of what others push to it.
LEMMA MadeNumbers ==
    GitShape => /\ Made = 1 .. Len(commit) /\ Made \subseteq Nat
                /\ 0 \notin Made /\ MaxCommit + 1 \notin Made
  <1> SUFFICES ASSUME GitShape PROVE /\ Made = 1 .. Len(commit) /\ Made \subseteq Nat
                                     /\ 0 \notin Made /\ MaxCommit + 1 \notin Made
    OBVIOUS
  <1> DEFINE Form == [parent : Sha, of : Confirmation \cup {None}]
  <1>1. commit \in Seq(Form) /\ Len(commit) \in 1 .. MaxCommit
    BY DEF GitShape
  <1> HIDE DEF Form
  <1>2. Made = 1 .. Len(commit) /\ Len(commit) \in Nat
    BY <1>1 DEF Made
  <1> QED
    BY <1>1, <1>2, CommitAssumption

\* A commit is added after all others and none is changed.
LEMMA CommitEffect ==
    ASSUME NEW parent \in Made, NEW of \in Confirmation \cup {None}, GitShape,
           NewCommit(parent, of)
    PROVE  /\ commit' \in Seq([parent : Sha, of : Confirmation \cup {None}])
           /\ Len(commit') = Len(commit) + 1 /\ Len(commit') \in 1 .. MaxCommit
           /\ Len(commit') \in Nat
           /\ Made = 1 .. Len(commit) /\ Made' = 1 .. Len(commit')
           /\ Made \subseteq Made' /\ Len(commit') \in Made' /\ Len(commit') \notin Made
           /\ \A n \in Made : commit'[n] = commit[n] /\ n < Len(commit')
           /\ commit'[Len(commit')] = [parent |-> parent, of |-> of]
           /\ \A n \in Made' : commit'[n].parent < n
  <1> DEFINE Form == [parent : Sha, of : Confirmation \cup {None}]
             new  == [parent |-> parent, of |-> of]
  <1>1. /\ commit \in Seq(Form) /\ Len(commit) \in Nat /\ Made = 1 .. Len(commit)
        /\ parent \in 1 .. Len(commit) /\ Len(commit) < MaxCommit
    BY DEF GitShape, Made, NewCommit
  <1>2. new \in Form
    BY <1>1, CommitAssumption DEF Sha
  <1> HIDE DEF Form
  <1>3. /\ commit' \in Seq(Form) /\ Len(commit') = Len(commit) + 1
        /\ \A n \in 1 .. Len(commit) : commit'[n] = commit[n]
        /\ commit'[Len(commit')] = new
    BY <1>1, <1>2, AppendProperties DEF NewCommit
  <1>4. Made' = 1 .. Len(commit')
    BY <1>3 DEF Made
  <1>5. \A n \in Made' : commit'[n].parent < n
    <2> TAKE n \in Made'
    <2>1. CASE n \in Made
      BY <1>1, <1>3, <2>1 DEF GitShape
    <2>2. CASE n = Len(commit')
      BY <1>1, <1>3, <2>2
    <2> QED
      BY <1>1, <1>3, <1>4, <2>1, <2>2
  <1> QED
    BY <1>1, <1>3, <1>4, <1>5, CommitAssumption DEF Form

\* The concurrency group keeps the running event, and the new one is its last.
LEMMA EnqueueEffect ==
    ASSUME NEW kind \in {"push", "candidate"}, NEW head \in Nat, QueueShape, Enqueue(kind, head)
    PROVE  /\ queue' \in Seq(Event) /\ Len(queue') \in {1, 2} /\ Len(queue') <= 2
           /\ queue'[Len(queue')] = [kind |-> kind, head |-> head, stop |-> 0]
           /\ IF queue = <<>> THEN Len(queue') = 1 ELSE Len(queue') = 2 /\ queue'[1] = queue[1]
           /\ queue' # <<>>
  <1> DEFINE new == [kind |-> kind, head |-> head, stop |-> 0]
  <1>1. queue \in Seq(Event) /\ Len(queue) <= 2
    BY DEF QueueShape
  <1>2. new \in Event
    BY DEF Event
  <1>3. queue' = IF Len(queue) < 2 THEN Append(queue, new) ELSE <<queue[1], new>>
    BY DEF Enqueue
  <1> HIDE DEF new
  <1>4. Len(queue) \in Nat
    BY <1>1, LenProperties
  <1>n. \A n \in Nat : (n < 2 => n = 0 \/ n = 1) /\ (n <= 2 => n < 2 \/ n = 2)
    OBVIOUS
  <1>5. CASE Len(queue) < 2
    <2>1. queue' = Append(queue, new)
      BY <1>3, <1>5
    <2>2. /\ queue' \in Seq(Event) /\ Len(queue') = Len(queue) + 1
          /\ \A i \in 1 .. Len(queue) : queue'[i] = queue[i]
          /\ queue'[Len(queue) + 1] = new
      BY <1>1, <1>2, <2>1, AppendProperties
    <2>3. Len(queue) = 0 \/ Len(queue) = 1
      BY <1>4, <1>5, <1>n, Zenon
    <2>4. queue = <<>> <=> Len(queue) = 0
      BY <1>1, EmptySeq
    <2>5. queue' # <<>>
      BY <2>2, <2>3
    <2> QED
      BY <2>2, <2>3, <2>4, <2>5 DEF new
  <1>6. CASE Len(queue) = 2
    <2>1. queue[1] \in Event /\ queue # <<>>
      BY <1>1, <1>6, ElementOfSeq
    <2>2. queue' = <<queue[1], new>>
      BY <1>3, <1>6
    <2>3. queue' \in Seq(Event) /\ Len(queue') = 2
      BY <1>2, <2>1, <2>2
    <2> QED
      BY <1>6, <2>1, <2>2, <2>3 DEF new
  <1>7. Len(queue) < 2 \/ Len(queue) = 2
    BY <1>1, <1>4, <1>n, Zenon
  <1> QED
    BY <1>5, <1>6, <1>7

\* The running event goes to its next stop ...
LEMMA ProceedEffect ==
    ASSUME QueueShape, queue # <<>>, queue[1].stop \in 0 .. 1, Proceed
    PROVE  /\ queue' \in Seq(Event) /\ Len(queue') = Len(queue) /\ queue' # <<>>
           /\ queue'[1].kind = queue[1].kind /\ queue'[1].head = queue[1].head
           /\ queue'[1].stop = queue[1].stop + 1
           /\ \A i \in 2 .. Len(queue) : queue'[i] = queue[i]
  <1>1. queue \in Seq(Event) /\ 1 \in 1 .. Len(queue) /\ queue[1] \in Event
    BY DEF QueueShape
  <1>2. queue' = [queue EXCEPT ![1] = [queue[1] EXCEPT !.stop = queue[1].stop + 1]]
    BY DEF Proceed
  <1>3. [queue[1] EXCEPT !.stop = queue[1].stop + 1] \in Event
    BY <1>1 DEF Event
  <1> QED
    BY <1>1, <1>2, <1>3 DEF Event

\* ... or is answered.
LEMMA LeaveEffect ==
    ASSUME QueueShape, queue # <<>>, Leave
    PROVE  /\ queue' \in Seq(Event) /\ Len(queue') = Len(queue) - 1
           /\ \A i \in 1 .. Len(queue') : queue'[i] = queue[i + 1]
           /\ Len(queue') = 0 <=> queue' = <<>>
  BY HeadTailProperties, EmptySeq DEF QueueShape, Leave
-----------------------------------------------------------------------------
(* Everybody but the command that runs.                                     *)

Others == Workflow \/ Fixing \/ Around

\* They leave the command and its own traces alone, and add records that no command writes.
OthersFrame ==
    /\ UNCHANGED <<trouble, cmdVars, landed, repoLabel>>
    /\ records \subseteq records'
    /\ \A r \in records' \ records : r.type \in WorkflowType
    /\ "codex-stage-closed" \in label' <=> "codex-stage-closed" \in label
    /\ pr' = pr \/ pr' = "MERGED"
    /\ main' = main \/ main' = MaxCommit + 1

\* The workflow answers its events, ...
LEMMA WorkflowFrame == Workflow => OthersFrame
  <1>1. Invalidate => OthersFrame
    BY DEF Invalidate, OthersFrame, gitVars, prVars
  <1>2. OpenAnother => OthersFrame
    BY DEF OpenAnother, OthersFrame, gitVars, prVars
  <1>3. PublishDispatchReady => OthersFrame
    BY DEF PublishDispatchReady, OthersFrame, gitVars, prVars
  <1>4. VerifyPrepared => OthersFrame
    BY DEF VerifyPrepared, OthersFrame, gitVars, prVars, Verification, WorkflowType
  <1>5. HandOverFix => OthersFrame
    BY DEF HandOverFix, OthersFrame, gitVars, prVars, FixHandoff, WorkflowType
  <1>6. VerifyCandidate => OthersFrame
    BY DEF VerifyCandidate, OthersFrame, gitVars, prVars, Verification, WorkflowType
  <1>7. HandOverReview => OthersFrame
    BY DEF HandOverReview, OthersFrame, gitVars, prVars, ReviewHandoff, WorkflowType
  <1>8. ConfirmReview => OthersFrame
    BY DEF ConfirmReview, OthersFrame, gitVars, prVars
  <1> QED
    BY <1>1, <1>2, <1>3, <1>4, <1>5, <1>6, <1>7, <1>8 DEF Workflow

\* ... and so do the Bridge's run over the fix tasks and everybody else.
LEMMA AroundFrame == Fixing \/ Around => OthersFrame
  <1>1. Dispatch => OthersFrame
    BY DEF Dispatch, OthersFrame, gitVars, prVars
  <1>2. IntegrateFix => OthersFrame
    BY DEF IntegrateFix, OthersFrame, gitVars, prVars
  <1>3. AnnounceCandidate => OthersFrame
    BY DEF AnnounceCandidate, OthersFrame, gitVars, prVars, Candidate, WorkflowType
  <1>4. ASSUME NEW id \in AuthorizationId, Authorize(id) PROVE OthersFrame
    BY <1>4 DEF Authorize, OthersFrame, gitVars, prVars, WorkflowType
  <1>5. DisturbStage => OthersFrame
    BY DEF DisturbStage, OthersFrame, gitVars, prVars
  <1>6. DisturbMain => OthersFrame
    BY DEF DisturbMain, OthersFrame, gitVars, prVars
  <1>7. NoticeMerge => OthersFrame
    BY DEF NoticeMerge, OthersFrame, gitVars, prVars
  <1>8. ResetWorktree => OthersFrame
    BY DEF ResetWorktree, OthersFrame, gitVars, prVars
  <1>9. CalmDown => OthersFrame
    BY DEF CalmDown, OthersFrame, world, gitVars, prVars
  <1> QED
    BY <1>1, <1>2, <1>3, <1>4, <1>5, <1>6, <1>7, <1>8, <1>9 DEF Fixing, Around

\* Nobody but the command touches what is its own.
LEMMA OthersStep == Others => OthersFrame
  BY WorkflowFrame, AroundFrame DEF Others

-----------------------------------------------------------------------------
(* Types.                                                                   *)

\* What a command works on stays good while records and commits are only added, and its
\* steps follow each other.
LEMMA CommandFormKept ==
    ASSUME CommandForm, UNCHANGED <<cmd, input>>, records \subseteq records', Made \subseteq Made',
           \/ step' = step
           \/ cmd = "prepare" /\ step' \in {"commit", "record", "push"}
           \/ cmd = "close" /\ step' \in {"record", "repo_label", "label", "pr"}
    PROVE  CommandForm'
  <1>1. cmd = "prepare" => CommandForm'
    BY DEF CommandForm, Review, Of, RoundOf
  <1>2. cmd = "close" => CommandForm'
    BY DEF CommandForm, Authorized, Of, Binds
  <1> QED
    BY <1>1, <1>2 DEF CommandForm

\* What an action does not touch keeps its type.
LEMMA Untouched ==
    /\ GitShape /\ UNCHANGED gitVars => GitShape' /\ Made' = Made
    /\ QueueShape /\ UNCHANGED queue => QueueShape'
    /\ PrShape /\ Made \subseteq Made' /\ UNCHANGED prVars => PrShape'
  BY DEF GitShape, QueueShape, PrShape, gitVars, prVars, Made

\* The Stage moves to a new commit on top of it, of nobody's confirmation.
LEMMA StageMoves ==
    ASSUME GitShape, QueueShape, NewCommit(stage, None), MoveStage(Len(commit')),
           tree' = tree \/ tree' = Len(commit'), UNCHANGED <<main, landed, clean>>
    PROVE  GitShape' /\ QueueShape' /\ Made \subseteq Made'
  <1>1. stage \in Made
    BY DEF GitShape
  <1>2. /\ commit' \in Seq([parent : Sha, of : Confirmation \cup {None}])
        /\ Len(commit') \in 1 .. MaxCommit /\ Len(commit') \in Nat
        /\ Made \subseteq Made' /\ Len(commit') \in Made'
        /\ \A n \in Made' : commit'[n].parent < n
    BY <1>1, CommitEffect
  <1>3. stage' = Len(commit') /\ heads' = heads \cup {stage'} /\ Enqueue("push", Len(commit'))
    BY DEF MoveStage
  <1>4. GitShape'
    BY <1>2, <1>3 DEF GitShape
  <1>5. QueueShape'
    <2>1. queue' \in Seq(Event) /\ Len(queue') <= 2
      BY <1>2, <1>3, EnqueueEffect
    <2> QED
      BY <2>1 DEF QueueShape
  <1> QED
    BY <1>2, <1>4, <1>5

\* The workflow brings its running event to the next stop, or is done with it.
LEMMA WorkflowQueue ==
    Workflow => queue # <<>> /\ ((queue[1].stop \in 0 .. 1 /\ Proceed) \/ Leave)
  <1> DEFINE Moved == queue # <<>> /\ ((queue[1].stop \in 0 .. 1 /\ Proceed) \/ Leave)
  <1>1. Invalidate \/ OpenAnother \/ PublishDispatchReady => Moved
    BY DEF Invalidate, OpenAnother, PublishDispatchReady, Answering
  <1>2. VerifyPrepared \/ HandOverFix \/ VerifyCandidate => Moved
    BY DEF VerifyPrepared, HandOverFix, VerifyCandidate, Answering
  <1>3. HandOverReview \/ ConfirmReview => Moved
    BY DEF HandOverReview, ConfirmReview, Answering
  <1> QED
    BY <1>1, <1>2, <1>3 DEF Workflow

\* Every step of the others keeps the types.
LEMMA OthersShape ==
    ASSUME Shape, Others
    PROVE  WorldShape' /\ Made \subseteq Made'
  <1> USE DEF Shape, WorldShape
  <1>1. OthersFrame
    BY OthersStep
  <1>2. trouble' \in Fault
    BY <1>1 DEF OthersFrame
  <1>r. \A r \in records : r.sha \in Made
    BY DEF PrShape
  <1>3. stage \in Made /\ Made \subseteq Nat /\ queue \in Seq(Event)
    BY DEF GitShape, Made, QueueShape
  <1>4. CASE Workflow
    <2>1. GitShape' /\ Made' = Made
      BY <1>4, Untouched DEF Workflow, Invalidate, OpenAnother, PublishDispatchReady,
          VerifyPrepared, HandOverFix, VerifyCandidate, HandOverReview, ConfirmReview
    <2>2. QueueShape'
      BY <1>4, WorkflowQueue, ProceedEffect, LeaveEffect DEF QueueShape
    <2>3. PrShape'
      <3>1. CASE Invalidate \/ PublishDispatchReady \/ ConfirmReview
        BY <1>r, <2>1, <3>1 DEF PrShape, Invalidate, PublishDispatchReady, ConfirmReview
      <3>2. CASE OpenAnother
        BY <2>1, <3>2, Untouched DEF OpenAnother
      <3>3. CASE VerifyPrepared \/ VerifyCandidate
        <4>1. \A r \in records' : r \in records \/ r.sha = stage
          BY <3>3 DEF VerifyPrepared, VerifyCandidate, Verification
        <4> QED
          BY <1>r, <1>3, <2>1, <3>3, <4>1 DEF PrShape, VerifyPrepared, VerifyCandidate
      <3>4. CASE HandOverFix
        <4>1. \A r \in records' : r \in records \/ \E p \in records : r.sha = p.sha
          BY <3>4 DEF HandOverFix, FixHandoff, Selected, Of
        <4>2. /\ pr' = pr
              /\ label' = label \/ label' = label \cup {"codex-dispatch-ready"}
          BY <3>4 DEF HandOverFix
        <4> QED
          BY <1>r, <2>1, <4>1, <4>2 DEF PrShape
      <3>5. CASE HandOverReview
        <4>1. \A r \in records' : r \in records \/ r.sha = stage
          BY <3>5 DEF HandOverReview, ReviewHandoff
        <4> QED
          BY <1>r, <1>3, <2>1, <3>5, <4>1 DEF PrShape, HandOverReview
      <3> QED
        BY <1>4, <3>1, <3>2, <3>3, <3>4, <3>5 DEF Workflow
    <2> QED
      BY <1>2, <2>1, <2>2, <2>3
  <1>5. CASE Dispatch \/ NoticeMerge \/ CalmDown
    BY <1>2, <1>5, Untouched DEF Dispatch, NoticeMerge, CalmDown, world, PrShape, prVars
  <1>6. CASE IntegrateFix \/ DisturbStage
    <2>1. GitShape' /\ QueueShape' /\ Made \subseteq Made'
      BY <1>6, StageMoves DEF IntegrateFix, DisturbStage
    <2> QED
      BY <1>2, <1>6, <2>1, Untouched DEF IntegrateFix, DisturbStage
  <1>7. CASE AnnounceCandidate
    <2>1. GitShape' /\ Made' = Made
      BY <1>7, Untouched DEF AnnounceCandidate
    <2>2. QueueShape'
      <3>1. stage \in Nat /\ Enqueue("candidate", stage)
        BY <1>3, <1>7 DEF AnnounceCandidate
      <3>2. queue' \in Seq(Event) /\ Len(queue') <= 2
        BY <3>1, EnqueueEffect
      <3> QED
        BY <3>2 DEF QueueShape
    <2>3. PrShape'
      BY <1>2, <1>3, <1>7, <2>1 DEF AnnounceCandidate, PrShape, Candidate
    <2> QED
      BY <1>2, <2>1, <2>2, <2>3
  <1>8. ASSUME NEW id \in AuthorizationId, Authorize(id) PROVE WorldShape' /\ Made' = Made
    <2>1. GitShape' /\ QueueShape' /\ Made' = Made
      BY <1>8, Untouched DEF Authorize
    <2>2. PrShape'
      BY <1>2, <1>3, <1>8, <2>1 DEF Authorize, PrShape, Of
    <2> QED
      BY <1>2, <2>1, <2>2
  <1>9. CASE DisturbMain \/ ResetWorktree
    <2>1. GitShape' /\ Made' = Made
      BY <1>3, <1>9 DEF DisturbMain, ResetWorktree, GitShape, Made
    <2> QED
      BY <1>2, <1>9, <2>1, Untouched DEF DisturbMain, ResetWorktree
  <1> QED
    BY <1>4, <1>5, <1>6, <1>7, <1>8, <1>9 DEF Others, Fixing, Around

\* A record of a commit there is can be published.
LEMMA PublishShape ==
    ASSUME WorldShape, NEW r, NEW next, Publish(r, next), r.sha \in Made
    PROVE  WorldShape' /\ Made' = Made /\ records \subseteq records'
  <1>1. /\ UNCHANGED <<trouble, gitVars, label, pr, queue>>
        /\ records' = records \/ records' = records \cup {r}
    BY PublishEffect
  <1>2. GitShape' /\ QueueShape' /\ Made' = Made
    BY <1>1, Untouched DEF WorldShape
  <1>3. PrShape'
    BY <1>1, <1>2 DEF WorldShape, PrShape
  <1> QED
    BY <1>1, <1>2, <1>3 DEF WorldShape

\* The command goes on to its next step, or it is over.
GoesOn(next) == Stopped \/ (step' = next /\ UNCHANGED <<cmd, input>>)

\* What is known of a prepare-fix at any of its steps, ...
LEMMA PrepareInput ==
    ASSUME Shape, cmd = "prepare"
    PROVE  /\ input.bundle \in Bundle /\ input.bundle.confirmation \in Confirmation
           /\ \E v \in Review :
                /\ v.decision = "REQUEST_CHANGES" /\ v.sha = input.source
                /\ input.round = RoundOf(input.bundle, v) /\ input.round.review = v.id
           /\ input.source \in Made /\ input.round.sha = input.source
           /\ input.round.type = "FIX_ROUND_OPENED_V1" /\ input.round.id = input.bundle.round
           /\ input.round.confirmation = input.bundle.confirmation
  BY BundleAssumption DEF Shape, WorldShape, PrShape, CommandForm, Review, Of, RoundOf

\* ... and of a close-stage.
LEMMA CloseInput ==
    ASSUME Shape, cmd = "close"
    PROVE  input \in Authorized /\ Binds(input) /\ input.sha \in Made
  BY DEF Shape, WorldShape, PrShape, CommandForm, Authorized, Of

\* The commit of a confirmation is found or made, in the worktree alone.
LEMMA MaterializeEffect ==
    ASSUME Shape, Materialize
    PROVE  /\ cmd = "prepare" /\ step = "commit" /\ GoesOn("record")
           /\ UNCHANGED <<trouble, calm, stage, heads, main, landed, prVars, queue, dispatched>>
           /\ GitShape' /\ Made \subseteq Made'
           /\ \/ UNCHANGED <<commit, tree>> /\ (step' = "record" => IsPrepared(tree))
              \/ /\ tree = input.source /\ clean /\ clean'
                 /\ NewCommit(tree, input.bundle.confirmation) /\ tree' = Len(commit')
           /\ clean' = clean \/ tree = input.source
  <1> DEFINE New == NewCommit(tree, input.bundle.confirmation)
  <1>1. cmd = "prepare" /\ step = "commit" /\ GoesOn("record")
    BY GoEffect DEF Materialize, Doing, End, Stopped, GoesOn
  <1>2. /\ tree \in Made /\ input.bundle.confirmation \in Confirmation \cup {None}
        /\ GitShape
    BY <1>1, PrepareInput DEF Shape, WorldShape, GitShape
  <1>3. /\ UNCHANGED <<trouble, calm, stage, heads, main, landed, prVars, queue, dispatched>>
        /\ \/ UNCHANGED <<commit, tree>> /\ (step' = "record" => IsPrepared(tree))
           \/ /\ tree = input.source /\ clean /\ clean'
              /\ New /\ tree' = Len(commit')
        /\ clean' = clean \/ tree = input.source
    <2>1. UNCHANGED <<trouble, calm, stage, heads, main, landed, prVars, queue, dispatched>>
      BY DEF Materialize
    <2>2. CASE tree # input.source /\ IsPrepared(tree) /\ UNCHANGED <<commit, tree, clean>>
      BY <2>1, <2>2
    <2>3. CASE End(Failure("pre"), wrote) /\ UNCHANGED <<commit, tree, clean>>
      BY <2>1, <2>3 DEF End
    <2>4. CASE tree = input.source /\ clean /\ New /\ tree' = Len(commit') /\ UNCHANGED clean
      BY <2>1, <2>4
    <2>5. CASE tree = input.source /\ End("post", TRUE) /\ UNCHANGED <<commit, tree>>
      BY <2>1, <2>5 DEF End
    <2> QED
      BY <2>2, <2>3, <2>4, <2>5 DEF Materialize
  <1>4. CASE UNCHANGED <<commit, tree>>
    <2>1. UNCHANGED <<stage, heads, main, landed>>
      BY <1>3
    <2>2. GitShape' /\ Made' = Made
      BY <1>2, <1>4, <2>1 DEF GitShape, Made
    <2> QED
      BY <1>1, <1>3, <2>2
  <1>5. CASE New /\ tree' = Len(commit')
    <2>1. /\ commit' \in Seq([parent : Sha, of : Confirmation \cup {None}])
          /\ Len(commit') \in 1 .. MaxCommit
          /\ Made \subseteq Made' /\ Len(commit') \in Made'
          /\ \A n \in Made' : commit'[n].parent < n
      BY <1>2, <1>5, CommitEffect
    <2>2. UNCHANGED <<stage, heads, main, landed>>
      BY <1>3
    <2>3. GitShape'
      BY <1>2, <1>5, <2>1, <2>2 DEF GitShape
    <2> QED
      BY <1>1, <1>3, <2>1, <2>3
  <1> QED
    BY <1>1, <1>3, <1>4, <1>5

\* The Stage is brought from the reviewed commit to the prepared one, and the command is
\* over either way.
LEMMA PushPreparedEffect ==
    ASSUME Shape, PushPrepared
    PROVE  /\ cmd = "prepare" /\ step = "push" /\ Stopped
           /\ UNCHANGED <<trouble, calm, commit, main, landed, tree, clean, prVars, dispatched>>
           /\ UNCHANGED <<stage, heads, queue>> \/ (stage = input.source /\ MoveStage(tree))
           /\ GitShape' /\ QueueShape' /\ Made' = Made
  <1>1. /\ cmd = "prepare" /\ step = "push"
        /\ UNCHANGED <<commit, main, landed, tree, clean, prVars, dispatched>>
    BY DEF PushPrepared, Doing
  <1>2. Stopped /\ UNCHANGED <<trouble, calm>>
    BY DEF PushPrepared, Mutation, Go, End, Stopped
  <1>3. UNCHANGED <<stage, heads, queue>> \/ (stage = input.source /\ MoveStage(tree))
    BY DEF PushPrepared, Mutation
  <1>4. tree \in Made /\ Made \subseteq Nat /\ GitShape /\ QueueShape
    BY DEF Shape, WorldShape, GitShape, Made
  <1>5. GitShape' /\ Made' = Made
    BY <1>1, <1>3, <1>4 DEF GitShape, Made, MoveStage
  <1>6. QueueShape'
    <2>1. CASE MoveStage(tree)
      <3>1. queue' \in Seq(Event) /\ Len(queue') <= 2
        BY <1>4, <2>1, EnqueueEffect DEF MoveStage
      <3> QED
        BY <3>1 DEF QueueShape
    <2> QED
      BY <1>3, <1>4, <2>1 DEF QueueShape
  <1> QED
    BY <1>1, <1>2, <1>3, <1>5, <1>6

\* main is brought from its baseline to the commit of the authorization, or found there.
LEMMA PushMainEffect ==
    ASSUME Shape, PushMain
    PROVE  /\ cmd = "close" /\ step = "push" /\ GoesOn("record")
           /\ UNCHANGED <<trouble, calm, commit, stage, heads, tree, clean, prVars, queue>>
           /\ UNCHANGED dispatched
           /\ \/ UNCHANGED <<main, landed>>
              \/ main = 0 /\ main' = input.sha /\ landed' = landed \cup {input.sha}
           /\ step' = "record" => main' = input.sha
           /\ GitShape' /\ Made' = Made
  <1>1. /\ cmd = "close" /\ step = "push"
        /\ UNCHANGED <<commit, stage, heads, tree, clean, prVars, queue, dispatched>>
    BY DEF PushMain, Doing
  <1>2. GoesOn("record") /\ UNCHANGED <<trouble, calm>>
    BY GoEffect DEF PushMain, Mutation, End, Stopped, GoesOn
  <1>3. \/ UNCHANGED <<main, landed>>
        \/ main = 0 /\ main' = input.sha /\ landed' = landed \cup {input.sha}
    BY DEF PushMain, Mutation, Land
  <1>4. step' = "record" => main' = input.sha
    BY DEF PushMain, Mutation, End, Go, Land
  <1>5. input.sha \in Made
    BY <1>1, CloseInput
  <1>6. GitShape' /\ Made' = Made
    BY <1>1, <1>3, <1>5 DEF Shape, WorldShape, GitShape, Made
  <1> QED
    BY <1>1, <1>2, <1>3, <1>4, <1>6

\* The labels and the pull request follow, one at a time.
LEMMA TraceEffect ==
    ASSUME CreateRepoLabel \/ ProjectTerminalLabels \/ ClosePullRequest
    PROVE  /\ cmd = "close"
           /\ UNCHANGED <<trouble, calm, gitVars, records, queue, dispatched, draft>>
           /\ \/ /\ CreateRepoLabel /\ step = "repo_label" /\ GoesOn("label")
                 /\ UNCHANGED <<label, pr>> /\ (repoLabel' = repoLabel \/ repoLabel' = TRUE)
                 /\ step' = "label" => repoLabel'
              \/ /\ ProjectTerminalLabels /\ step = "label" /\ GoesOn("pr")
                 /\ UNCHANGED <<repoLabel, pr>> /\ (label' = label \/ label' = Terminal)
                 /\ step' = "pr" => label' = Terminal
              \/ /\ ClosePullRequest /\ step = "pr" /\ Stopped
                 /\ UNCHANGED <<repoLabel, label>> /\ (pr' = pr \/ pr' = "CLOSED")
  <1>1. CASE CreateRepoLabel
    BY <1>1 DEF CreateRepoLabel, Doing, Mutation, Go, End, Stopped, GoesOn
  <1>2. CASE ProjectTerminalLabels
    BY <1>2 DEF ProjectTerminalLabels, Doing, Mutation, Go, End, Stopped, GoesOn
  <1>3. CASE ClosePullRequest
    BY <1>3 DEF ClosePullRequest, Doing, Mutation, Go, End, Stopped
  <1> QED
    BY <1>1, <1>2, <1>3

\* Commands begin with what they have checked.
LEMMA CommandShape ==
    ASSUME Shape, Command
    PROVE  Shape' /\ UNCHANGED <<trouble, calm, world>>
  <1>1. ASSUME NEW id \in ReviewId, NEW d \in {"PASS", "REQUEST_CHANGES"}, RecordReview(id, d)
        PROVE  CommandForm' /\ UNCHANGED <<trouble, calm, world>>
    <2>1. stage \in Made
      BY DEF Shape, WorldShape, GitShape
    <2> QED
      BY <1>1, <2>1, BeginEffect DEF RecordReview, CommandForm, DecisionType, world, gitVars, Made
  <1>2. ASSUME NEW id \in AcceptanceId, RecordFixAcceptance(id) \/ RecordStageAcceptance(id)
        PROVE  CommandForm' /\ UNCHANGED <<trouble, calm, world>>
    <2>1. \A r \in records : r.sha \in Made
      BY DEF Shape, WorldShape, PrShape
    <2>2. PICK in : /\ Begin("record", "publish", in)
                    /\ in.type \in DecisionType /\ in.sha \in Made
      <3>1. CASE RecordFixAcceptance(id)
        BY <2>1, <3>1 DEF RecordFixAcceptance, Of, DecisionType
      <3>2. CASE RecordStageAcceptance(id)
        BY <2>1, <3>2 DEF RecordStageAcceptance, Of, DecisionType
      <3> QED
        BY <1>2, <3>1, <3>2
    <2> QED
      BY <2>2, BeginEffect DEF CommandForm, world, gitVars, Made
  <1>3. ASSUME NEW b \in Bundle, PrepareFix(b)
        PROVE  CommandForm' /\ UNCHANGED <<trouble, calm, world>>
    <2>1. PICK v \in Review : /\ v.decision = "REQUEST_CHANGES"
                              /\ Begin("prepare", "round", [bundle |-> b, round |-> RoundOf(b, v),
                                                            source |-> v.sha])
      BY <1>3 DEF PrepareFix, Review
    <2>2. /\ cmd' = "prepare" /\ step' = "round" /\ UNCHANGED <<trouble, calm, world>>
          /\ input' = [bundle |-> b, round |-> RoundOf(b, v), source |-> v.sha]
      BY <2>1, BeginEffect
    <2>3. v \in Review'
      BY <2>2 DEF Review, Of, world, prVars
    <2>4. RoundOf(b, v)' = RoundOf(b, v)
      BY DEF RoundOf
    <2> QED
      BY <2>1, <2>2, <2>3, <2>4 DEF CommandForm
  <1>4. ASSUME NEW z \in Authorized, CloseStage(z)
        PROVE  CommandForm' /\ UNCHANGED <<trouble, calm, world>>
    <2>1. /\ cmd' = "close" /\ step' \in {"push", "record"} /\ input' = z
          /\ UNCHANGED <<trouble, calm, world>>
      BY <1>4, BeginEffect DEF CloseStage
    <2>2. z \in Authorized' /\ Binds(z)'
      BY <1>4, <2>1 DEF CloseStage, Binds, Authorized, Of, world, prVars
    <2> QED
      BY <2>1, <2>2 DEF CommandForm, Binds
  <1>5. CommandForm' /\ UNCHANGED <<trouble, calm, world>>
    BY <1>1, <1>2, <1>3, <1>4 DEF Command, Authorized
  <1> QED
    BY <1>5, Untouched DEF Shape, WorldShape, world

\* A write leaves the commits and records there were.
LEMMA WriteShape ==
    ASSUME Shape, Write
    PROVE  Shape' /\ records \subseteq records' /\ Made \subseteq Made'
  <1>1. CommandForm /\ WorldShape /\ GitShape /\ PrShape /\ QueueShape /\ trouble \in Fault
    BY DEF Shape, WorldShape
  <1>2. ASSUME WorldShape', records \subseteq records', Made \subseteq Made',
               \/ Stopped
               \/ cmd = "prepare" /\ (GoesOn("commit") \/ GoesOn("record") \/ GoesOn("push"))
               \/ cmd = "close" /\ \/ GoesOn("record") \/ GoesOn("repo_label")
                                   \/ GoesOn("label") \/ GoesOn("pr")
        PROVE  Shape'
    <2>1. CASE Stopped
      BY <1>2, <2>1 DEF Stopped, CommandForm, Shape
    <2> QED
      BY <1>1, <1>2, <2>1, CommandFormKept DEF GoesOn, Shape
  <1>3. CASE PublishRecord
    <2>1. input.sha \in Made /\ Publish(input, "done")
      BY <1>1, <1>3 DEF PublishRecord, Doing, CommandForm
    <2>2. Stopped
      BY <2>1 DEF Publish, Mutation, Go, End, Stopped
    <2> QED
      BY <1>1, <1>2, <2>1, <2>2, PublishShape
  <1>4. CASE OpenRound
    BY <1>1, <1>2, <1>4, PrepareInput, PublishShape, PublishEffect DEF OpenRound, Doing, GoesOn
  <1>5. CASE Materialize
    <2>1. /\ cmd = "prepare" /\ GoesOn("record") /\ trouble' = trouble /\ UNCHANGED <<prVars, queue>>
          /\ GitShape' /\ Made \subseteq Made'
      BY <1>5, MaterializeEffect
    <2>2. WorldShape' /\ records \subseteq records'
      BY <1>1, <2>1, Untouched DEF WorldShape, prVars
    <2> QED
      BY <1>2, <2>1, <2>2
  <1>6. CASE RecordPreparation
    <2>1. Preparation.sha \in Made
      BY <1>1 DEF Preparation, GitShape
    <2> QED
      BY <1>1, <1>2, <1>6, <2>1, PublishShape, PublishEffect DEF RecordPreparation, Doing, GoesOn
  <1>7. CASE PushPrepared
    <2>1. /\ Stopped /\ trouble' = trouble /\ UNCHANGED prVars
          /\ GitShape' /\ QueueShape' /\ Made' = Made
      BY <1>7, PushPreparedEffect
    <2>2. WorldShape' /\ records \subseteq records'
      BY <1>1, <2>1, Untouched DEF WorldShape, prVars
    <2> QED
      BY <1>2, <2>1, <2>2
  <1>8. CASE PushMain
    <2>1. /\ cmd = "close" /\ GoesOn("record") /\ trouble' = trouble /\ UNCHANGED <<prVars, queue>>
          /\ GitShape' /\ Made' = Made
      BY <1>8, PushMainEffect
    <2>2. WorldShape' /\ records \subseteq records'
      BY <1>1, <2>1, Untouched DEF WorldShape, prVars
    <2> QED
      BY <1>2, <2>1, <2>2
  <1>9. CASE RecordClosed
    <2>1. cmd = "close" /\ Publish(Closed(input), "repo_label") /\ Closed(input).sha \in Made
      BY <1>9, CloseInput DEF RecordClosed, Doing, Closed
    <2> QED
      BY <1>1, <1>2, <2>1, PublishShape, PublishEffect DEF GoesOn
  <1>10. CASE CreateRepoLabel \/ ProjectTerminalLabels \/ ClosePullRequest
    <2>1. /\ cmd = "close" /\ trouble' = trouble /\ UNCHANGED <<gitVars, records, queue>>
          /\ GoesOn("label") \/ GoesOn("pr") \/ Stopped
          /\ label' = label \/ label' = Terminal
          /\ pr' = pr \/ pr' = "CLOSED"
      BY <1>10, TraceEffect
    <2>2. GitShape' /\ QueueShape' /\ Made' = Made
      BY <1>1, <2>1, Untouched
    <2>3. PrShape'
      BY <1>1, <2>1, <2>2 DEF PrShape, Terminal
    <2> QED
      BY <1>1, <1>2, <2>1, <2>2, <2>3 DEF WorldShape
  <1> QED
    BY <1>3, <1>4, <1>5, <1>6, <1>7, <1>8, <1>9, <1>10 DEF Write

\* Every step keeps the types, and the commits and records there were.
LEMMA ShapeStep ==
    ASSUME Shape, [Next]_vars
    PROVE  Shape' /\ records \subseteq records' /\ Made \subseteq Made' /\ trouble' = trouble
  <1>1. CASE Others
    <2>1. WorldShape' /\ Made \subseteq Made' /\ OthersFrame
      BY <1>1, OthersShape, OthersStep
    <2>2. UNCHANGED <<cmd, step, input, trouble>> /\ records \subseteq records'
      BY <2>1 DEF OthersFrame, cmdVars
    <2> QED
      BY <2>1, <2>2, CommandFormKept DEF Shape
  <1>2. CASE Command
    BY <1>2, CommandShape DEF world, gitVars, prVars, Made
  <1>3. CASE Write
    <2>1. trouble' = trouble
      BY <1>3, PublishEffect, MaterializeEffect, PushPreparedEffect, PushMainEffect, TraceEffect
        DEF Write, PublishRecord, OpenRound, RecordPreparation, RecordClosed
    <2> QED
      BY <1>3, <2>1, WriteShape
  <1>4. CASE Crash
    BY <1>4, Untouched DEF Crash, End, Shape, WorldShape, CommandForm, world, prVars
  <1>5. CASE UNCHANGED vars
    <2>1. UNCHANGED <<cmd, step, input, trouble, gitVars, prVars, queue>>
      BY <1>5 DEF vars, world, cmdVars
    <2> QED
      BY <2>1, Untouched, CommandFormKept DEF Shape, WorldShape, prVars
  <1> QED
    BY <1>1, <1>2, <1>3, <1>4, <1>5 DEF Next, Others

\* At the start there is the first candidate.
LEMMA ShapeInit == Init => Shape
  BY CommitAssumption DEF Init, Shape, WorldShape, GitShape, PrShape, QueueShape, CommandForm, Made,
      Event, Sha, Candidate

\* The types hold for ever.
LEMMA ShapeAlways == Spec => []Shape
  <1>1. Shape /\ [Next]_vars => Shape'
    BY ShapeStep
  <1> QED
    BY ShapeInit, <1>1, PTL DEF Spec

-----------------------------------------------------------------------------
(* Reports of failures.                                                     *)

\* How a write leaves its command: a step further, or at its end.
Outcome ==
    \/ \E next : Go(next, FALSE) \/ Go(next, TRUE)
    \/ End(Failure("pre"), wrote) \/ End("post", wrote) \/ End("post", TRUE)

\* There is no other outcome of a write.
LEMMA WriteOutcome == Write => Outcome
  <1>1. ASSUME NEW r, NEW next, Publish(r, next) PROVE Outcome
    BY <1>1 DEF Publish, Mutation, Outcome
  <1>2. Materialize => Outcome
    BY DEF Materialize, Outcome
  <1>3. PushPrepared \/ PushMain => Outcome
    BY DEF PushPrepared, PushMain, Mutation, Outcome
  <1>4. CreateRepoLabel \/ ProjectTerminalLabels \/ ClosePullRequest => Outcome
    BY DEF CreateRepoLabel, ProjectTerminalLabels, ClosePullRequest, Mutation, Outcome
  <1> QED
    BY <1>1, <1>2, <1>3, <1>4
      DEF Write, PublishRecord, OpenRound, RecordPreparation, RecordClosed

\* At the start nothing was written.
LEMMA ObservedInit == Init => Observed
  <1> SUFFICES ASSUME Init PROVE Observed
    OBVIOUS
  <1>1. seen = FALSE /\ wrote = FALSE /\ report = [class |-> "none", wrote |-> FALSE]
    BY DEF Init
  <1> QED
    BY <1>1 DEF Observed, ReportIsHonest

\* What was written stays observed, and no report forgets it.
LEMMA ObservedStep == Observed /\ [Next]_vars => Observed'
  <1> SUFFICES ASSUME Observed, [Next]_vars PROVE Observed'
    OBVIOUS
  <1>1. ASSUME NEW class, NEW written, End(class, written), class = "pre" => ~ written
        PROVE  Observed'
    BY <1>1 DEF End, Observed, ReportIsHonest
  <1>2. ASSUME NEW next, NEW write \in BOOLEAN, Go(next, write)
        PROVE  Observed'
    <2>1. CASE next = "done"
      BY <1>1, <1>2, <2>1 DEF Go
    <2>2. CASE next # "done"
      <3>1. seen' = (seen \/ write) /\ wrote' = (wrote \/ write) /\ report' = report
        BY <1>2, <2>2 DEF Go
      <3>2. seen' \in BOOLEAN /\ wrote' \in BOOLEAN
        BY <1>2, <3>1 DEF Observed
      <3>3. wrote' => seen'
        BY <3>1 DEF Observed
      <3> QED
        BY <3>1, <3>2, <3>3 DEF Observed, ReportIsHonest
    <2> QED
      BY <2>1, <2>2
  <1>3. Failure("pre") = "pre" => ~ wrote
    BY DEF Failure, Observed
  <1>4. CASE Write
    BY <1>1, <1>2, <1>3, <1>4, WriteOutcome DEF Outcome
  <1>5. CASE Crash
    BY <1>1, <1>5 DEF Crash
  <1>6. CASE Command
    <2>1. \E command, first, in : Begin(command, first, in)
      BY <1>6 DEF Command, RecordReview, RecordFixAcceptance, RecordStageAcceptance, PrepareFix,
          CloseStage
    <2>2. seen' = FALSE /\ wrote' = FALSE /\ report' = [class |-> "none", wrote |-> FALSE]
      BY <2>1 DEF Begin
    <2> QED
      BY <2>2 DEF Observed, ReportIsHonest
  <1>7. CASE UNCHANGED cmdVars
    BY <1>7 DEF cmdVars, Observed, ReportIsHonest
  <1>8. Others => UNCHANGED cmdVars
    BY OthersStep DEF OthersFrame
  <1> QED
    BY <1>4, <1>5, <1>6, <1>7, <1>8 DEF Next, Others, vars

\* A failure is told to come before the first write only by a command that has written
\* nothing, through every step of prepare-fix and close-stage (mutationFailure).
THEOREM ReportsAreHonest == Spec => []ReportIsHonest
  <1>1. Observed => ReportIsHonest
    BY DEF Observed
  <1> QED
    BY <1>1, ObservedInit, ObservedStep, PTL DEF Spec

-----------------------------------------------------------------------------
(* What is or is not so.                                                    *)

\* Nothing but a truth value is ever written to one.
LEMMA FlagsStep == Flags /\ [Next]_vars => Flags'
  <1> SUFFICES ASSUME Flags, [Next]_vars PROVE Flags'
    OBVIOUS
  <1> USE DEF Flags
  <1>1. CASE UNCHANGED <<calm, clean, repoLabel, draft>>
    BY <1>1
  <1>2. ASSUME NEW r, NEW next, Publish(r, next) PROVE Flags'
    BY <1>1, <1>2, PublishEffect DEF gitVars
  <1>3. Command \/ Crash => Flags'
    BY <1>1 DEF Command, RecordReview, RecordFixAcceptance, RecordStageAcceptance, PrepareFix,
        CloseStage, Begin, Crash, world, gitVars, prVars
  <1>4. Materialize => Flags'
    BY DEF Materialize, prVars
  <1>5. PushPrepared => Flags'
    BY <1>1 DEF PushPrepared, Mutation, prVars
  <1>6. PushMain => Flags'
    BY <1>1 DEF PushMain, Mutation, prVars
  <1>7. CreateRepoLabel \/ ProjectTerminalLabels \/ ClosePullRequest => Flags'
    BY DEF CreateRepoLabel, ProjectTerminalLabels, ClosePullRequest, Mutation, gitVars
  <1>8. Workflow => Flags'
    BY DEF Workflow, Invalidate, OpenAnother, PublishDispatchReady, VerifyPrepared, HandOverFix,
        VerifyCandidate, HandOverReview, ConfirmReview, gitVars, prVars
  <1>9. Fixing \/ Around => Flags'
    BY DEF Fixing, Dispatch, IntegrateFix, AnnounceCandidate, Around, Authorize, DisturbStage,
        DisturbMain, NoticeMerge, ResetWorktree, CalmDown, world, gitVars, prVars
  <1>10. UNCHANGED vars => Flags'
    BY <1>1 DEF vars, world, gitVars, prVars
  <1> QED
    BY <1>2, <1>3, <1>4, <1>5, <1>6, <1>7, <1>8, <1>9, <1>10
      DEF Next, Write, PublishRecord, OpenRound, RecordPreparation, RecordClosed

-----------------------------------------------------------------------------
(* Closing a Stage.                                                         *)

\* What was accepted stays so.
LEMMA AcceptedKept ==
    MainIsAccepted /\ landed' = landed /\ records \subseteq records' => MainIsAccepted'
  BY DEF MainIsAccepted, Of

\* The others leave the traces of a closure as they are.
LEMMA ClosingOthers ==
    ASSUME Closing, OthersFrame
    PROVE  Closing'
  <1>1. /\ UNCHANGED <<cmd, step, input, landed, repoLabel>> /\ records \subseteq records'
        /\ \A r \in records' \ records : r.type \in WorkflowType
        /\ "codex-stage-closed" \in label' <=> "codex-stage-closed" \in label
        /\ pr' = pr \/ pr' = "MERGED"
        /\ main' = main \/ main' = MaxCommit + 1
    BY DEF OthersFrame, cmdVars
  <1>2. Of("STAGE_CLOSED_V1")' = Of("STAGE_CLOSED_V1")
    BY <1>1 DEF Of, WorkflowType
  <1>3. MainIsAccepted'
    BY <1>1, AcceptedKept DEF Closing
  <1>4. ClosedInOrder'
    BY <1>1, <1>2 DEF Closing, ClosedInOrder
  <1>5. landed' # {} => main' # 0
    BY <1>1, CommitAssumption DEF Closing
  <1> QED
    BY <1>1, <1>2, <1>3, <1>4, <1>5 DEF Closing

\* A closure goes on from what it has left, or ends.
LEMMA ClosingWrite ==
    ASSUME Shape, Closing, Write
    PROVE  Closing'
  <1> USE DEF Closing
  <1>1. \A r \in records : r.sha \in Made
    BY DEF Shape, WorldShape, PrShape
  <1>2. ASSUME UNCHANGED <<main, landed, label, repoLabel, pr>>, records \subseteq records',
               \A r \in records' \ records : r.type # "STAGE_CLOSED_V1",
               Stopped \/ (cmd = "prepare" /\ UNCHANGED cmd)
        PROVE  Closing'
    <2>1. Of("STAGE_CLOSED_V1")' = Of("STAGE_CLOSED_V1")
      BY <1>2 DEF Of
    <2>2. MainIsAccepted' /\ ClosedInOrder'
      BY <1>2, <2>1, AcceptedKept DEF ClosedInOrder
    <2> QED
      BY <1>2, <2>2 DEF Stopped
  <1>3. CASE PublishRecord
    <2>1. Publish(input, "done") /\ input.type # "STAGE_CLOSED_V1"
      BY <1>3 DEF PublishRecord, Doing, Shape, CommandForm, DecisionType
    <2>2. Stopped
      BY <2>1 DEF Publish, Mutation, Go, End, Stopped
    <2> QED
      BY <1>2, <2>1, <2>2, PublishEffect DEF gitVars
  <1>4. CASE OpenRound \/ RecordPreparation
    <2>1. /\ cmd = "prepare"
          /\ \E r, next : Publish(r, next) /\ r.type # "STAGE_CLOSED_V1"
      <3>1. CASE OpenRound
        <4>1. cmd = "prepare" /\ Publish(input.round, "commit")
          BY <3>1 DEF OpenRound, Doing
        <4>2. input.round.type # "STAGE_CLOSED_V1"
          BY <4>1, PrepareInput
        <4> QED
          BY <4>1, <4>2
      <3>2. CASE RecordPreparation
        BY <3>2 DEF RecordPreparation, Doing, Preparation
      <3> QED
        BY <1>4, <3>1, <3>2
    <2> QED
      BY <1>2, <2>1, PublishEffect DEF gitVars
  <1>5. CASE Materialize
    BY <1>2, <1>5, MaterializeEffect DEF prVars, GoesOn
  <1>6. CASE PushPrepared
    BY <1>2, <1>6, PushPreparedEffect DEF prVars
  <1>7. CASE PushMain
    <2>1. /\ cmd = "close" /\ step = "push" /\ GoesOn("record") /\ UNCHANGED prVars
          /\ \/ UNCHANGED <<main, landed>>
             \/ main = 0 /\ main' = input.sha /\ landed' = landed \cup {input.sha}
          /\ step' = "record" => main' = input.sha
          /\ GitShape' /\ Made' = Made
      BY <1>7, PushMainEffect
    <2>2. input.sha # 0 /\ input.sha # MaxCommit + 1
      BY <2>1, CloseInput, MadeNumbers DEF Shape, WorldShape
    <2>3. input \in Authorized /\ Binds(input)
      BY <2>1, CloseInput
    <2>4. MainIsAccepted'
      <3>1. CASE UNCHANGED <<main, landed>>
        BY <2>1, <3>1, AcceptedKept DEF prVars
      <3>2. CASE main = 0 /\ landed' = landed \cup {input.sha}
        <4>1. landed' = {input.sha}
          BY <3>2
        <4>2. Cardinality(landed') <= 1
          <5>1. Cardinality(landed') = 1
            BY <4>1, FS_Singleton
          <5> QED
            BY <5>1
        <4>3. /\ {Verification(None, input.sha), ReviewHandoff(input.sha)} \subseteq records
              /\ \E a \in Of("STAGE_ACCEPTANCE_V1"), v \in Of("FORMAL_REVIEW_V1") :
                    /\ a.sha = input.sha /\ v.sha = input.sha
                    /\ v.decision = "PASS" /\ a.review = v.id /\ input.acceptance = a.id
          BY <2>3 DEF Binds
        <4>4. records' = records
          BY <2>1 DEF prVars
        <4> QED
          BY <2>3, <4>1, <4>2, <4>3, <4>4
            DEF MainIsAccepted, Of, Authorized, Verification, ReviewHandoff
      <3> QED
        BY <2>1, <3>1, <3>2
    <2>5. landed \subseteq landed' /\ UNCHANGED <<records, label, repoLabel, pr>>
      BY <2>1 DEF prVars
    <2>6. ClosedInOrder'
      BY <2>5 DEF ClosedInOrder, Of
    <2>7. step' = "record" => input.sha \in landed'
      BY <2>1, <2>2 DEF GitShape
    <2>8. landed' # {} => main' # 0
      BY <2>1, <2>2
    <2> QED
      BY <2>1, <2>4, <2>6, <2>7, <2>8 DEF GoesOn, Stopped
  <1>8. CASE RecordClosed
    <2>1. /\ cmd = "close" /\ step = "record" /\ Publish(Closed(input), "repo_label")
          /\ input.sha \in landed
      BY <1>8 DEF RecordClosed, Doing
    <2>2. /\ UNCHANGED <<main, landed, label, repoLabel, pr>> /\ records \subseteq records'
          /\ records' = records \/ records' = records \cup {Closed(input)}
          /\ Stopped \/ (Closed(input) \in records' /\ step' = "repo_label" /\ UNCHANGED <<cmd, input>>)
      BY <2>1, PublishEffect DEF gitVars
    <2>3. Closed(input).type = "STAGE_CLOSED_V1" /\ Closed(input).sha = input.sha
      BY DEF Closed
    <2>4. MainIsAccepted'
      BY <2>2, AcceptedKept
    <2>5. ClosedInOrder'
      BY <2>1, <2>2, <2>3 DEF ClosedInOrder, Of
    <2> QED
      BY <2>1, <2>2, <2>3, <2>4, <2>5 DEF Stopped, Of
  <1>9. CASE CreateRepoLabel \/ ProjectTerminalLabels \/ ClosePullRequest
    <2>1. UNCHANGED <<main, landed, records>> /\ cmd = "close"
      BY <1>9, TraceEffect DEF gitVars
    <2>2. MainIsAccepted' /\ Of("STAGE_CLOSED_V1")' = Of("STAGE_CLOSED_V1")
      BY <2>1, AcceptedKept DEF Of
    <2>3. CASE /\ step = "repo_label" /\ GoesOn("label") /\ UNCHANGED <<label, pr>>
               /\ repoLabel' = repoLabel \/ repoLabel' = TRUE
               /\ step' = "label" => repoLabel'
      BY <2>1, <2>2, <2>3 DEF GoesOn, Stopped, ClosedInOrder
    <2>4. CASE /\ step = "label" /\ GoesOn("pr") /\ UNCHANGED <<repoLabel, pr>>
               /\ label' = label \/ label' = Terminal
               /\ step' = "pr" => label' = Terminal
      BY <2>1, <2>2, <2>4 DEF GoesOn, Stopped, ClosedInOrder, Terminal
    <2>5. CASE step = "pr" /\ Stopped /\ UNCHANGED <<repoLabel, label>> /\ (pr' = pr \/ pr' = "CLOSED")
      BY <2>1, <2>2, <2>5 DEF Stopped, ClosedInOrder
    <2> QED
      BY <1>9, <2>3, <2>4, <2>5, TraceEffect
  <1> QED
    BY <1>3, <1>4, <1>5, <1>6, <1>7, <1>8, <1>9 DEF Write

\* A closure may rely on its traces, whoever else acts.
LEMMA ClosingStep == Shape /\ Closing /\ [Next]_vars => Closing'
  <1> SUFFICES ASSUME Shape, Closing, [Next]_vars PROVE Closing'
    OBVIOUS
  <1>1. ASSUME UNCHANGED <<main, landed, label, repoLabel, pr, records>>,
               \/ UNCHANGED <<cmd, step, input>>
               \/ cmd' # "close"
               \/ cmd' = "close" /\ (step' = "push" \/ (step' = "record" /\ input'.sha \in landed))
        PROVE  Closing'
    <2>1. MainIsAccepted' /\ ClosedInOrder' /\ Of("STAGE_CLOSED_V1")' = Of("STAGE_CLOSED_V1")
      BY <1>1, AcceptedKept DEF Closing, ClosedInOrder, Of
    <2> QED
      BY <1>1, <2>1 DEF Closing
  <1>2. CASE Command
    <2>1. UNCHANGED <<main, landed, label, repoLabel, pr, records>>
      BY <1>2, CommandShape DEF world, gitVars, prVars
    <2>2. ASSUME NEW z \in Authorized, CloseStage(z)
          PROVE  cmd' = "close" /\ (step' = "push" \/ (step' = "record" /\ input'.sha \in landed))
      <3>1. /\ cmd' = "close" /\ step' = (IF main = 0 THEN "push" ELSE "record") /\ input' = z
            /\ main \in {0, z.sha}
        BY <2>2, BeginEffect DEF CloseStage
      <3>2. z.sha # 0 /\ z.sha # MaxCommit + 1 /\ main \in {0, MaxCommit + 1} \cup landed
        <4>1. z.sha \in Made
          BY DEF Shape, WorldShape, PrShape, Authorized, Of
        <4> QED
          BY <4>1, MadeNumbers DEF Shape, WorldShape, GitShape
      <3>3. CASE main = 0
        BY <3>1, <3>3
      <3>4. CASE main # 0
        <4>1. step' = "record" /\ input' = z /\ z.sha \in landed
          BY <3>1, <3>2, <3>4
        <4> QED
          BY <3>1, <4>1
      <3> QED
        BY <3>3, <3>4
    <2>3. CASE \A z \in Authorized : ~ CloseStage(z)
      <3>1. \E first, in : Begin("record", first, in) \/ Begin("prepare", first, in)
        BY <1>2, <2>3 DEF Command, RecordReview, RecordFixAcceptance, RecordStageAcceptance,
            PrepareFix, Authorized
      <3>2. cmd' # "close"
        BY <3>1, BeginEffect
      <3> QED
        BY <1>1, <2>1, <3>2
    <2> QED
      BY <1>1, <2>1, <2>2, <2>3
  <1>3. CASE Crash
    BY <1>1, <1>3 DEF Crash, End, world, gitVars, prVars
  <1>4. CASE UNCHANGED vars
    BY <1>1, <1>4 DEF vars, world, gitVars, prVars, cmdVars
  <1> QED
    BY <1>2, <1>3, <1>4, ClosingOthers, OthersStep, ClosingWrite DEF Next, Others

\* What becomes main was verified, handed over, passed by a review of it, accepted and
\* authorized, what others push to main is not overwritten, and the traces of a closure come
\* in their order, whatever fails, dies or is repeated between the steps of close-stage.
THEOREM ClosuresAreAuthorized == Spec => ClosureIsAuthorized
  <1>1. Init => Closing
    BY FS_EmptySet DEF Init, Closing, MainIsAccepted, ClosedInOrder, Of, Candidate
  <1>2. Closing => MainIsAccepted /\ ClosedInOrder
    BY DEF Closing
  <1>3. Spec => []Closing
    BY <1>1, ShapeAlways, ClosingStep, PTL DEF Spec
  <1>4. Shape /\ [Next]_vars => [main = MaxCommit + 1 => main' = main]_vars
    <2> SUFFICES ASSUME Shape, Next, main = MaxCommit + 1 PROVE main' = main
      OBVIOUS
    <2>1. main # 0
      BY CommitAssumption
    <2>2. Others => main' = main
      BY OthersStep DEF OthersFrame
    <2>3. Command => main' = main
      BY CommandShape DEF world, gitVars
    <2>4. Write => main' = main
      BY <2>1, PublishEffect, MaterializeEffect, PushPreparedEffect, PushMainEffect, TraceEffect
        DEF Write, PublishRecord, OpenRound, RecordPreparation, RecordClosed, gitVars
    <2> QED
      BY <2>2, <2>3, <2>4 DEF Next, Others, Crash, world, gitVars
  <1>5. Spec => MainIsNotOverwritten
    BY <1>4, ShapeAlways, PTL DEF Spec, MainIsNotOverwritten
  <1> QED
    BY <1>2, <1>3, <1>5, PTL DEF ClosureIsAuthorized

-----------------------------------------------------------------------------
(* Preparing and dispatching a fix.                                         *)

\* The confirmed, prepared and accepted fix that was dispatched as d.
FixOf(d) ==
    \E p \in Prepared, r \in Round, v \in Review, a \in Of("FIX_BUNDLE_ACCEPTANCE_V1") :
        /\ p.id = d.prep /\ p.sha = d.sha
        /\ r.id = p.round /\ v.id = r.review /\ v.decision = "REQUEST_CHANGES"
        /\ commit[d.sha] = [parent |-> v.sha, of |-> r.confirmation]
        /\ a.prep = p.id /\ a.sha = d.sha
        /\ {Verification(p.id, d.sha), FixHandoff(p)} \subseteq records

\* What was dispatched was confirmed, commit by commit.
LEMMA FixesOf ==
    /\ FixIsAuthorized <=> \A d \in dispatched : FixOf(d)
    /\ FixIsAuthorized' <=> \A d \in dispatched' : FixOf(d)'
  BY DEF FixIsAuthorized, FixOf, Prepared, Round, Review

\* It stays so as long as its commit does.
LEMMA FixKept ==
    ASSUME NEW d, FixOf(d), commit'[d.sha] = commit[d.sha], records \subseteq records'
    PROVE  FixOf(d)'
  <1>1. PICK p \in Prepared, r \in Round, v \in Review, a \in Of("FIX_BUNDLE_ACCEPTANCE_V1") :
           /\ p.id = d.prep /\ p.sha = d.sha
           /\ r.id = p.round /\ v.id = r.review /\ v.decision = "REQUEST_CHANGES"
           /\ commit[d.sha] = [parent |-> v.sha, of |-> r.confirmation]
           /\ a.prep = p.id /\ a.sha = d.sha
           /\ {Verification(p.id, d.sha), FixHandoff(p)} \subseteq records
    BY DEF FixOf
  <1>2. /\ p \in Prepared' /\ r \in Round' /\ v \in Review'
        /\ a \in Of("FIX_BUNDLE_ACCEPTANCE_V1")'
    BY <1>1 DEF Prepared, Round, Review, Of
  <1>3. {Verification(p.id, d.sha)', FixHandoff(p)'} \subseteq records'
    BY <1>1 DEF FixHandoff, Verification
  <1> QED
    BY <1>1, <1>2, <1>3 DEF FixOf

\* Commits and preparations name each other for good.
LEMMA DerivedKept ==
    ASSUME Shape, Preparing, Round' = Round, Prepared' = Prepared, records \subseteq records',
           trouble' = trouble, \A n \in Made : commit'[n] = commit[n]
    PROVE  /\ Identified' /\ Derived'
           /\ dispatched' = dispatched => FixIsAuthorized'
  <1>1. Identified'
    BY DEF Preparing, Identified, SameIdentity
  <1>2. \A p \in Prepared : p.sha \in Made /\ commit'[p.sha] = commit[p.sha]
    BY DEF Shape, WorldShape, PrShape, Prepared, Of
  <1>3. Review \subseteq Review'
    BY DEF Review, Of
  <1>4. Derived'
    BY <1>2, <1>3 DEF Preparing, Derived
  <1>5. ASSUME dispatched' = dispatched PROVE FixIsAuthorized'
    <2> SUFFICES ASSUME NEW d \in dispatched PROVE FixOf(d)'
      BY <1>5, FixesOf
    <2>1. FixOf(d) /\ commit'[d.sha] = commit[d.sha]
      BY <1>2, FixesOf DEF Preparing, FixOf
    <2> QED
      BY <2>1, FixKept
  <1> QED
    BY <1>1, <1>4, <1>5

\* A step that neither commits, nor moves a branch or the worktree, nor prepares anything.
LEMMA PreparingQuiet ==
    ASSUME Shape, Preparing, UNCHANGED <<trouble, commit, stage, heads, tree, clean, dispatched>>,
           records \subseteq records', Round' = Round, Prepared' = Prepared,
           UNCHANGED <<cmd, step, input>> \/ cmd' # "prepare",
           \A r \in Of("STAGE_VERIFICATION_V1")' \cup Of("CHAT_REVIEW_HANDOFF_V1")' :
              r \in records \/ r.sha \in heads,
           \A i \in 1 .. Len(queue') : queue'[i].head \in heads
    PROVE  Preparing'
  <1>1. Identified' /\ Derived' /\ FixIsAuthorized'
    BY DerivedKept
  <1>2. StageAdvances'
    BY DEF Preparing, StageAdvances, Of
  <1>3. PreparedIsRecorded' /\ PreparationIsHere'
    BY DEF Preparing, PreparedIsRecorded, PreparationIsHere, Prepared
  <1>4. cmd' = "prepare" => PreparingOf(input.bundle)' /\ input' = input
    BY DEF Preparing, PreparingOf, SameRound, PreparationsOf, Round, Prepared, Preparation
  <1> QED
    BY <1>1, <1>2, <1>3, <1>4 DEF Preparing

\* The Stage never stands where prepare-fix has its commit before it has pushed it.
LEMMA NotAtPrepared ==
    ASSUME Shape, Preparing, cmd = "prepare", step \in {"record", "push"}
    PROVE  stage # tree /\ input.source < tree /\ commit[tree].of # None
  <1>1. /\ commit[tree] = [parent |-> input.source, of |-> input.bundle.confirmation]
        /\ stage = input.source \/ commit[stage].of = None
    BY DEF Preparing, PreparingOf
  <1>2. commit[tree].of # None
    BY <1>1, PrepareInput, NoneAssumption
  <1>3. commit[tree].parent < tree /\ tree \in Nat
    BY MadeNumbers DEF Shape, WorldShape, GitShape
  <1>4. input.source < tree /\ input.source \in Nat
    BY <1>1, <1>3, PrepareInput, MadeNumbers DEF Shape, WorldShape
  <1> QED
    BY <1>1, <1>2, <1>3, <1>4

\* The Stage moves to a commit of no confirmation, which the worktree has when it had the
\* Stage before.
LEMMA PreparingMoves ==
    ASSUME Shape, Preparing, NewCommit(stage, None), MoveStage(Len(commit')),
           UNCHANGED <<trouble, clean, records, dispatched, cmd, step, input>>,
           tree' = tree \/ (tree = stage /\ clean /\ tree' = Len(commit'))
    PROVE  Preparing'
  <1> DEFINE n == Len(commit')
  <1>1. GitShape /\ stage \in Made /\ heads \subseteq Made /\ Made \subseteq Nat /\ tree \in Made
        /\ QueueShape
    BY MadeNumbers DEF Shape, WorldShape, GitShape
  <1>2. /\ n \notin Made /\ n \in Nat /\ \A m \in Made : commit'[m] = commit[m] /\ m < n
        /\ commit'[n] = [parent |-> stage, of |-> None]
    BY <1>1, CommitEffect
  <1>3. stage' = n /\ heads' = heads \cup {n} /\ Enqueue("push", n)
    BY DEF MoveStage
  <1> HIDE DEF n
  <1>4. Round' = Round /\ Prepared' = Prepared
    BY DEF Round, Prepared, Of
  <1>5. Identified' /\ Derived' /\ FixIsAuthorized'
    BY <1>2, <1>4, DerivedKept
  <1>6. StageAdvances'
    <2>1. \A m \in heads' : m <= stage'
      <3>1. \A m \in heads : m <= n
        BY <1>1, <1>2
      <3>2. n <= n
        BY <1>2
      <3> QED
        BY <1>3, <3>1, <3>2
    <2>2. \A i \in 1 .. Len(queue') : queue'[i].head \in heads'
      <3>1. queue'[Len(queue')] = [kind |-> "push", head |-> n, stop |-> 0]
        BY <1>1, <1>2, <1>3, EnqueueEffect
      <3>2. queue'[Len(queue')].head \in heads'
        BY <1>3, <3>1
      <3>3. Len(queue') = 2 => queue'[1].head \in heads'
        <4>1. Len(queue') = 2 => queue # <<>> /\ queue'[1] = queue[1]
          BY <1>1, <1>2, <1>3, EnqueueEffect
        <4>2. queue # <<>> => 1 \in 1 .. Len(queue)
          BY <1>1 DEF QueueShape
        <4> QED
          BY <1>3, <4>1, <4>2 DEF Preparing, StageAdvances
      <3>4. Len(queue') = 1 \/ Len(queue') = 2
        BY <1>1, <1>2, <1>3, EnqueueEffect
      <3> QED
        BY <3>2, <3>3, <3>4
    <2>3. ~ clean' => tree' \in heads'
      BY <1>3 DEF Preparing, StageAdvances
    <2>4. \A r \in Of("STAGE_VERIFICATION_V1")' \cup Of("CHAT_REVIEW_HANDOFF_V1")' : r.sha \in heads'
      BY <1>3 DEF Preparing, StageAdvances, Of
    <2> QED
      BY <2>1, <2>2, <2>3, <2>4 DEF StageAdvances
  <1>7. PreparedIsRecorded'
    BY <1>1, <1>2, <1>3, <1>4 DEF Preparing, PreparedIsRecorded, Prepared, Made
  <1>8. PreparationIsHere'
    <2>1. stage \in heads
      BY DEF Shape, WorldShape, GitShape
    <2> QED
      BY <1>3, <1>4, <2>1 DEF Preparing, PreparationIsHere, Prepared
  <1>9. cmd' = "prepare" => PreparingOf(input.bundle)' /\ input' = input
    <2> SUFFICES ASSUME cmd = "prepare" PROVE PreparingOf(input.bundle)'
      OBVIOUS
    <2>1. step \in {"record", "push"} => tree' = tree
      BY NotAtPrepared
    <2>2. commit'[stage'].of = None
      BY <1>2, <1>3
    <2>3. /\ SameRound(input.bundle)' = SameRound(input.bundle)
          /\ PreparationsOf(input.bundle.round)' = PreparationsOf(input.bundle.round)
      BY <1>4 DEF SameRound, PreparationsOf, Round, Prepared
    <2>4. PreparingOf(input.bundle)
      BY DEF Preparing
    <2>5. step = "push" => Preparation' \in records'
      BY <2>1, <2>4 DEF PreparingOf, Preparation
    <2> QED
      BY <1>1, <1>2, <1>3, <2>1, <2>2, <2>3, <2>4, <2>5 DEF PreparingOf
  <1> QED
    BY <1>5, <1>6, <1>7, <1>8, <1>9 DEF Preparing

\* Events that are answered or wait are those of commits the Stage has been at.
LEMMA QueueHeads ==
    ASSUME QueueShape, \A i \in 1 .. Len(queue) : queue[i].head \in heads,
           \/ UNCHANGED queue
           \/ queue # <<>> /\ queue[1].stop \in 0 .. 1 /\ Proceed
           \/ queue # <<>> /\ Leave
           \/ stage \in heads /\ stage \in Nat /\ Enqueue("candidate", stage)
    PROVE  \A i \in 1 .. Len(queue') : queue'[i].head \in heads
  <1>0. Len(queue) \in Nat /\ (queue # <<>> => 1 \in 1 .. Len(queue))
    BY DEF QueueShape
  <1>1. CASE UNCHANGED queue
    BY <1>1
  <1>2. CASE queue # <<>> /\ queue[1].stop \in 0 .. 1 /\ Proceed
    <2>1. /\ Len(queue') = Len(queue) /\ queue'[1].head = queue[1].head
          /\ \A i \in 2 .. Len(queue) : queue'[i] = queue[i]
      BY <1>2, ProceedEffect
    <2>2. \A i \in 1 .. Len(queue') : i = 1 \/ i \in 2 .. Len(queue)
      BY <1>0, <2>1
    <2> QED
      BY <1>0, <1>2, <2>1, <2>2
  <1>3. CASE queue # <<>> /\ Leave
    <2>1. Len(queue') = Len(queue) - 1 /\ \A i \in 1 .. Len(queue') : queue'[i] = queue[i + 1]
      BY <1>3, LeaveEffect
    <2>2. \A i \in 1 .. Len(queue') : i + 1 \in 1 .. Len(queue)
      BY <1>0, <2>1
    <2> QED
      BY <2>1, <2>2
  <1>4. CASE stage \in heads /\ stage \in Nat /\ Enqueue("candidate", stage)
    <2>1. /\ Len(queue') \in {1, 2}
          /\ queue'[Len(queue')] = [kind |-> "candidate", head |-> stage, stop |-> 0]
          /\ IF queue = <<>> THEN Len(queue') = 1 ELSE Len(queue') = 2 /\ queue'[1] = queue[1]
      BY <1>4, EnqueueEffect
    <2>2. queue'[Len(queue')].head \in heads
      BY <1>4, <2>1
    <2>3. Len(queue') = 2 => queue'[1].head \in heads
      BY <1>0, <2>1
    <2> QED
      BY <2>1, <2>2, <2>3
  <1> QED
    BY <1>1, <1>2, <1>3, <1>4

\* Everybody but the command and the Bridge's run leaves what is prepared as it is, and so
\* does that run: it dispatches what was accepted and integrates beside it.
LEMMA PreparingOthers ==
    ASSUME Shape, Preparing, Others
    PROVE  Preparing'
  <1>1. /\ UNCHANGED <<trouble, cmd, step, input>> /\ records \subseteq records'
        /\ \A r \in records' \ records : r.type \in WorkflowType
    BY OthersStep DEF OthersFrame, cmdVars
  <1>2. Round' = Round /\ Prepared' = Prepared
    BY <1>1 DEF Round, Prepared, Of, WorkflowType
  <1>3. /\ stage \in heads /\ stage \in Nat /\ QueueShape
        /\ \A i \in 1 .. Len(queue) : queue[i].head \in heads
    BY MadeNumbers DEF Shape, WorldShape, GitShape, Preparing, StageAdvances
  <1>4. ASSUME UNCHANGED <<commit, stage, heads, tree, clean, dispatched>>,
               \A r \in records' \ records : r.sha \in heads
                  \/ r.type \notin {"STAGE_VERIFICATION_V1", "CHAT_REVIEW_HANDOFF_V1"},
               \A i \in 1 .. Len(queue') : queue'[i].head \in heads
        PROVE  Preparing'
    BY <1>1, <1>2, <1>4, PreparingQuiet DEF Of
  <1>5. CASE Workflow
    <2>1. \/ UNCHANGED queue
          \/ queue # <<>> /\ queue[1].stop \in 0 .. 1 /\ Proceed
          \/ queue # <<>> /\ Leave
      BY <1>5, WorkflowQueue
    <2>2. \A i \in 1 .. Len(queue') : queue'[i].head \in heads
      BY <1>3, <2>1, QueueHeads
    <2>3. UNCHANGED <<commit, stage, heads, tree, clean, dispatched>>
      BY <1>5 DEF Workflow, Invalidate, OpenAnother, PublishDispatchReady, VerifyPrepared,
          HandOverFix, VerifyCandidate, HandOverReview, ConfirmReview, gitVars
    <2>4. \A r \in records' \ records : r.sha \in heads
                  \/ r.type \notin {"STAGE_VERIFICATION_V1", "CHAT_REVIEW_HANDOFF_V1"}
      <3>1. CASE VerifyPrepared \/ VerifyCandidate
        BY <1>3, <3>1 DEF VerifyPrepared, VerifyCandidate, Verification
      <3>2. CASE HandOverReview
        BY <1>3, <3>2 DEF HandOverReview, ReviewHandoff
      <3>3. CASE HandOverFix
        BY <3>3 DEF HandOverFix, FixHandoff
      <3>4. CASE UNCHANGED records
        BY <3>4
      <3> QED
        BY <1>5, <3>1, <3>2, <3>3, <3>4 DEF Workflow, Invalidate, OpenAnother,
            PublishDispatchReady, ConfirmReview, prVars
    <2> QED
      BY <1>4, <2>2, <2>3, <2>4
  <1>6. CASE Dispatch
    <2>1. PICK p \in CurrentPreparations :
             Gate(p) /\ dispatched' = dispatched \cup {[prep |-> p.id, sha |-> p.sha]}
      BY <1>6 DEF Dispatch
    <2>2. UNCHANGED <<commit, stage, heads, tree, clean, records, queue>>
      BY <1>6 DEF Dispatch, gitVars, prVars
    <2>3. p \in Prepared /\ p.sha = stage
      BY <2>1 DEF CurrentPreparations, Prepared
    <2>4. PICK a \in AcceptancesOf(p) : TRUE
      BY <2>1, FS_EmptySet DEF Gate, ExactlyOne
    <2>5. FixHandoff(p) \in records /\ Verification(p.id, p.sha) \in records
      BY <2>1, <2>3 DEF Gate, CurrentFixHandoffs, Of
    <2>6. PICK r \in Round, v \in Review :
             /\ r.id = p.round /\ v.id = r.review /\ v.decision = "REQUEST_CHANGES"
             /\ commit[p.sha] = [parent |-> v.sha, of |-> r.confirmation]
      BY <2>3 DEF Preparing, Derived
    <2>7. FixOf([prep |-> p.id, sha |-> p.sha])
      BY <2>3, <2>4, <2>5, <2>6 DEF FixOf, AcceptancesOf
    <2>8. \A d \in dispatched : FixOf(d)
      BY FixesOf DEF Preparing
    <2>9. \A d \in dispatched' : FixOf(d)'
      <3>1. ASSUME NEW d, FixOf(d) PROVE FixOf(d)'
        BY <2>2, <3>1, FixKept
      <3>2. \A d \in dispatched' : FixOf(d)
        BY <2>1, <2>7, <2>8
      <3> QED
        BY <3>1, <3>2
    <2>10. FixIsAuthorized' /\ Identified' /\ Derived'
      BY <1>1, <1>2, <2>2, <2>9, FixesOf, DerivedKept
    <2> QED
      BY <1>1, <1>2, <2>2, <2>10 DEF Preparing, StageAdvances, PreparingOf, SameRound, Round,
          PreparationsOf, Preparation, PreparedIsRecorded, PreparationIsHere, Prepared, Of
  <1>7. CASE IntegrateFix \/ DisturbStage
    BY <1>1, <1>7, PreparingMoves DEF IntegrateFix, DisturbStage, prVars, Goes
  <1>8. CASE AnnounceCandidate
    <2>1. \A i \in 1 .. Len(queue') : queue'[i].head \in heads
      BY <1>3, <1>8, QueueHeads DEF AnnounceCandidate
    <2> QED
      BY <1>4, <1>8, <2>1 DEF AnnounceCandidate, Candidate, gitVars
  <1>9. ASSUME NEW id \in AuthorizationId, Authorize(id) PROVE Preparing'
    BY <1>3, <1>4, <1>9 DEF Authorize, gitVars
  <1>10. CASE DisturbMain \/ NoticeMerge \/ CalmDown
    BY <1>3, <1>4, <1>10 DEF DisturbMain, NoticeMerge, CalmDown, world, gitVars, prVars
  <1>11. CASE ResetWorktree
    <2>1. /\ cmd = "none" /\ tree' = stage /\ clean' /\ ("reset" \in trouble \/ ~ clean)
          /\ UNCHANGED <<commit, stage, heads, records, queue, dispatched>>
      BY <1>11 DEF ResetWorktree, Goes, prVars
    <2>2. Identified' /\ Derived' /\ FixIsAuthorized'
      BY <1>1, <1>2, <2>1, DerivedKept
    <2>3. StageAdvances' /\ PreparedIsRecorded'
      BY <1>2, <2>1 DEF Preparing, StageAdvances, PreparedIsRecorded, Of
    <2>4. PreparationIsHere'
      BY <1>1, <1>2, <1>3, <2>1 DEF Preparing, StageAdvances, PreparationIsHere, Prepared
    <2> QED
      BY <1>1, <2>1, <2>2, <2>3, <2>4 DEF Preparing
  <1> QED
    BY <1>5, <1>6, <1>7, <1>8, <1>9, <1>10, <1>11 DEF Others, Fixing, Around

\* prepare-fix begins from a reviewed Stage and no other round for its confirmation.
LEMMA PreparingCommand ==
    ASSUME Shape, Preparing, Command
    PROVE  Preparing'
  <1>1. UNCHANGED <<trouble, commit, stage, heads, tree, clean, records, queue, dispatched>>
    BY CommandShape DEF world, gitVars, prVars
  <1>2. \A i \in 1 .. Len(queue) : queue[i].head \in heads
    BY DEF Preparing, StageAdvances
  <1>3. Round' = Round /\ Prepared' = Prepared
    BY <1>1 DEF Round, Prepared, Of
  <1>4. ASSUME NEW b \in Bundle, PrepareFix(b)
        PROVE  Preparing'
    <2>1. PICK v \in Review : /\ stage = v.sha /\ \A r \in SameRound(b) : r = RoundOf(b, v)
                              /\ "replace" \in trouble
                                    \/ \A p \in PreparationsOf(b.round) : p.id = b.prep
                              /\ Begin("prepare", "round", [bundle |-> b, round |-> RoundOf(b, v),
                                                            source |-> v.sha])
      BY <1>4 DEF PrepareFix, Review
    <2>2. /\ cmd' = "prepare" /\ step' = "round"
          /\ input' = [bundle |-> b, round |-> RoundOf(b, v), source |-> v.sha]
      BY <2>1, BeginEffect
    <2>3. SameRound(b)' = SameRound(b) /\ PreparationsOf(b.round)' = PreparationsOf(b.round)
      BY <1>3 DEF SameRound, PreparationsOf, Round, Prepared
    <2>4. PreparingOf(b)'
      <3>1. stage \in heads
        BY DEF Shape, WorldShape, GitShape
      <3> QED
        BY <1>1, <2>1, <2>2, <2>3, <3>1 DEF PreparingOf
    <2>5. Identified' /\ Derived' /\ FixIsAuthorized'
      BY <1>1, <1>3, DerivedKept
    <2>6. StageAdvances' /\ PreparedIsRecorded' /\ PreparationIsHere'
      BY <1>1, <1>3 DEF Preparing, StageAdvances, PreparedIsRecorded, PreparationIsHere, Prepared, Of
    <2> QED
      BY <2>2, <2>4, <2>5, <2>6 DEF Preparing
  <1>5. CASE \A b \in Bundle : ~ PrepareFix(b)
    <2>1. \E first, in : Begin("record", first, in) \/ Begin("close", first, in)
      BY <1>5 DEF Command, RecordReview, RecordFixAcceptance, RecordStageAcceptance, CloseStage
    <2>2. cmd' # "prepare"
      BY <2>1, BeginEffect
    <2> QED
      BY <1>1, <1>2, <1>3, <2>2, PreparingQuiet DEF Of
  <1> QED
    BY <1>4, <1>5

\* The round of the confirmation is opened, or found.
LEMMA PreparingRound ==
    ASSUME Shape, Preparing, OpenRound
    PROVE  Preparing'
  <1> DEFINE b == input.bundle
             r == input.round
  <1>1. /\ cmd = "prepare" /\ Publish(r, "commit") /\ PreparingOf(b)
    BY DEF OpenRound, Doing, Preparing
  <1>2. /\ UNCHANGED <<trouble, gitVars, queue, dispatched>>
        /\ records' = records \/ (records' = records \cup {r} /\ ~ Conflicts(r))
        /\ Stopped \/ (r \in records' /\ step' = "commit" /\ UNCHANGED <<cmd, input>>)
    BY <1>1, PublishEffect
  <1>3. /\ r.type = "FIX_ROUND_OPENED_V1" /\ r.confirmation = b.confirmation
        /\ r.confirmation \in Confirmation
        /\ \E v \in Review : v.id = r.review /\ v.decision = "REQUEST_CHANGES" /\ v.sha = r.sha
    BY <1>1, PrepareInput
  <1>4. /\ Prepared' = Prepared /\ Review \subseteq Review' /\ Round \subseteq Round'
        /\ \A q \in Round' : q \in Round \/ (q = r /\ ~ Conflicts(r))
        /\ records \subseteq records'
    BY <1>2, <1>3 DEF Prepared, Review, Round, Of
  <1> HIDE DEF b, r
  <1>5. Identified'
    <2>1. \A q \in Round \cup Prepared : ~ Conflicts(r) /\ SameIdentity(r, q) => q = r
      BY DEF Conflicts, Round, Prepared, Of
    <2>2. \A q \in Round : q.confirmation = r.confirmation => q = r
      BY <1>1, <1>3 DEF PreparingOf, SameRound, Round, r
    <2> QED
      BY <1>2, <1>4, <2>1, <2>2 DEF Preparing, Identified, SameIdentity
  <1>6. Derived'
    BY <1>2, <1>3, <1>4 DEF Preparing, Derived, gitVars
  <1>7. StageAdvances' /\ PreparedIsRecorded' /\ PreparationIsHere'
    BY <1>2, <1>3, <1>4 DEF Preparing, StageAdvances, PreparedIsRecorded, PreparationIsHere,
        Prepared, Of, gitVars
  <1>8. FixIsAuthorized'
    <2> SUFFICES ASSUME NEW d \in dispatched PROVE FixOf(d)'
      BY <1>2, FixesOf
    <2>1. FixOf(d) /\ commit' = commit
      BY <1>2, FixesOf DEF Preparing, gitVars
    <2> QED
      BY <1>4, <2>1, FixKept
  <1>9. cmd' = "prepare" => PreparingOf(b)' /\ input' = input
    <2> SUFFICES ASSUME cmd' = "prepare" PROVE PreparingOf(b)' /\ input' = input
      OBVIOUS
    <2>1. r \in records' /\ step' = "commit" /\ input' = input
      BY <1>2 DEF Stopped
    <2>2. \A q \in SameRound(b)' : q = r
      BY <1>1, <1>4, <2>1 DEF PreparingOf, SameRound, Round, r, b
    <2> QED
      BY <1>1, <1>2, <1>4, <2>1, <2>2 DEF PreparingOf, PreparationsOf, Prepared, gitVars, r, b
  <1> QED
    BY <1>5, <1>6, <1>7, <1>8, <1>9 DEF Preparing, b

\* The commit of the confirmation is made on top of the reviewed Stage, or found.
LEMMA PreparingMaterialize ==
    ASSUME Shape, Preparing, Materialize
    PROVE  Preparing'
  <1>1. /\ cmd = "prepare" /\ step = "commit" /\ GoesOn("record")
        /\ UNCHANGED <<trouble, stage, heads, records, queue, dispatched>>
        /\ \/ UNCHANGED <<commit, tree>> /\ (step' = "record" => IsPrepared(tree))
           \/ /\ tree = input.source /\ clean /\ clean'
              /\ NewCommit(tree, input.bundle.confirmation) /\ tree' = Len(commit')
        /\ clean' = clean \/ tree = input.source
        /\ PreparingOf(input.bundle)
    BY MaterializeEffect DEF Preparing, prVars
  <1>2. Round' = Round /\ Prepared' = Prepared
    BY <1>1 DEF Round, Prepared, Of
  <1>3. /\ GitShape /\ tree \in Made /\ stage \in heads /\ heads \subseteq Made
        /\ input.bundle.confirmation \in Confirmation \cup {None} /\ input.source \in heads
    BY <1>1, PrepareInput DEF Shape, WorldShape, GitShape, PreparingOf
  <1>4. /\ \A n \in Made : commit'[n] = commit[n]
        /\ step' = "record" => commit'[tree'] = [parent |-> input.source,
                                                  of |-> input.bundle.confirmation]
    <2>1. CASE UNCHANGED <<commit, tree>> /\ (step' = "record" => IsPrepared(tree))
      BY <2>1 DEF IsPrepared
    <2>2. CASE /\ tree = input.source
               /\ NewCommit(tree, input.bundle.confirmation) /\ tree' = Len(commit')
      BY <1>3, <2>2, CommitEffect
    <2> QED
      BY <1>1, <2>1, <2>2
  <1>5. Identified' /\ Derived' /\ FixIsAuthorized'
    BY <1>1, <1>2, <1>4, DerivedKept
  <1>6. StageAdvances'
    BY <1>1, <1>3 DEF Preparing, StageAdvances, Of
  <1>7. PreparedIsRecorded'
    BY <1>1, <1>2, <1>3, <1>4 DEF Preparing, PreparedIsRecorded, Prepared, Made
  <1>8. PreparationIsHere'
    BY <1>1, <1>2, <1>3 DEF Preparing, PreparationIsHere, Prepared
  <1>9. cmd' = "prepare" => PreparingOf(input.bundle)' /\ input' = input
    <2> SUFFICES ASSUME cmd' = "prepare" PROVE PreparingOf(input.bundle)' /\ input' = input
      OBVIOUS
    <2>1. step' = "record" /\ input' = input
      BY <1>1 DEF GoesOn, Stopped
    <2>2. /\ SameRound(input.bundle)' = SameRound(input.bundle)
          /\ PreparationsOf(input.bundle.round)' = PreparationsOf(input.bundle.round)
      BY <1>2, <2>1 DEF SameRound, PreparationsOf, Round, Prepared
    <2>3. stage' = stage /\ commit'[stage] = commit[stage]
      BY <1>1, <1>3, <1>4
    <2> QED
      BY <1>1, <1>4, <2>1, <2>2, <2>3 DEF PreparingOf
  <1> QED
    BY <1>5, <1>6, <1>7, <1>8, <1>9 DEF Preparing

\* The commit is recorded as the preparation of its round.
LEMMA PreparingRecord ==
    ASSUME Shape, Preparing, RecordPreparation
    PROVE  Preparing'
  <1> DEFINE b == input.bundle
             p == Preparation
  <1>1. /\ cmd = "prepare" /\ step = "record" /\ Publish(p, "push") /\ PreparingOf(b)
        /\ b \in Bundle /\ input.round \in Round
        /\ input.round.id = b.round /\ input.round.sha = input.source
        /\ input.round.confirmation = b.confirmation
    BY PrepareInput DEF RecordPreparation, Doing, Preparing, PreparingOf, Round, Of
  <1>2. /\ UNCHANGED <<trouble, gitVars, queue, dispatched>>
        /\ records' = records \/ (records' = records \cup {p} /\ ~ Conflicts(p))
        /\ Stopped \/ (p \in records' /\ step' = "push" /\ UNCHANGED <<cmd, input>>)
    BY <1>1, PublishEffect
  <1>3. /\ p.type = "FIX_PREPARED_V1" /\ p.round = b.round /\ p.sha = tree
        /\ p.source = input.source /\ p.id = b.prep
    BY DEF Preparation
  <1> HIDE DEF b, p
  <1>4. /\ Round' = Round /\ Review \subseteq Review' /\ Prepared \subseteq Prepared'
        /\ \A q \in Prepared' : q \in Prepared \/ (q = p /\ ~ Conflicts(p))
        /\ records \subseteq records'
    BY <1>2, <1>3 DEF Prepared, Review, Round, Of
  <1>5. Identified'
    <2>1. \A q \in Round \cup Prepared : ~ Conflicts(p) /\ SameIdentity(p, q) => q = p
      BY DEF Conflicts, Round, Prepared, Of
    <2>2. "replace" \notin trouble => \A q \in Prepared : q.round = p.round => q.id = p.id
      BY <1>1, <1>3 DEF PreparingOf, PreparationsOf, Prepared
    <2> QED
      BY <1>2, <1>4, <2>1, <2>2 DEF Preparing, Identified, SameIdentity
  <1>6. Derived'
    <2>1. commit[p.sha] = [parent |-> input.round.sha, of |-> input.round.confirmation]
      BY <1>1, <1>3 DEF PreparingOf, b
    <2>2. commit' = commit
      BY <1>2 DEF gitVars
    <2> QED
      BY <1>1, <1>3, <1>4, <2>1, <2>2 DEF Preparing, Derived
  <1>7. StageAdvances'
    BY <1>2, <1>3, <1>4 DEF Preparing, StageAdvances, Of, gitVars
  <1>8. PreparedIsRecorded' /\ PreparationIsHere'
    BY <1>2, <1>3, <1>4 DEF Preparing, PreparedIsRecorded, PreparationIsHere, Prepared, gitVars
  <1>9. FixIsAuthorized'
    <2> SUFFICES ASSUME NEW d \in dispatched PROVE FixOf(d)'
      BY <1>2, FixesOf
    <2>1. FixOf(d) /\ commit' = commit
      BY <1>2, FixesOf DEF Preparing, gitVars
    <2> QED
      BY <1>4, <2>1, FixKept
  <1>10. cmd' = "prepare" => PreparingOf(b)' /\ input' = input
    <2> SUFFICES ASSUME cmd' = "prepare" PROVE PreparingOf(b)' /\ input' = input
      OBVIOUS
    <2>1. p \in records' /\ step' = "push" /\ input' = input /\ UNCHANGED <<commit, stage, heads, tree>>
      BY <1>2 DEF Stopped, gitVars
    <2>2. SameRound(b)' = SameRound(b)
      BY <1>4, <2>1 DEF SameRound, Round, b
    <2>3. Preparation' = p
      BY <2>1 DEF Preparation, p
    <2>4. "replace" \notin trouble' => \A q \in PreparationsOf(b.round)' : q.id = b.prep
      BY <1>1, <1>2, <1>3, <1>4, <2>1 DEF PreparingOf, PreparationsOf, Prepared, b
    <2> QED
      BY <1>1, <1>2, <1>4, <2>1, <2>2, <2>3, <2>4 DEF PreparingOf, b, Round, Of
  <1> QED
    BY <1>5, <1>6, <1>7, <1>8, <1>9, <1>10 DEF Preparing, b

\* The Stage is brought to the commit that is recorded.
LEMMA PreparingPush ==
    ASSUME Shape, Preparing, PushPrepared
    PROVE  Preparing'
  <1>1. /\ cmd = "prepare" /\ step = "push" /\ cmd' = "none"
        /\ UNCHANGED <<trouble, commit, tree, clean, records, dispatched>>
        /\ UNCHANGED <<stage, heads, queue>> \/ (stage = input.source /\ MoveStage(tree))
        /\ Preparation \in records
    BY PushPreparedEffect DEF Preparing, PreparingOf, prVars, Stopped
  <1>2. Round' = Round /\ Prepared' = Prepared
    BY <1>1 DEF Round, Prepared, Of
  <1>3. Identified' /\ Derived' /\ FixIsAuthorized'
    BY <1>1, <1>2, DerivedKept
  <1>4. CASE UNCHANGED <<stage, heads, queue>>
    BY <1>1, <1>2, <1>3, <1>4 DEF Preparing, StageAdvances, PreparedIsRecorded,
        PreparationIsHere, Prepared, Of
  <1>5. CASE stage = input.source /\ MoveStage(tree)
    <2>1. stage' = tree /\ heads' = heads \cup {tree} /\ Enqueue("push", tree)
      BY <1>5 DEF MoveStage
    <2>2. /\ stage < tree /\ tree \in Nat /\ stage \in Nat /\ heads \subseteq Nat /\ QueueShape
      BY <1>1, <1>5, NotAtPrepared, MadeNumbers DEF Shape, WorldShape, GitShape
    <2>3. StageAdvances'
      <3>1. \A m \in heads' : m <= stage'
        <4>1. \A m \in heads : m <= stage
          BY DEF Preparing, StageAdvances
        <4> QED
          BY <2>1, <2>2, <4>1
      <3>2. \A i \in 1 .. Len(queue') : queue'[i].head \in heads'
        <4>1. /\ queue'[Len(queue')] = [kind |-> "push", head |-> tree, stop |-> 0]
              /\ Len(queue') \in {1, 2}
              /\ Len(queue') = 2 => queue # <<>> /\ queue'[1] = queue[1]
          BY <2>1, <2>2, EnqueueEffect
        <4>2. queue # <<>> => queue[1].head \in heads
          <5>1. queue # <<>> => 1 \in 1 .. Len(queue)
            BY <2>2 DEF QueueShape
          <5> QED
            BY <5>1 DEF Preparing, StageAdvances
        <4>3. queue'[Len(queue')].head \in heads'
          BY <2>1, <4>1
        <4>4. Len(queue') = 2 => queue'[1].head \in heads'
          BY <2>1, <4>1, <4>2
        <4> QED
          BY <4>1, <4>3, <4>4
      <3> QED
        BY <1>1, <2>1, <3>1, <3>2 DEF Preparing, StageAdvances, Of
    <2>4. PreparedIsRecorded'
      <3>1. Preparation \in Prepared /\ Preparation.sha = tree
        BY <1>1 DEF Preparation, Prepared, Of
      <3> QED
        BY <1>1, <1>2, <2>1, <3>1 DEF Preparing, PreparedIsRecorded, Prepared
    <2>5. PreparationIsHere'
      BY <1>1, <1>2, <2>1 DEF Preparing, PreparationIsHere, Prepared
    <2> QED
      BY <1>1, <1>3, <2>3, <2>4, <2>5 DEF Preparing
  <1> QED
    BY <1>1, <1>4, <1>5

\* A preparation may rely on its round, its commit and its record, whoever else acts.
LEMMA PreparingStep == Shape /\ Preparing /\ [Next]_vars => Preparing'
  <1> SUFFICES ASSUME Shape, Preparing, [Next]_vars PROVE Preparing'
    OBVIOUS
  <1>1. \A i \in 1 .. Len(queue) : queue[i].head \in heads
    BY DEF Preparing, StageAdvances
  <1>2. ASSUME UNCHANGED <<trouble, commit, stage, heads, tree, clean, queue, dispatched>>,
               UNCHANGED <<cmd, step, input>> \/ cmd' # "prepare",
               records' = records
                  \/ \E r : /\ records' = records \cup {r}
                            /\ r.type \in DecisionType \cup {"STAGE_CLOSED_V1"}
        PROVE  Preparing'
    <2>1. Round' = Round /\ Prepared' = Prepared /\ records \subseteq records'
      BY <1>2 DEF Round, Prepared, Of, DecisionType
    <2>2. \A r \in Of("STAGE_VERIFICATION_V1")' \cup Of("CHAT_REVIEW_HANDOFF_V1")' : r \in records
      BY <1>2 DEF Of, DecisionType
    <2> QED
      BY <1>1, <1>2, <2>1, <2>2, PreparingQuiet
  <1>3. CASE PublishRecord
    <2>1. Publish(input, "done") /\ input.type \in DecisionType
      BY <1>3 DEF PublishRecord, Doing, Shape, CommandForm
    <2>2. Stopped
      BY <2>1 DEF Publish, Mutation, Go, End, Stopped
    <2> QED
      BY <1>2, <2>1, <2>2, PublishEffect DEF gitVars, Stopped
  <1>4. CASE RecordClosed
    <2>1. /\ cmd = "close" /\ Publish(Closed(input), "repo_label")
          /\ Closed(input).type = "STAGE_CLOSED_V1"
      BY <1>4 DEF RecordClosed, Doing, Closed
    <2>2. cmd' # "prepare"
      BY <2>1, PublishEffect DEF Stopped
    <2> QED
      BY <1>2, <2>1, <2>2, PublishEffect DEF gitVars
  <1>5. CASE PushMain
    BY <1>2, <1>5, PushMainEffect DEF GoesOn, Stopped, prVars
  <1>6. CASE CreateRepoLabel \/ ProjectTerminalLabels \/ ClosePullRequest
    BY <1>2, <1>6, TraceEffect DEF GoesOn, Stopped, gitVars
  <1>7. CASE Crash
    BY <1>2, <1>7 DEF Crash, End, world, gitVars, prVars
  <1>8. CASE UNCHANGED vars
    BY <1>2, <1>8 DEF vars, world, gitVars, prVars, cmdVars
  <1> QED
    BY <1>3, <1>4, <1>5, <1>6, <1>7, <1>8, PreparingOthers, PreparingCommand, PreparingRound,
       PreparingMaterialize, PreparingRecord, PreparingPush DEF Next, Others, Write

\* Preparations agree for ever.
LEMMA PreparingAlways == Spec => []Preparing
  <1>1. Init => Preparing
    <2> SUFFICES ASSUME Init PROVE Preparing
      OBVIOUS
    <2>1. /\ Round = {} /\ Prepared = {} /\ Of("STAGE_VERIFICATION_V1") = {}
          /\ Of("CHAT_REVIEW_HANDOFF_V1") = {}
      BY DEF Init, Round, Prepared, Of, Candidate
    <2>2. PreparedIsRecorded
      BY DEF Init, PreparedIsRecorded
    <2> QED
      BY <2>1, <2>2 DEF Init, Preparing, Identified, Derived, StageAdvances, PreparationIsHere,
          FixIsAuthorized, Round, Prepared
  <1> QED
    BY <1>1, ShapeAlways, PreparingStep, PTL DEF Spec

\* Confirmations, rounds, preparations and commits correspond, on the pull request and in
\* Git, whatever calls of prepare-fix have died half way, repeat each other, or are overtaken
\* by pushes of others: one round of a confirmation, one round of a commit, and one
\* preparation of a round, unless a caller replaces it.
THEOREM PreparationsAlwaysAgree == Spec => []PreparationsAgree
  <1>1. Preparing => OnePreparation
    <2> SUFFICES ASSUME Preparing PROVE OnePreparation
      OBVIOUS
    <2>1. ASSUME NEW p \in Prepared, NEW q \in Prepared, p.sha = q.sha
          PROVE  p.round = q.round
      <3>1. PICK r \in Round : /\ r.id = p.round
                               /\ commit[p.sha] = [parent |-> r.sha, of |-> r.confirmation]
        BY DEF Preparing, Derived
      <3>2. PICK s \in Round : /\ s.id = q.round
                               /\ commit[q.sha] = [parent |-> s.sha, of |-> s.confirmation]
        BY DEF Preparing, Derived
      <3>3. r.confirmation = s.confirmation
        BY <2>1, <3>1, <3>2
      <3> QED
        BY <3>1, <3>2, <3>3 DEF Preparing, Identified
    <2>2. ASSUME NEW p \in Prepared, NEW q \in Prepared, "replace" \notin trouble,
                 p.round = q.round
          PROVE  p = q
      <3>1. p.id = q.id
        BY <2>2 DEF Preparing, Identified
      <3> QED
        BY <3>1 DEF Preparing, Identified, SameIdentity, Prepared, Of
    <2> QED
      BY <2>1, <2>2 DEF OnePreparation, Preparing, Identified, Round, Prepared
  <1>2. Preparing => PreparationsAgree
    BY <1>1 DEF Preparing, PreparationsAgree
  <1> QED
    BY <1>2, PreparingAlways, PTL

\* The fix that is dispatched is the commit that was made for the confirmation on top of the
\* reviewed Stage, verified, handed over and accepted as such.
THEOREM FixesAreAuthorized == Spec => []FixIsAuthorized
  <1>1. Preparing => FixIsAuthorized
    BY DEF Preparing
  <1> QED
    BY <1>1, PreparingAlways, PTL

-----------------------------------------------------------------------------
(* Failures of the workflow.                                                *)

\* A run of the workflow is known to have failed with readiness still up only when it
\* answers a push, and stays known.
LEMMA FailedGrows ==
    ASSUME [Next]_vars
    PROVE  \/ UNCHANGED failed
           \/ Invalidate /\ failed' = failed \cup {EventHead}
  <1>1. Write => UNCHANGED failed
    BY PublishEffect DEF Write, PublishRecord, OpenRound, RecordPreparation, RecordClosed,
        Materialize, PushPrepared, PushMain, CreateRepoLabel, ProjectTerminalLabels,
        ClosePullRequest
  <1>2. Command \/ Crash \/ UNCHANGED vars => UNCHANGED failed
    BY DEF Command, RecordReview, RecordFixAcceptance, RecordStageAcceptance, PrepareFix,
        CloseStage, Begin, Crash, vars, world
  <1>3. Workflow => UNCHANGED failed \/ (Invalidate /\ failed' = failed \cup {EventHead})
    BY DEF Workflow, Invalidate, OpenAnother, PublishDispatchReady, VerifyPrepared, HandOverFix,
        VerifyCandidate, HandOverReview, ConfirmReview
  <1>4. Fixing \/ Around => UNCHANGED failed
    BY DEF Fixing, Dispatch, IntegrateFix, AnnounceCandidate, Around, Authorize, DisturbStage,
        DisturbMain, NoticeMerge, ResetWorktree, CalmDown, world
  <1> QED
    BY <1>1, <1>2, <1>3, <1>4 DEF Next

\* The Stage has been where it has been.
LEMMA HeadsGrow ==
    ASSUME Shape, [Next]_vars
    PROVE  heads \subseteq heads'
  <1>1. Write => heads \subseteq heads'
    BY PublishEffect, MaterializeEffect, PushPreparedEffect, PushMainEffect, TraceEffect
      DEF Write, PublishRecord, OpenRound, RecordPreparation, RecordClosed, MoveStage, gitVars
  <1>2. Command \/ Crash \/ UNCHANGED vars => UNCHANGED heads
    BY CommandShape DEF Crash, vars, world, gitVars
  <1>3. Workflow => UNCHANGED heads
    BY DEF Workflow, Invalidate, OpenAnother, PublishDispatchReady, VerifyPrepared, HandOverFix,
        VerifyCandidate, HandOverReview, ConfirmReview, gitVars
  <1>4. Fixing \/ Around => heads \subseteq heads'
    BY DEF Fixing, Dispatch, IntegrateFix, AnnounceCandidate, Around, Authorize, DisturbStage,
        DisturbMain, NoticeMerge, ResetWorktree, CalmDown, world, gitVars, MoveStage
  <1> QED
    BY <1>1, <1>2, <1>3, <1>4 DEF Next

\* The workflow has failed on commits of the Stage only.
LEMMA FailedStep ==
    Shape /\ Preparing /\ failed \subseteq heads /\ [Next]_vars => (failed \subseteq heads)'
  <1> SUFFICES ASSUME Shape, Preparing, failed \subseteq heads, [Next]_vars
               PROVE  failed' \subseteq heads'
    OBVIOUS
  <1>1. Invalidate => EventHead \in heads
    <2>1. Invalidate => 1 \in 1 .. Len(queue)
      BY DEF Invalidate, Answering, Shape, WorldShape, QueueShape
    <2> QED
      BY <2>1 DEF Preparing, StageAdvances, EventHead
  <1> QED
    BY <1>1, FailedGrows, HeadsGrow

\* Every variable of the lifecycle keeps its type: commits of the Stage, the labels and the
\* states GitHub knows, at most two events in the concurrency group.
THEOREM LifecycleIsTyped == Spec => []BridgeLifecycleTypeOK
  <1>1. Init => Flags /\ failed \subseteq heads
    BY Zenon DEF Init, Flags
  <1>2. ASSUME Shape, Observed, Flags, failed \subseteq heads PROVE BridgeLifecycleTypeOK
    <2>1. GitShape /\ PrShape /\ QueueShape /\ trouble \in Fault /\ CommandForm
      BY <1>2 DEF Shape, WorldShape
    <2>2. Made \subseteq Sha /\ 0 \in Sha /\ MaxCommit + 1 \in Sha
      BY <2>1, MadeNumbers, CommitAssumption DEF Sha, GitShape
    <2>3. {stage, main, tree} \subseteq Sha /\ heads \cup landed \cup failed \subseteq Sha
      BY <1>2, <2>1, <2>2 DEF GitShape
    <2>4. calm \in BOOLEAN /\ {clean, repoLabel, draft, seen, wrote} \subseteq BOOLEAN
      BY <1>2 DEF Flags, Observed
    <2>5. /\ trouble \in Fault /\ commit \in Seq([parent : Sha, of : Confirmation \cup {None}])
          /\ label \subseteq {"codex-stage-candidate", "codex-dispatch-ready", "chat-review",
                              "codex-stage-closed"}
          /\ pr \in {"OPEN", "CLOSED", "MERGED"}
          /\ Len(queue) <= 2
          /\ cmd \in {"none", "record", "prepare", "close"}
      BY <2>1 DEF GitShape, PrShape, QueueShape, CommandForm
    <2> QED
      BY <2>3, <2>4, <2>5 DEF BridgeLifecycleTypeOK
  <1> QED
    BY <1>1, <1>2, ShapeAlways, PreparingAlways, ObservedInit, ObservedStep, FlagsStep,
       FailedStep, PTL DEF Spec

-----------------------------------------------------------------------------
(* Readiness for review.                                                    *)

\* A step that is no event's, moves no Stage, dispatches nothing and verifies nothing.
LEMMA ReadinessQuiet ==
    ASSUME Shape, Preparing, Readiness, UNCHANGED <<queue, stage, dispatched>>,
           \A n \in Made : commit'[n] = commit[n],
           "chat-review" \in label' => "chat-review" \in label,
           records \subseteq records', pr' = "OPEN" => pr = "OPEN", failed \subseteq failed',
           Of("STAGE_VERIFICATION_V1")' = Of("STAGE_VERIFICATION_V1")
    PROVE  Readiness'
  <1>1. stage \in Made /\ \A i \in 1 .. Len(queue) : queue[i].head \in Made
    BY DEF Shape, WorldShape, GitShape, Preparing, StageAdvances
  <1>2. EventsInOrder'
    BY <1>1 DEF Readiness, EventsInOrder
  <1>3. "chat-review" \in label' => ReadyStage'
    BY <1>1 DEF Readiness, ReadyStage, PushIsLast, ReviewHandoff
  <1> QED
    BY <1>2, <1>3 DEF Readiness

\* Answering an event brings the next one up as it came.
LEMMA AnsweredQueue ==
    ASSUME QueueShape, EventsInOrder, queue # <<>>, commit' = commit, stage' = stage,
           (queue[1].stop \in 0 .. 1 /\ Proceed) \/ Leave
    PROVE  /\ EventsInOrder'
           /\ queue' # <<>> /\ queue'[1].kind = "push" =>
                 queue'[1].stop = 0 \/ queue[1].kind = "push"
           /\ Leave /\ queue' # <<>> => queue'[1].stop = 0
           /\ PushIsLast /\ queue[1].kind = "candidate" => PushIsLast'
           /\ PushIsLast /\ Leave => PushIsLast' \/ queue[1].head = stage
  <1>0. Len(queue) \in Nat /\ Len(queue) # 0 /\ Len(queue) <= 2
    BY EmptySeq, LenProperties DEF QueueShape
  <1>1. Len(queue) \in Nat /\ 1 \in 1 .. Len(queue)
    BY <1>0
  <1>n. \A n \in Nat : n # 0 /\ n <= 2 => n = 1 \/ n = 2
    OBVIOUS
  <1>2. Len(queue) = 1 \/ Len(queue) = 2
    BY <1>0, <1>n, Zenon
  <1>3. CASE queue[1].stop \in 0 .. 1 /\ Proceed
    <2>1. /\ Len(queue') = Len(queue) /\ queue'[1].head = queue[1].head
          /\ queue'[1].kind = queue[1].kind /\ queue' # <<>>
          /\ \A i \in 2 .. Len(queue) : queue'[i] = queue[i]
      BY <1>3, ProceedEffect
    <2>2. Len(queue) = 2 => queue'[2] = queue[2]
      BY <2>1
    <2>3. EventsInOrder'
      BY <1>1, <1>2, <2>1, <2>2 DEF EventsInOrder
    <2>4. PushIsLast /\ queue[1].kind = "candidate" => PushIsLast'
      BY <1>2, <2>1, <2>2 DEF PushIsLast
    <2>5. ~ Leave
      <3>1. Leave => Len(queue') = Len(queue) - 1
        BY LeaveEffect
      <3> QED
        BY <1>1, <2>1, <3>1
    <2> QED
      BY <2>1, <2>3, <2>4, <2>5
  <1>4. CASE Leave
    <2>1. /\ Len(queue') = Len(queue) - 1 /\ \A i \in 1 .. Len(queue') : queue'[i] = queue[i + 1]
          /\ Len(queue') = 0 <=> queue' = <<>>
      BY <1>4, LeaveEffect
    <2>2. CASE Len(queue) = 1
      <3>1. Len(queue') = 0 /\ queue' = <<>>
        BY <2>1, <2>2
      <3>2. ~ (PushIsLast /\ queue[1].kind = "candidate")
        BY <2>2 DEF PushIsLast
      <3>3. PushIsLast => queue[1].head = stage
        BY <2>2 DEF PushIsLast
      <3> QED
        BY <3>1, <3>2, <3>3 DEF EventsInOrder
    <2>3. CASE Len(queue) = 2
      <3>1. Len(queue') = 1 /\ queue'[1] = queue[2] /\ queue' # <<>> /\ queue[2].stop = 0
        BY <2>1, <2>3 DEF EventsInOrder
      <3>2. EventsInOrder'
        <4>1. 2 \in 1 .. Len(queue)
          BY <2>3
        <4> QED
          BY <3>1, <4>1 DEF EventsInOrder
      <3>3. PushIsLast => PushIsLast'
        BY <2>3, <3>1 DEF PushIsLast
      <3> QED
        BY <3>1, <3>2, <3>3
    <2> QED
      BY <1>2, <2>2, <2>3
  <1> QED
    BY <1>3, <1>4

\* An event of a commit that is the latest one waits behind the running event, or runs.
LEMMA EnqueuedLast ==
    ASSUME QueueShape, EventsInOrder, NEW kind \in {"push", "candidate"}, NEW head \in Nat,
           Enqueue(kind, head), \A i \in 1 .. Len(queue) : commit'[queue[i].head] = commit[queue[i].head],
           kind = "candidate" => commit'[head].of = None
    PROVE  /\ EventsInOrder'
           /\ kind = "push" /\ head = stage' => PushIsLast'
           /\ queue' # <<>>
           /\ (queue # <<>> /\ queue'[1] = queue[1]) \/ queue'[1].stop = 0
  <1>1. /\ Len(queue') \in {1, 2} /\ queue' # <<>>
        /\ queue'[Len(queue')] = [kind |-> kind, head |-> head, stop |-> 0]
        /\ IF queue = <<>> THEN Len(queue') = 1 ELSE Len(queue') = 2 /\ queue'[1] = queue[1]
    BY EnqueueEffect
  <1>2. queue # <<>> => 1 \in 1 .. Len(queue)
    BY DEF QueueShape
  <1>3. CASE Len(queue') = 1
    BY <1>1, <1>3 DEF EventsInOrder, PushIsLast
  <1>4. CASE Len(queue') = 2
    <2>1. queue # <<>> /\ queue'[1] = queue[1]
      BY <1>1, <1>4
    <2>2. EventsInOrder'
      <3>1. queue'[1].kind = "candidate" => commit'[queue'[1].head].of = None
        BY <1>2, <2>1 DEF EventsInOrder
      <3>2. queue'[2].kind = "candidate" => commit'[queue'[2].head].of = None
        BY <1>1, <1>4
      <3>3. \A i \in 1 .. Len(queue') : i = 1 \/ i = 2
        BY <1>4
      <3> QED
        BY <1>1, <1>4, <3>1, <3>2, <3>3 DEF EventsInOrder
    <2> QED
      BY <1>1, <1>4, <2>1, <2>2 DEF PushIsLast
  <1> QED
    BY <1>1, <1>3, <1>4

\* The workflow takes readiness back before it answers anything else, and gives it only to
\* the Stage it hands over.
LEMMA ReadinessWorkflow ==
    ASSUME Shape, Preparing, Readiness, Workflow
    PROVE  Readiness'
  <1>1. /\ QueueShape /\ EventsInOrder /\ UNCHANGED <<commit, stage, dispatched>>
        /\ queue # <<>>
        /\ (queue[1].stop \in 0 .. 1 /\ Proceed) \/ Leave
    BY WorkflowQueue DEF Shape, WorldShape, Readiness, Workflow, Invalidate, OpenAnother,
        PublishDispatchReady, VerifyPrepared, HandOverFix, VerifyCandidate, HandOverReview,
        ConfirmReview, gitVars
  <1>2. /\ EventsInOrder'
        /\ queue' # <<>> /\ queue'[1].kind = "push" =>
              queue'[1].stop = 0 \/ queue[1].kind = "push"
        /\ Leave /\ queue' # <<>> => queue'[1].stop = 0
        /\ PushIsLast /\ queue[1].kind = "candidate" => PushIsLast'
        /\ PushIsLast /\ Leave => PushIsLast' \/ queue[1].head = stage
    BY <1>1, AnsweredQueue
  <1>f. failed \subseteq failed'
    BY FailedGrows DEF Next
  <1>3. CASE Invalidate
    <2>1. CASE label' = label \ {"chat-review"}
      BY <1>2, <2>1 DEF Readiness
    <2>2. CASE Leave /\ failed' = failed \cup {EventHead} /\ UNCHANGED label
      <3>1. UNCHANGED <<records, pr>>
        BY <1>3 DEF Invalidate
      <3>2. PushIsLast => PushIsLast' \/ stage \in failed'
        BY <1>2, <2>2 DEF EventHead
      <3>3. "chat-review" \in label' => ReadyStage'
        BY <1>1, <1>2, <1>f, <2>2, <3>1, <3>2 DEF Readiness, ReadyStage, Of, ReviewHandoff
      <3> QED
        BY <1>2, <3>3 DEF Readiness
    <2> QED
      BY <1>3, <2>1, <2>2 DEF Invalidate
  <1>4. CASE PublishDispatchReady \/ VerifyPrepared \/ HandOverFix
    <2>1. queue[1].kind = "push" /\ queue[1].stop # 0
      BY <1>4 DEF PublishDispatchReady, VerifyPrepared, HandOverFix, Answering
    <2>2. "chat-review" \notin label
      BY <1>1, <2>1 DEF Readiness, ReadyStage
    <2>3. "chat-review" \notin label'
      BY <1>4, <2>2 DEF PublishDispatchReady, VerifyPrepared, HandOverFix
    <2> QED
      BY <1>2, <2>3 DEF Readiness
  <1>5. CASE OpenAnother
    <2>1. Leave /\ UNCHANGED <<records, label, pr>> /\ pr # "OPEN"
      BY <1>5 DEF OpenAnother, prVars
    <2>2. "chat-review" \in label' => ReadyStage'
      BY <1>1, <1>2, <2>1 DEF Readiness, ReadyStage, Of, ReviewHandoff
    <2> QED
      BY <1>2, <2>2 DEF Readiness
  <1>6. queue[1].kind = "candidate" => commit[EventHead].of = None
    <2>1. 1 \in 1 .. Len(queue)
      BY <1>1 DEF QueueShape
    <2> QED
      BY <2>1 DEF Readiness, EventsInOrder, EventHead
  <1>7. ASSUME queue[1].kind = "candidate", UNCHANGED pr, records \subseteq records',
               "chat-review" \in label' => "chat-review" \in label,
               \/ Of("STAGE_VERIFICATION_V1")' = Of("STAGE_VERIFICATION_V1")
               \/ commit[stage].of = None
        PROVE  Readiness'
    <2>1. "chat-review" \in label' => ReadyStage'
      BY <1>1, <1>2, <1>f, <1>7 DEF Readiness, ReadyStage, ReviewHandoff
    <2> QED
      BY <1>2, <2>1 DEF Readiness
  <1>8. CASE VerifyCandidate
    <2>1. queue[1].kind = "candidate" /\ UNCHANGED <<pr, label>> /\ records \subseteq records'
      BY <1>8 DEF VerifyCandidate, Answering
    <2>2. EventHead = stage \/ UNCHANGED records
      BY <1>8 DEF VerifyCandidate
    <2> QED
      BY <1>6, <1>7, <2>1, <2>2 DEF Of
  <1>9. CASE HandOverReview
    <2>1. queue[1].kind = "candidate" /\ UNCHANGED pr
      BY <1>9 DEF HandOverReview, Answering
    <2>2. CASE EventHead = stage /\ records' = records \cup {ReviewHandoff(EventHead)}
      <3>1. commit'[stage'].of = None
        BY <1>1, <1>6, <2>1, <2>2
      <3>2. ReviewHandoff(stage)' \in records'
        BY <1>1, <2>2 DEF ReviewHandoff
      <3> QED
        BY <1>2, <2>1, <3>1, <3>2 DEF Readiness, ReadyStage
    <2>3. CASE UNCHANGED <<records, label>>
      BY <1>7, <2>1, <2>3 DEF Of
    <2> QED
      BY <1>9, <2>2, <2>3 DEF HandOverReview
  <1>10. CASE ConfirmReview
    BY <1>7, <1>10 DEF ConfirmReview, Answering, Of
  <1> QED
    BY <1>3, <1>4, <1>5, <1>8, <1>9, <1>10 DEF Workflow

\* A Stage that moves leaves its readiness to the push that announces it: its new commit is
\* verified by nobody yet, and a dispatched fix was not ready when it was integrated.
LEMMA ReadinessMoves ==
    ASSUME Shape, Preparing, Readiness, NEW n \in Nat, MoveStage(n),
           \A m \in Made : commit'[m] = commit[m], n \notin heads,
           \/ commit'[n] = [parent |-> stage, of |-> None]
           \/ commit'[n].of # None,
           UNCHANGED <<records, label, pr, dispatched>>
    PROVE  Readiness'
  <1>1. /\ QueueShape /\ EventsInOrder /\ stage \in heads /\ heads \subseteq Made
        /\ \A i \in 1 .. Len(queue) : queue[i].head \in Made
    BY DEF Shape, WorldShape, GitShape, Readiness, Preparing, StageAdvances
  <1>2. stage' = n /\ Enqueue("push", n)
    BY DEF MoveStage
  <1>3. /\ EventsInOrder' /\ PushIsLast' /\ queue' # <<>>
        /\ (queue # <<>> /\ queue'[1] = queue[1]) \/ queue'[1].stop = 0
    BY <1>1, <1>2, EnqueuedLast
  <1>4. \A r \in Of("STAGE_VERIFICATION_V1") : r.sha # n
    BY DEF Preparing, StageAdvances
  <1>5. ASSUME "chat-review" \in label, NEW d \in dispatched, d.sha = stage
        PROVE  FALSE
    <2>1. PICK p \in Prepared, r \in Round, v \in Review, a \in Of("FIX_BUNDLE_ACCEPTANCE_V1") :
             /\ p.sha = d.sha
             /\ commit[d.sha] = [parent |-> v.sha, of |-> r.confirmation]
             /\ Verification(p.id, d.sha) \in records
      BY FixesOf DEF Preparing, FixOf
    <2>2. commit[stage].of # None
      BY <1>5, <2>1, NoneAssumption DEF Preparing, Derived
    <2>3. Verification(p.id, stage) \in Of("STAGE_VERIFICATION_V1")
      BY <1>5, <2>1 DEF Of, Verification
    <2> QED
      BY <1>5, <2>2, <2>3 DEF Readiness, ReadyStage, Verification
  <1>6. "chat-review" \in label' => ReadyStage'
    BY <1>2, <1>3, <1>4, <1>5 DEF Readiness, ReadyStage, Of
  <1> QED
    BY <1>3, <1>6 DEF Readiness

\* Readiness follows the Stage through every step.
LEMMA ReadinessStep == Shape /\ Preparing /\ Readiness /\ [Next]_vars => Readiness'
  <1> SUFFICES ASSUME Shape, Preparing, Readiness, [Next]_vars PROVE Readiness'
    OBVIOUS
  <1>1. /\ QueueShape /\ GitShape /\ stage \in Made /\ stage \in heads /\ heads \subseteq Made
        /\ Made \subseteq Nat /\ \A m \in heads : m <= stage
        /\ \A i \in 1 .. Len(queue) : queue[i].head \in Made
        /\ EventsInOrder /\ records \subseteq records' /\ failed \subseteq failed'
    BY MadeNumbers, ShapeStep, FailedGrows DEF Shape, WorldShape, GitShape, Preparing, StageAdvances, Readiness
  <1>2. ASSUME UNCHANGED <<queue, stage, dispatched, commit>>,
               "chat-review" \in label' => "chat-review" \in label,
               pr' = "OPEN" => pr = "OPEN",
               \A r \in records' \ records : r.type # "STAGE_VERIFICATION_V1"
        PROVE  Readiness'
    <2>1. Of("STAGE_VERIFICATION_V1")' = Of("STAGE_VERIFICATION_V1")
      BY <1>1, <1>2 DEF Of
    <2> QED
      BY <1>1, <1>2, <2>1, ReadinessQuiet
  <1>3. CASE IntegrateFix \/ DisturbStage
    <2>1. /\ NewCommit(stage, None) /\ MoveStage(Len(commit'))
          /\ UNCHANGED <<records, label, pr, dispatched>>
      BY <1>3 DEF IntegrateFix, DisturbStage, prVars
    <2>2. /\ Len(commit') \in Nat /\ Len(commit') \notin Made
          /\ \A m \in Made : commit'[m] = commit[m]
          /\ commit'[Len(commit')] = [parent |-> stage, of |-> None]
      BY <1>1, <2>1, CommitEffect
    <2> DEFINE n == Len(commit')
    <2>3. n \in Nat /\ n \notin heads /\ MoveStage(n) /\ commit'[n] = [parent |-> stage, of |-> None]
      BY <1>1, <2>1, <2>2
    <2> HIDE DEF n
    <2> QED
      BY <2>1, <2>2, <2>3, ReadinessMoves
  <1>4. CASE PushPrepared
    <2>1. /\ UNCHANGED <<commit, records, label, pr, dispatched>>
          /\ cmd = "prepare" /\ step = "push"
          /\ UNCHANGED <<stage, heads, queue>> \/ (stage = input.source /\ MoveStage(tree))
      BY <1>4, PushPreparedEffect DEF prVars
    <2>2. stage = input.source => tree \notin heads /\ tree \in Nat
      BY <1>1, <2>1, NotAtPrepared DEF GitShape
    <2>3. commit'[tree].of # None
      BY <2>1, NotAtPrepared
    <2> QED
      BY <1>2, <2>1, <2>2, <2>3, ReadinessMoves
  <1>5. CASE Dispatch
    <2>1. /\ UNCHANGED <<commit, stage, queue, records, label, pr>>
          /\ \A d \in dispatched' : d \in dispatched \/ d.sha = stage
      BY <1>5 DEF Dispatch, CurrentPreparations, gitVars, prVars
    <2>2. commit[stage].parent # stage
      BY <1>1 DEF GitShape
    <2>3. EventsInOrder' /\ ("chat-review" \in label' => ReadyStage')
      BY <1>1, <2>1, <2>2 DEF Readiness, EventsInOrder, ReadyStage, PushIsLast, ReviewHandoff, Of
    <2> QED
      BY <2>3 DEF Readiness
  <1>6. CASE AnnounceCandidate
    <2>1. /\ commit[stage].of = None /\ \E d \in dispatched : d.sha = commit[stage].parent
          /\ "chat-review" \in label' => "chat-review" \in label
          /\ Enqueue("candidate", stage) /\ UNCHANGED <<commit, stage, pr, dispatched>>
      BY <1>6 DEF AnnounceCandidate, gitVars
    <2>2. /\ EventsInOrder' /\ queue' # <<>>
          /\ (queue # <<>> /\ queue'[1] = queue[1]) \/ queue'[1].stop = 0
      BY <1>1, <2>1, EnqueuedLast
    <2>3. "chat-review" \in label => ReviewHandoff(stage)' \in records'
      BY <1>1, <2>1 DEF Readiness, ReadyStage, ReviewHandoff
    <2>4. "chat-review" \in label' => ReadyStage'
      BY <2>1, <2>2, <2>3 DEF Readiness, ReadyStage
    <2> QED
      BY <2>2, <2>4 DEF Readiness
  <1>7. CASE Materialize
    <2>1. /\ UNCHANGED <<stage, queue, records, label, pr, dispatched>>
          /\ UNCHANGED commit \/ NewCommit(tree, input.bundle.confirmation)
          /\ input.bundle.confirmation \in Confirmation \cup {None}
      BY <1>7, MaterializeEffect, PrepareInput DEF prVars
    <2>2. \A m \in Made : commit'[m] = commit[m]
      BY <1>1, <2>1, CommitEffect DEF GitShape
    <2> QED
      BY <1>1, <2>1, <2>2, ReadinessQuiet DEF Of
  <1>8. ASSUME NEW r, NEW next, Publish(r, next), r.type # "STAGE_VERIFICATION_V1" PROVE Readiness'
    BY <1>2, <1>8, PublishEffect DEF gitVars
  <1>9. CASE PublishRecord \/ OpenRound \/ RecordPreparation \/ RecordClosed
    <2>1. \E r, next : Publish(r, next) /\ r.type # "STAGE_VERIFICATION_V1"
      <3>1. CASE PublishRecord
        BY <3>1 DEF PublishRecord, Doing, Shape, CommandForm, DecisionType
      <3>2. CASE OpenRound
        <4>1. cmd = "prepare" /\ Publish(input.round, "commit")
          BY <3>2 DEF OpenRound, Doing
        <4> QED
          BY <4>1, PrepareInput
      <3>3. CASE RecordPreparation
        BY <3>3 DEF RecordPreparation, Preparation
      <3>4. CASE RecordClosed
        BY <3>4 DEF RecordClosed, Closed
      <3> QED
        BY <1>9, <3>1, <3>2, <3>3, <3>4
    <2> QED
      BY <1>8, <2>1
  <1>10. CASE PushMain
    BY <1>2, <1>10, PushMainEffect DEF prVars
  <1>11. CASE CreateRepoLabel \/ ProjectTerminalLabels \/ ClosePullRequest
    <2>1. /\ UNCHANGED <<queue, stage, dispatched, commit, records>>
          /\ label' = label \/ label' = Terminal
          /\ pr' = pr \/ pr' = "CLOSED"
      BY <1>11, TraceEffect DEF gitVars
    <2>2. "chat-review" \in label' => "chat-review" \in label
      BY <2>1 DEF Terminal
    <2> QED
      BY <1>2, <2>1, <2>2
  <1>12. CASE Command
    BY <1>2, <1>12, CommandShape DEF world, gitVars, prVars
  <1>13. CASE Crash
    BY <1>2, <1>13 DEF Crash, world, gitVars, prVars
  <1>14. CASE UNCHANGED vars
    BY <1>2, <1>14 DEF vars, world, gitVars, prVars
  <1>15. ASSUME NEW id \in AuthorizationId, Authorize(id) PROVE Readiness'
    BY <1>2, <1>15 DEF Authorize, gitVars
  <1>16. CASE DisturbMain \/ NoticeMerge \/ ResetWorktree \/ CalmDown
    BY <1>2, <1>16 DEF DisturbMain, NoticeMerge, ResetWorktree, CalmDown, world, gitVars, prVars
  <1> QED
    BY <1>3, <1>4, <1>5, <1>6, <1>7, <1>9, <1>10, <1>11, <1>12, <1>13, <1>14, <1>15, <1>16,
       ReadinessWorkflow DEF Next, Write, Fixing, Around

\* An open pull request that is ready for review shows a Stage that was verified and handed
\* over, or the workflow has still to answer for the commits that came after it, or it failed
\* on the push of this very commit with readiness still up: whatever event of the Stage's
\* concurrency group replaces another one, and whichever job fails.
THEOREM ReadyStagesAreReviewed == Spec => []ReadyIsReviewed
  <1>1. Init => Readiness
    BY DEF Init, Readiness, EventsInOrder
  <1>2. Readiness => ReadyIsReviewed
    BY DEF Readiness, ReadyStage, ReadyIsReviewed, PushIsLast
  <1> QED
    BY <1>1, <1>2, ShapeAlways, PreparingAlways, ReadinessStep, PTL DEF Spec

=============================================================================
