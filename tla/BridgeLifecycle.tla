-------------------------- MODULE BridgeLifecycle --------------------------
(***************************************************************************)
(* The lifecycle of a Stage after its first candidate (the Local Codex      *)
(* Bridge's record-review, prepare-fix, record-acceptance and close-stage,  *)
(* and the workflow of the Stage branch): the Stage is reviewed, a          *)
(* confirmed fix is prepared, accepted and dispatched, and the accepted     *)
(* Stage becomes main.                                                      *)
(*                                                                         *)
(* All that is durable is on the pull request and in Git.  A command reads  *)
(* it, checks what it was asked for against it, and then makes its writes   *)
(* one by one (runObservedMutation): each may be found made, fail before    *)
(* anything is written, or end with its outcome unknown, and the command    *)
(* may die between any two.  A refused command writes nothing and is not an *)
(* action.  One command runs at a time; the workflow, the Bridge's run over *)
(* the fix tasks (module Bridge) and other users of Git interleave with it. *)
(*                                                                         *)
(* A commit is its number, in the order commits are made.  A bundle of      *)
(* files and the tasks it names are the confirmation they were made for.    *)
(***************************************************************************)
EXTENDS Naturals, FiniteSets, Sequences

CONSTANTS
    Confirmation,  \* solutions the user has confirmed
    Bundle,        \* what callers of prepare-fix pass: [confirmation, round, prep]
    ReviewId,      \* review_id's given by the fixed chat
    AcceptanceId,  \* acceptance_id's given by the user
    AuthorizationId, \* closure_authorization_id's given by the user
    Fault,         \* the sets of troubles a behaviour may meet
    None,          \* no record, no confirmation
    MaxCommit      \* bound: commits on and beside the Stage

ASSUME CommitAssumption == MaxCommit \in Nat \ {0}

ASSUME NoneAssumption == None \notin Confirmation

ASSUME BundleAssumption == \A b \in Bundle : b.confirmation \in Confirmation

VARIABLES
    trouble,    \* what may go wrong in this behaviour
    calm,       \* nothing goes wrong any more
    \* Git
    commit,     \* commit[n]: [parent, of], of the confirmation it prepares, or None
    stage,      \* the Stage branch on origin, and the head of the pull request
    heads,      \* the commits it has been at
    main,       \* main on origin; 0 is the expected baseline
    landed,     \* accepted commits main has been at
    tree,       \* HEAD of the local Stage worktree
    clean,      \* whether it is clean
    \* the pull request
    records,    \* structured records and handoffs in comments
    label,
    repoLabel,  \* the repository has the label codex-stage-closed
    draft,
    pr,         \* OPEN, CLOSED or MERGED
    queue,      \* the Stage's workflow: the running event, the latest pending one
    failed,     \* commits on whose push the workflow failed with readiness still up
    dispatched, \* the fix bundles that passed the batch gate: [prep, sha]
    \* the command that runs
    cmd,
    step,       \* its next write
    input,      \* what it works on
    seen,       \* its mutationObserved
    wrote,      \* whether it has written anything
    report      \* how the latest command ended: [class, wrote]

gitVars == <<commit, stage, heads, main, landed, tree, clean>>
prVars  == <<records, label, repoLabel, draft, pr>>
world   == <<gitVars, prVars, queue, failed, dispatched>>
cmdVars == <<cmd, step, input, seen, wrote, report>>
vars    == <<trouble, calm, world, cmdVars>>

Goes(kind) == kind \in trouble /\ ~ calm

Of(type) == {r \in records : r.type = type}

ExactlyOne(S) == Cardinality(S) = 1

Verification(for, sha) == [type |-> "STAGE_VERIFICATION_V1", for |-> for, sha |-> sha]
Candidate(sha)         == [type |-> "LOCAL_CODEX_STAGE_CANDIDATE_V1", sha |-> sha]
ReviewHandoff(sha)     == [type |-> "CHAT_REVIEW_HANDOFF_V1", sha |-> sha]
FixHandoff(p)          == [type |-> "FIX_DISPATCH_HANDOFF_V1", prep |-> p.id, round |-> p.round,
                           sha |-> p.sha]

-----------------------------------------------------------------------------
(* The writes of a command.                                                 *)

\* Faulty: only what this step could not read before is told.
FailureForgetful(class) == IF class = "pre" THEN "pre" ELSE "post"

\* mutationFailure: a failure before a write is one after it when the same command
\* has written before.
Failure(class) == IF class = "pre" /\ ~ seen THEN "pre" ELSE "post"

End(class, written) ==
    /\ cmd' = "none" /\ step' = "none" /\ input' = None
    /\ seen' = FALSE /\ wrote' = FALSE
    /\ report' = [class |-> class, wrote |-> written]

Go(next, write) ==
    IF next = "done" THEN End("done", wrote \/ write)
    ELSE /\ step' = next /\ seen' = (seen \/ write) /\ wrote' = (wrote \/ write)
         /\ UNCHANGED <<cmd, input, report>>

\* runObservedMutation: Effect, unless it is there; fails before, or at it with its
\* outcome unknown, or after it when it cannot be seen again.
Mutation(applied, Effect, Nothing, next) ==
    /\ \/ applied /\ Nothing /\ Go(next, FALSE)
       \/ ~ applied /\ Effect /\ Go(next, TRUE)
       \/ Goes("blind") /\ Nothing /\ End(Failure("pre"), wrote)
       \/ ~ applied /\ Goes("lost") /\ Effect /\ End("post", TRUE)
       \/ ~ applied /\ Goes("lost") /\ Nothing /\ End("post", wrote)
    /\ UNCHANGED <<trouble, calm>>

\* typedRecordIdentity, within a type.
SameIdentity(r, s) == r.type = s.type /\ r.id = s.id

Conflicts(r) == \E s \in records : SameIdentity(r, s) /\ s # r

\* GitHubClient.publishStructuredRecord
Publish(r, next) ==
    \/ /\ ~ Conflicts(r)
       /\ Mutation(r \in records, records' = records \cup {r}, UNCHANGED records, next)
       /\ UNCHANGED <<gitVars, label, repoLabel, draft, pr, queue, failed, dispatched>>
    \/ /\ Conflicts(r)
       /\ End(Failure("pre"), wrote)
       /\ UNCHANGED <<trouble, calm, world>>

Begin(command, first, in) ==
    /\ cmd = "none"
    /\ cmd' = command /\ step' = first /\ input' = in
    /\ seen' = FALSE /\ wrote' = FALSE /\ report' = [class |-> "none", wrote |-> FALSE]
    /\ UNCHANGED <<trouble, calm, world>>

Doing(command, s) == cmd = command /\ step = s

-----------------------------------------------------------------------------
(* record-review and record-acceptance: one record, checked against the     *)
(* present Stage.                                                           *)

\* LifecycleController.recordReview
RecordReview(id, decision) ==
    /\ ReviewHandoff(stage) \in records
    /\ Verification(None, stage) \in records
    /\ Begin("record", "publish", [type |-> "FORMAL_REVIEW_V1", id |-> id, sha |-> stage,
                                   decision |-> decision])

\* LifecycleController.recordAcceptance of a Fix bundle
RecordFixAcceptance(id) ==
    \E p \in Of("FIX_PREPARED_V1") :
        /\ Verification(p.id, p.sha) \in records
        /\ FixHandoff(p) \in records
        /\ stage = p.sha
        /\ Begin("record", "publish", [type |-> "FIX_BUNDLE_ACCEPTANCE_V1", id |-> id,
                                       round |-> p.round, prep |-> p.id, sha |-> p.sha])

\* LifecycleController.recordAcceptance of a Stage
RecordStageAcceptance(id) ==
    \E v \in Of("FORMAL_REVIEW_V1") :
        /\ v.decision = "PASS"
        /\ Verification(None, v.sha) \in records
        /\ ReviewHandoff(v.sha) \in records
        /\ stage = v.sha
        /\ Begin("record", "publish", [type |-> "STAGE_ACCEPTANCE_V1", id |-> id,
                                       review |-> v.id, sha |-> v.sha])

PublishRecord == Doing("record", "publish") /\ Publish(input, "done")

-----------------------------------------------------------------------------
(* prepare-fix: the round, the commit, its record and its push.             *)

RoundOf(b, v) ==
    [type |-> "FIX_ROUND_OPENED_V1", id |-> b.round, confirmation |-> b.confirmation,
     review |-> v.id, sha |-> v.sha]

\* Faulty: a round is looked up by its own identifier.
SameRoundById(b) == {r \in Of("FIX_ROUND_OPENED_V1") : r.id = b.round}

\* A confirmation is found again by itself; the tasks of the bundle name their
\* round, so that a retry under another round is refused.
SameRound(b) == {r \in Of("FIX_ROUND_OPENED_V1") : r.confirmation = b.confirmation}

PreparationsOf(round) == {p \in Of("FIX_PREPARED_V1") : p.round = round}

\* LifecycleController.prepareFix up to its first write.  Where the round has its
\* preparation on the Stage the command has nothing left to do.  Before that, the caller
\* names the recorded preparation, or none and it is found; a caller that names another one
\* (trouble "replace") is not refused.
PrepareFix(b) ==
    \E v \in Of("FORMAL_REVIEW_V1") :
        /\ v.decision = "REQUEST_CHANGES"
        /\ Cardinality(SameRound(b)) <= 1
        /\ \A r \in SameRound(b) : r = RoundOf(b, v)
        /\ Cardinality(PreparationsOf(b.round)) <= 1
        /\ "replace" \in trouble \/ \A p \in PreparationsOf(b.round) : p.id = b.prep
        /\ stage = v.sha
        /\ Begin("prepare", "round", [bundle |-> b, round |-> RoundOf(b, v), source |-> v.sha])

OpenRound == Doing("prepare", "round") /\ Publish(input.round, "commit")

\* GitRepository.matchesPreparedCommit
IsPrepared(n) ==
    /\ n \in DOMAIN commit
    /\ commit[n] = [parent |-> input.source, of |-> input.bundle.confirmation]
    /\ clean

NewCommit(parent, of) ==
    /\ Len(commit) < MaxCommit
    /\ commit' = Append(commit, [parent |-> parent, of |-> of])

\* Faulty: the commit of an earlier call is not found.
MaterializeAnew ==
    /\ Doing("prepare", "commit")
    /\ \/ /\ tree # input.source \/ ~ clean
          /\ End(Failure("pre"), wrote)
          /\ UNCHANGED <<commit, tree>>
       \/ /\ tree = input.source /\ clean
          /\ NewCommit(tree, input.bundle.confirmation)
          /\ tree' = Len(commit')
          /\ Go("record", TRUE)
    /\ UNCHANGED <<trouble, calm, stage, heads, main, landed, clean, prVars, queue, failed,
                   dispatched>>

\* GitRepository.materializePreparedFix: the commit is found in the Stage worktree or
\* made there; when making it fails, the worktree may be left with it or unclean.
Materialize ==
    /\ Doing("prepare", "commit")
    /\ \/ /\ tree # input.source /\ IsPrepared(tree)
          /\ Go("record", FALSE)
          /\ UNCHANGED <<commit, tree, clean>>
       \/ /\ IF tree = input.source THEN ~ clean ELSE ~ IsPrepared(tree)
          /\ End(Failure("pre"), wrote)
          /\ UNCHANGED <<commit, tree, clean>>
       \/ /\ tree = input.source /\ clean
          /\ NewCommit(tree, input.bundle.confirmation)
          /\ tree' = Len(commit')
          /\ Go("record", TRUE) \/ (Goes("lost") /\ End("post", TRUE))
          /\ UNCHANGED clean
       \/ /\ tree = input.source /\ clean /\ Goes("lost")
          /\ clean' = FALSE
          /\ End("post", TRUE)
          /\ UNCHANGED <<commit, tree>>
    /\ UNCHANGED <<trouble, calm, stage, heads, main, landed, prVars, queue, failed,
                   dispatched>>

Preparation ==
    [type |-> "FIX_PREPARED_V1", id |-> input.bundle.prep, round |-> input.bundle.round,
     source |-> input.source, sha |-> tree]

\* Faulty: every event waits.
EnqueueAll(kind, head) == queue' = Append(queue, [kind |-> kind, head |-> head, stop |-> 0])

\* The workflow's concurrency group: one event runs, the latest one waits.
Enqueue(kind, head) ==
    LET new == [kind |-> kind, head |-> head, stop |-> 0] IN
    queue' = IF Len(queue) < 2 THEN Append(queue, new) ELSE <<queue[1], new>>

MoveStage(n) ==
    /\ stage' = n /\ heads' = heads \cup {n}
    /\ Enqueue("push", n)

RecordPreparation == Doing("prepare", "record") /\ Publish(Preparation, "push")

\* GitRepository.pushPreparedStage
PushPrepared ==
    /\ Doing("prepare", "push")
    /\ \/ /\ stage \in {input.source, tree}
          /\ Mutation(stage = tree, MoveStage(tree), UNCHANGED <<stage, heads, queue>>, "done")
       \/ /\ stage \notin {input.source, tree}
          /\ End(Failure("pre"), wrote)
          /\ UNCHANGED <<trouble, calm, stage, heads, queue>>
    /\ UNCHANGED <<commit, main, landed, tree, clean, prVars, failed, dispatched>>

-----------------------------------------------------------------------------
(* close-stage: main, the closing record, the labels, the pull request.     *)

\* Faulty: the commit of the authorization is taken for the accepted one.
BindsAnyCommit(z) ==
    /\ \E a \in Of("STAGE_ACCEPTANCE_V1"), v \in Of("FORMAL_REVIEW_V1") :
          /\ a.id = z.acceptance /\ v.id = z.review
          /\ a.review = v.id /\ v.decision = "PASS"
    /\ Verification(None, z.sha) \in records
    /\ ReviewHandoff(z.sha) \in records

\* The authorization binds an accepted Stage that passed its review.
Binds(z) ==
    \E a \in Of("STAGE_ACCEPTANCE_V1"), v \in Of("FORMAL_REVIEW_V1") :
        /\ a.id = z.acceptance /\ v.id = z.review
        /\ a.review = v.id /\ v.decision = "PASS"
        /\ a.sha = z.sha /\ v.sha = z.sha
        /\ Verification(None, z.sha) \in records
        /\ ReviewHandoff(z.sha) \in records

\* LifecycleController.closeStage up to its first write, the Host's approval of a push
\* included.
CloseStage(z) ==
    /\ Binds(z)
    /\ stage = z.sha
    /\ main \in {0, z.sha}
    /\ Begin("close", IF main = 0 THEN "push" ELSE "record", z)

Land(n) == main' = n /\ landed' = landed \cup {n}

\* GitRepository.pushMain, from exactly the baseline.
PushMain ==
    /\ Doing("close", "push")
    /\ \/ /\ main \in {0, input.sha}
          /\ Mutation(main = input.sha, Land(input.sha), UNCHANGED <<main, landed>>, "record")
       \/ /\ main \notin {0, input.sha}
          /\ End(Failure("pre"), wrote)
          /\ UNCHANGED <<trouble, calm, main, landed>>
    /\ UNCHANGED <<commit, stage, heads, tree, clean, prVars, queue, failed, dispatched>>

Closed(z) == [type |-> "STAGE_CLOSED_V1", id |-> z.id, authorization |-> z.id, sha |-> z.sha]

RecordClosed == Doing("close", "record") /\ Publish(Closed(input), "repo_label")

\* GitHubClient.projectTerminalLabels: the label of the repository, then the labels of
\* the pull request.
CreateRepoLabel ==
    /\ Doing("close", "repo_label")
    /\ Mutation(repoLabel, repoLabel' = TRUE, UNCHANGED repoLabel, "label")
    /\ UNCHANGED <<gitVars, records, label, draft, pr, queue, failed, dispatched>>

Terminal == {"codex-stage-closed"}

ProjectTerminalLabels ==
    /\ Doing("close", "label")
    /\ Mutation(label = Terminal, label' = Terminal, UNCHANGED label, "pr")
    /\ UNCHANGED <<gitVars, records, repoLabel, draft, pr, queue, failed, dispatched>>

\* GitHubClient.closePullRequest; a merged pull request cannot be closed.
ClosePullRequest ==
    /\ Doing("close", "pr")
    /\ \/ /\ pr # "MERGED"
          /\ Mutation(pr = "CLOSED", pr' = "CLOSED", UNCHANGED pr, "done")
       \/ /\ pr = "MERGED"
          /\ End("post", wrote)
          /\ UNCHANGED <<trouble, calm, pr>>
    /\ UNCHANGED <<gitVars, records, label, repoLabel, draft, queue, failed, dispatched>>

\* A command dies.
Crash ==
    /\ cmd # "none" /\ Goes("crash")
    /\ End("none", wrote)
    /\ UNCHANGED <<trouble, calm, world>>

-----------------------------------------------------------------------------
(* The Bridge's run over a prepared bundle.                                 *)

CurrentPreparations == {p \in Of("FIX_PREPARED_V1") : p.sha = stage}
CurrentFixHandoffs  == {h \in Of("FIX_DISPATCH_HANDOFF_V1") : h.sha = stage}

AcceptancesOf(p) ==
    {a \in Of("FIX_BUNDLE_ACCEPTANCE_V1") : a.prep = p.id /\ a.sha = p.sha}

\* Faulty: the handoff is taken for the acceptance.
GateWithoutAcceptance(p) ==
    /\ CurrentPreparations = {p}
    /\ CurrentFixHandoffs = {FixHandoff(p)}
    /\ Verification(p.id, stage) \in records

\* gateDispatchBatch in the mode of a prepared fix.
Gate(p) ==
    /\ CurrentPreparations = {p}
    /\ CurrentFixHandoffs = {FixHandoff(p)}
    /\ Verification(p.id, stage) \in records
    /\ ExactlyOne(AcceptancesOf(p))
    /\ \A a \in AcceptancesOf(p) : a.round = p.round

Dispatch ==
    /\ "codex-dispatch-ready" \in label /\ pr = "OPEN"
    /\ \E p \in CurrentPreparations :
          /\ Gate(p)
          /\ tree = stage /\ clean
          /\ [prep |-> p.id, sha |-> p.sha] \notin dispatched
          /\ dispatched' = dispatched \cup {[prep |-> p.id, sha |-> p.sha]}
    /\ UNCHANGED <<trouble, calm, gitVars, prVars, queue, failed, cmdVars>>

\* The fix tasks are integrated ...
IntegrateFix ==
    /\ \E d \in dispatched : d.sha = stage
    /\ tree = stage /\ clean
    /\ NewCommit(stage, None)
    /\ tree' = Len(commit') /\ MoveStage(Len(commit'))
    /\ UNCHANGED <<trouble, calm, main, landed, clean, prVars, failed, dispatched, cmdVars>>

\* ... and the candidate is announced, once, after that (publishCandidate).
AnnounceCandidate ==
    /\ commit[stage].of = None /\ commit[stage].parent \in {d.sha : d \in dispatched}
    /\ Candidate(stage) \notin records
    /\ records' = records \cup {Candidate(stage)}
    /\ label' = (label \cup {"codex-stage-candidate"}) \ {"codex-dispatch-ready"}
    /\ Enqueue("candidate", stage)
    /\ UNCHANGED <<trouble, calm, gitVars, repoLabel, draft, pr, failed, dispatched, cmdVars>>

-----------------------------------------------------------------------------
(* The workflow of the Stage branch.                                        *)

Answering(kind, stop) == queue # <<>> /\ queue[1].kind = kind /\ queue[1].stop = stop

EventHead == queue[1].head

Proceed == queue' = [queue EXCEPT ![1].stop = @ + 1]
Leave   == queue' = Tail(queue)

\* currentPreparations of select-stage-contract
Selected == {p \in Of("FIX_PREPARED_V1") : p.sha = EventHead}

\* Faulty: what was ready stays so.
InvalidateDraft ==
    /\ Answering("push", 0)
    /\ pr = "OPEN"
    /\ \/ /\ draft' = TRUE
          /\ IF Cardinality(Selected) <= 1 THEN Proceed ELSE Leave
          /\ UNCHANGED failed
       \/ /\ Goes("workflow")
          /\ draft' = TRUE \/ UNCHANGED draft
          /\ Leave
          /\ failed' = failed \cup {EventHead}
    /\ UNCHANGED <<trouble, calm, gitVars, records, label, repoLabel, pr, dispatched, cmdVars>>

\* A push makes the open pull request a draft and no longer ready for review, unless the
\* job fails: before it takes the label away, or when it selects the Router ...
Invalidate ==
    /\ Answering("push", 0)
    /\ pr = "OPEN"
    /\ \/ /\ label' = label \ {"chat-review"} /\ draft' = TRUE
          /\ \/ Cardinality(Selected) <= 1 /\ Proceed
             \/ (Cardinality(Selected) > 1 \/ Goes("workflow")) /\ Leave
          /\ UNCHANGED failed
       \/ /\ Goes("workflow")
          /\ draft' = TRUE \/ UNCHANGED draft
          /\ Leave
          /\ failed' = failed \cup {EventHead}
          /\ UNCHANGED label
    /\ UNCHANGED <<trouble, calm, gitVars, records, repoLabel, pr, dispatched, cmdVars>>

\* ... or opens another one, which is no longer that of this Stage's records.
OpenAnother ==
    /\ Answering("push", 0)
    /\ pr # "OPEN"
    /\ Leave
    /\ UNCHANGED <<trouble, calm, gitVars, prVars, failed, dispatched, cmdVars>>

\* Publishes the handoff of the canonical Router ...
PublishDispatchReady ==
    /\ Answering("push", 1) /\ Selected = {}
    /\ Leave
    /\ \/ EventHead = stage /\ label' = label \cup {"codex-dispatch-ready"}
       \/ (EventHead # stage \/ Goes("workflow")) /\ UNCHANGED label
    /\ UNCHANGED <<trouble, calm, gitVars, records, repoLabel, draft, pr, failed, dispatched,
                   cmdVars>>

\* ... or, when the head is a prepared fix, verifies it ...
VerifyPrepared ==
    /\ Answering("push", 1)
    /\ \E p \in Selected :
          \/ /\ EventHead = stage
             /\ records' = records \cup {Verification(p.id, EventHead)}
             /\ Proceed
          \/ /\ EventHead # stage \/ Goes("workflow")
             /\ Leave
             /\ UNCHANGED records
    /\ UNCHANGED <<trouble, calm, gitVars, label, repoLabel, draft, pr, failed, dispatched,
                   cmdVars>>

\* ... and hands it over for acceptance and dispatch.
HandOverFix ==
    /\ Answering("push", 2)
    /\ Leave
    /\ \/ /\ EventHead = stage
          /\ records' = records \cup {FixHandoff(p) : p \in Selected}
          /\ \/ label' = label \cup {"codex-dispatch-ready"}
             \/ Goes("workflow") /\ UNCHANGED label
       \/ /\ EventHead # stage \/ Goes("workflow")
          /\ UNCHANGED <<records, label>>
    /\ UNCHANGED <<trouble, calm, gitVars, repoLabel, draft, pr, failed, dispatched, cmdVars>>

\* A candidate is verified ...
VerifyCandidate ==
    /\ Answering("candidate", 0)
    /\ \/ /\ EventHead = stage /\ draft /\ pr = "OPEN"
          /\ records' = records \cup {Verification(None, EventHead)}
          /\ Proceed
       \/ /\ EventHead # stage \/ ~ draft \/ pr # "OPEN" \/ Goes("workflow")
          /\ Leave
          /\ UNCHANGED records
    /\ UNCHANGED <<trouble, calm, gitVars, label, repoLabel, draft, pr, failed, dispatched,
                   cmdVars>>

\* ... and handed over for review, ...
HandOverReview ==
    /\ Answering("candidate", 1)
    /\ \/ /\ EventHead = stage
          /\ records' = records \cup {ReviewHandoff(EventHead)}
          /\ label' = (label \cup {"chat-review"}) \ {"codex-dispatch-ready"}
          /\ draft' = FALSE
          /\ Proceed
       \/ /\ EventHead = stage /\ Goes("workflow")
          /\ records' = records \cup {ReviewHandoff(EventHead)}
          /\ draft' = FALSE \/ UNCHANGED draft
          /\ Leave
          /\ UNCHANGED label
       \/ /\ EventHead # stage \/ Goes("workflow")
          /\ Leave
          /\ UNCHANGED <<records, label, draft>>
    /\ UNCHANGED <<trouble, calm, gitVars, repoLabel, pr, failed, dispatched, cmdVars>>

\* ... which is taken back when the Stage has moved meanwhile.
ConfirmReview ==
    /\ Answering("candidate", 2)
    /\ Leave
    /\ \/ /\ EventHead = stage
          /\ UNCHANGED <<label, draft>>
       \/ /\ EventHead # stage
          /\ label' = (label \ {"chat-review"}) \cup {"codex-dispatch-ready"}
          /\ draft' = TRUE
       \/ /\ EventHead # stage /\ Goes("workflow")
          /\ draft' = TRUE \/ UNCHANGED draft
          /\ UNCHANGED label
    /\ UNCHANGED <<trouble, calm, gitVars, records, repoLabel, pr, failed, dispatched,
                   cmdVars>>

-----------------------------------------------------------------------------
(* The surroundings.                                                        *)

\* The user authorizes a closure; what the record names need not go together.
Authorize(id) ==
    /\ \A z \in Of("STAGE_CLOSURE_AUTHORIZATION_V1") : z.id # id
    /\ \E a \in Of("STAGE_ACCEPTANCE_V1"), v \in Of("FORMAL_REVIEW_V1") :
          \E sha \in {a.sha, stage} :
             records' = records \cup {[type |-> "STAGE_CLOSURE_AUTHORIZATION_V1", id |-> id,
                                       acceptance |-> a.id, review |-> v.id, sha |-> sha]}
    /\ UNCHANGED <<trouble, calm, gitVars, label, repoLabel, draft, pr, queue, failed,
                   dispatched, cmdVars>>

\* Somebody pushes to the Stage, or to main.
DisturbStage ==
    /\ Goes("stage")
    /\ NewCommit(stage, None)
    /\ MoveStage(Len(commit'))
    /\ UNCHANGED <<trouble, calm, main, landed, tree, clean, prVars, failed, dispatched,
                   cmdVars>>

DisturbMain ==
    /\ Goes("main") /\ main # MaxCommit + 1
    /\ main' = MaxCommit + 1
    /\ UNCHANGED <<trouble, calm, commit, stage, heads, landed, tree, clean, prVars, queue,
                   failed, dispatched, cmdVars>>

\* GitHub notices that main has the head of the pull request.
NoticeMerge ==
    /\ Goes("merge") /\ main = stage /\ pr = "OPEN"
    /\ pr' = "MERGED"
    /\ UNCHANGED <<trouble, calm, gitVars, records, label, repoLabel, draft, queue, failed,
                   dispatched, cmdVars>>

\* The operator brings the Stage worktree to the Stage.
ResetWorktree ==
    /\ cmd = "none" /\ (Goes("reset") \/ ~ clean) /\ (tree # stage \/ ~ clean)
    /\ tree' = stage /\ clean' = TRUE
    /\ UNCHANGED <<trouble, calm, commit, stage, heads, main, landed, prVars, queue, failed,
                   dispatched, cmdVars>>

CalmDown ==
    /\ ~ calm /\ calm' = TRUE
    /\ UNCHANGED <<trouble, world, cmdVars>>

-----------------------------------------------------------------------------
Init ==
    /\ trouble \in Fault /\ calm = FALSE
    /\ commit = <<[parent |-> 0, of |-> None]>>
    /\ stage = 1 /\ heads = {1} /\ main = 0 /\ landed = {} /\ tree = 1 /\ clean = TRUE
    /\ records = {Candidate(1)} /\ label = {"codex-stage-candidate"} /\ repoLabel = FALSE
    /\ draft = TRUE /\ pr = "OPEN"
    /\ queue = <<[kind |-> "candidate", head |-> 1, stop |-> 0]>>
    /\ failed = {} /\ dispatched = {}
    /\ cmd = "none" /\ step = "none" /\ input = None
    /\ seen = FALSE /\ wrote = FALSE
    /\ report = [class |-> "none", wrote |-> FALSE]

Command ==
    \/ \E id \in ReviewId, d \in {"PASS", "REQUEST_CHANGES"} : RecordReview(id, d)
    \/ \E id \in AcceptanceId : RecordFixAcceptance(id) \/ RecordStageAcceptance(id)
    \/ \E b \in Bundle : PrepareFix(b)
    \/ \E z \in Of("STAGE_CLOSURE_AUTHORIZATION_V1") : CloseStage(z)

Write ==
    \/ PublishRecord
    \/ OpenRound \/ Materialize \/ RecordPreparation \/ PushPrepared
    \/ PushMain \/ RecordClosed \/ CreateRepoLabel \/ ProjectTerminalLabels \/ ClosePullRequest

Workflow ==
    \/ Invalidate \/ OpenAnother \/ PublishDispatchReady \/ VerifyPrepared \/ HandOverFix
    \/ VerifyCandidate \/ HandOverReview \/ ConfirmReview

Fixing == Dispatch \/ IntegrateFix \/ AnnounceCandidate

Around ==
    \/ \E id \in AuthorizationId : Authorize(id)
    \/ DisturbStage \/ DisturbMain \/ NoticeMerge \/ ResetWorktree \/ CalmDown

Next == Command \/ Write \/ Crash \/ Workflow \/ Fixing \/ Around

Spec == Init /\ [][Next]_vars

\* A command that has begun goes on; nobody has to begin one.
FairSpec == Spec /\ WF_vars(Write)

-----------------------------------------------------------------------------
Sha == 0 .. MaxCommit + 1

BridgeLifecycleTypeOK ==
    /\ trouble \in Fault /\ calm \in BOOLEAN
    /\ commit \in Seq([parent : Sha, of : Confirmation \cup {None}])
    /\ {stage, main, tree} \subseteq Sha /\ heads \cup landed \cup failed \subseteq Sha
    /\ {clean, repoLabel, draft, seen, wrote} \subseteq BOOLEAN
    /\ label \subseteq {"codex-stage-candidate", "codex-dispatch-ready", "chat-review",
                        "codex-stage-closed"}
    /\ pr \in {"OPEN", "CLOSED", "MERGED"}
    /\ Len(queue) <= 2
    /\ cmd \in {"none", "record", "prepare", "close"}
-----------------------------------------------------------------------------
(* Properties.                                                              *)

\* main is only ever brought to one commit of the Stage, and that commit was verified,
\* handed over, passed by a review of it, accepted and authorized (closeStage checks
\* the chain of records anew, whatever the authorization names).
MainIsAccepted ==
    /\ Cardinality(landed) <= 1
    /\ \A s \in landed :
          /\ {Verification(None, s), ReviewHandoff(s)} \subseteq records
          /\ \E a \in Of("STAGE_ACCEPTANCE_V1"), v \in Of("FORMAL_REVIEW_V1"),
                z \in Of("STAGE_CLOSURE_AUTHORIZATION_V1") :
                /\ a.sha = s /\ v.sha = s /\ z.sha = s
                /\ v.decision = "PASS" /\ a.review = v.id /\ z.acceptance = a.id

\* What others push to main is never overwritten, also when it comes between the check of
\* close-stage and its push (pushExactRemoteRef reads the ref again).
MainIsNotOverwritten == [][main = MaxCommit + 1 => main' = main]_vars

\* The traces of a closure appear in their order: the closing record only of a commit that
\* is or was main, the label of the pull request only with the record, and the pull request
\* is closed only with the label, whatever fails or is repeated in between.
ClosedInOrder ==
    /\ \A r \in Of("STAGE_CLOSED_V1") : r.sha \in landed
    /\ "codex-stage-closed" \in label => repoLabel /\ Of("STAGE_CLOSED_V1") # {}
    /\ pr = "CLOSED" => "codex-stage-closed" \in label

\* Only what was accepted becomes main, nothing else is lost from it, and the closure
\* leaves its traces in their order.
ClosureIsAuthorized == [](MainIsAccepted /\ ClosedInOrder) /\ MainIsNotOverwritten

\* A confirmed solution has one round, a prepared commit is of one round, and a round has
\* one preparation, unless a caller gives it another identifier before its commit is on the
\* Stage: with two, the gate, prepare-fix and the workflow refuse for ever.
OnePreparation ==
    /\ \A r, q \in Of("FIX_ROUND_OPENED_V1") : r.confirmation = q.confirmation => r = q
    /\ \A p, q \in Of("FIX_PREPARED_V1") :
          /\ p.sha = q.sha => p.round = q.round
          /\ "replace" \notin trouble /\ p.round = q.round => p = q

\* The Stage is never at a prepared commit whose preparation is not recorded: the workflow
\* would take the push for one of the canonical Router.
PreparedIsRecorded ==
    \A n \in heads \cap DOMAIN commit :
        commit[n].of # None => \E p \in Of("FIX_PREPARED_V1") : p.sha = n

\* A recorded preparation names a commit that still exists: the Stage has been at it or the
\* Stage worktree has it, as long as nobody else touches that worktree.
PreparationIsHere ==
    "reset" \notin trouble => \A p \in Of("FIX_PREPARED_V1") : p.sha \in heads \cup {tree}

\* Confirmations, rounds, preparations and commits correspond, on the pull request and in
\* Git.
PreparationsAgree == OnePreparation /\ PreparedIsRecorded /\ PreparationIsHere

\* The fix that is dispatched is the one that was confirmed: the commit made for the
\* confirmation on top of the reviewed Stage, verified, handed over and accepted as such.
FixIsAuthorized ==
    \A d \in dispatched :
        \E p \in Of("FIX_PREPARED_V1"), r \in Of("FIX_ROUND_OPENED_V1"),
           v \in Of("FORMAL_REVIEW_V1"), a \in Of("FIX_BUNDLE_ACCEPTANCE_V1") :
            /\ p.id = d.prep /\ p.sha = d.sha
            /\ r.id = p.round /\ v.id = r.review /\ v.decision = "REQUEST_CHANGES"
            /\ commit[d.sha] = [parent |-> v.sha, of |-> r.confirmation]
            /\ a.prep = p.id /\ a.sha = d.sha
            /\ {Verification(p.id, d.sha), FixHandoff(p)} \subseteq records

\* An open pull request that is ready for review shows a Stage that was verified and handed
\* over, or the workflow has still to answer for the commits that came after it, or it failed
\* on the push of this very commit before it could take readiness back.
ReadyIsReviewed ==
    pr = "OPEN" /\ "chat-review" \in label =>
        ReviewHandoff(stage) \in records \/ queue # <<>> \/ stage \in failed

\* PRE_MUTATION_FAILURE is reported only by a command that has written nothing
\* (mutationFailure, through every step of prepare-fix and close-stage).
ReportIsHonest == report.class = "pre" => ~ report.wrote

Complete(z) ==
    /\ z.sha \in landed /\ Closed(z) \in records
    /\ "codex-stage-closed" \in label /\ pr = "CLOSED"

\* close-stage completes whatever earlier calls of it left half done, once nothing fails
\* any more: unless others moved main, or GitHub took its pull request for merged.
CloseHeals ==
    \A id \in AuthorizationId :
        (calm /\ cmd = "close" /\ input.id = id /\ main # MaxCommit + 1 /\ pr # "MERGED")
            ~> (\E z \in Of("STAGE_CLOSURE_AUTHORIZATION_V1") : z.id = id /\ Complete(z))

\* prepare-fix completes whatever earlier calls of it left half done, once nothing fails any
\* more: while the Stage has not moved, with its worktree at the reviewed Stage or at the
\* commit of the record, and a preparation's identifier that is not another round's.
PrepareHeals ==
    \A b \in Bundle :
        ( /\ calm /\ Doing("prepare", "round") /\ input.bundle = b
          /\ stage = input.source /\ clean /\ ~ Conflicts(input.round)
          /\ Len(commit) < MaxCommit
          /\ \A p \in Of("FIX_PREPARED_V1") : p.id = b.prep => p.round = b.round
          /\ \/ tree = input.source /\ PreparationsOf(b.round) = {}
             \/ IsPrepared(tree) /\ \A p \in PreparationsOf(b.round) : p.sha = tree )
            ~> (\E p \in PreparationsOf(b.round) : p.sha \in heads)

\* A command that is repeated completes what earlier ones left half done.
RepetitionHeals == CloseHeals /\ PrepareHeals
=============================================================================
