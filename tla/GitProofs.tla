------------------------------ MODULE GitProofs ------------------------------
(***************************************************************************)
(* Proofs about the Git Controller: what the user approved is executed     *)
(* once and as it was shown, and every branch continues the work before    *)
(* it; for every set of graphs, worktrees, changes and concurrent calls.   *)
(***************************************************************************)
EXTENDS GitActions, PlanProofs, SequenceTheorems

-----------------------------------------------------------------------------
(* Rows of git_actions.                                                    *)

ActionRecord == [preview : Preview, status : ActionStatus]

\* How an action may move: one decision, one reservation, one outcome.
ActionMove ==
    {"previewed"} \X {"approved", "rejected"} \cup { <<"approved", "executing">> }
        \cup {"executing"} \X TerminalAction

\* What a preview holds for each operation.
LEMMA PreviewKinds ==
    ASSUME NEW p \in Preview
    PROVE  /\ p.operation \in {"create_worktree", "commit_paths", "integrate_fast_forward"}
           /\ p.node \in Run /\ p.rev \in 1 .. MaxRevision
           /\ p.operation = "create_worktree" => p.worktree \in Worktree /\ p.source \in Branch
           /\ p.operation = "commit_paths" => p.worktree \in Worktree /\ p.paths \in Change
           /\ p.operation = "integrate_fast_forward" => p.source \in Worktree
  BY DEF Preview

\* An update of the status of one action leaves its preview, and the others.
LEMMA ActionStatusEffect ==
    ASSUME action \in Seq(ActionRecord), NEW i, NEW s \in ActionStatus,
           action' = [action EXCEPT ![i].status = s]
    PROVE  /\ Len(action') = Len(action)
           /\ action' \in Seq(ActionRecord)
           /\ \A j \in Actions : /\ action'[j].preview = action[j].preview
                                 /\ j # i => action'[j] = action[j]
                                 /\ j = i => action'[j].status = s
  <1>1. \A j \in Actions : action[j] \in ActionRecord
    BY DEF Actions
  <1>2. CASE i \notin Actions
    <2>1. action' = action
      BY <1>2 DEF Actions
    <2> QED
      BY <1>2, <2>1
  <1>3. CASE i \in Actions
    <2> DEFINE row == [action[i] EXCEPT !.status = s]
    <2>1. action' = [action EXCEPT ![i] = row]
      OBVIOUS
    <2>2. row \in ActionRecord /\ row.preview = action[i].preview /\ row.status = s
      BY <1>1, <1>3 DEF ActionRecord
    <2> HIDE DEF row
    <2>3. /\ action' \in Seq(ActionRecord) /\ Len(action') = Len(action)
          /\ \A j \in Actions : action'[j] = IF j = i THEN row ELSE action[j]
      BY <1>3, <2>1, <2>2, ExceptSeq DEF Actions
    <2> QED
      BY <2>2, <2>3
  <1> QED
    BY <1>2, <1>3

\* A step appends a preview, moves one action, or leaves all of them alone.
LEMMA ActionStep ==
    ASSUME GitTypeOK, [GitNext]_allVars
    PROVE  /\ action' \in Seq(ActionRecord) /\ Len(action') <= MaxAction
           /\ Len(action) <= Len(action')
           /\ \A i \in Actions :
                 /\ i \in Actions'
                 /\ Shown(i)' = Shown(i)
                 /\ \/ action'[i] = action[i]
                    \/ <<action[i].status, action'[i].status>> \in ActionMove
  <1>t. /\ action \in Seq(ActionRecord) /\ Len(action) <= MaxAction /\ Len(action) \in Nat
    BY DEF GitTypeOK, ActionRecord
  <1>s. ASSUME NEW i, NEW s \in ActionStatus, action' = [action EXCEPT ![i].status = s],
               <<action[i].status, s>> \in ActionMove
        PROVE  /\ action' \in Seq(ActionRecord) /\ Len(action') = Len(action)
               /\ \A j \in Actions : /\ Shown(j)' = Shown(j)
                                     /\ \/ action'[j] = action[j]
                                        \/ <<action[j].status, action'[j].status>> \in ActionMove
    BY <1>t, <1>s, ActionStatusEffect DEF Shown
  <1>1. CASE action' = action
    BY <1>t, <1>1 DEF Actions, Shown
  <1>2. ASSUME NEW p \in Preview, PreviewGitAction(p)
        PROVE  /\ action' \in Seq(ActionRecord) /\ Len(action') = Len(action) + 1
               /\ Len(action') <= MaxAction
               /\ \A j \in Actions : action'[j] = action[j]
    <2> DEFINE row == [preview |-> p, status |-> "previewed"]
    <2>1. row \in ActionRecord
      BY DEF ActionRecord, ActionStatus
    <2>2. action' = Append(action, row) /\ Len(action) < MaxAction
      BY <1>2 DEF PreviewGitAction
    <2> HIDE DEF row
    <2> QED
      BY <1>t, <2>1, <2>2, GitAssumption DEF Actions
  <1>3. ASSUME NEW i \in Actions, NEW verdict \in {"approved", "rejected"},
               DecideGitAction(i, verdict)
        PROVE  \E s \in ActionStatus : /\ action' = [action EXCEPT ![i].status = s]
                                       /\ <<action[i].status, s>> \in ActionMove
    BY <1>3 DEF DecideGitAction, ActionMove, ActionStatus
  <1>4. ASSUME NEW c \in Call, ReserveGitAction(c)
        PROVE  \E i : \E s \in ActionStatus : /\ action' = [action EXCEPT ![i].status = s]
                                              /\ <<action[i].status, s>> \in ActionMove
    BY <1>4 DEF ReserveGitAction, ActionMove, ActionStatus
  <1>5. ASSUME NEW c \in Call, SettleGitAction(c)
        PROVE  \E i : \E s \in ActionStatus : /\ action' = [action EXCEPT ![i].status = s]
                                              /\ <<action[i].status, s>> \in ActionMove
    BY <1>5 DEF SettleGitAction, ActionMove, ActionStatus, TerminalAction
  <1>6. ASSUME NEW i \in Actions, ReconcileGitAction(i)
        PROVE  \E s \in ActionStatus : /\ action' = [action EXCEPT ![i].status = s]
                                       /\ <<action[i].status, s>> \in ActionMove
    BY <1>6 DEF ReconcileGitAction, ActionMove, ActionStatus, TerminalAction
  <1>7. ASSUME \/ PlanStep \/ OtherEvent
               \/ \E w \in Worktree : EditWorktree(w)
               \/ \E c \in Call, i \in Actions : ObserveAgain(c, i)
               \/ \E c \in Call : RunGit(c) \/ EndCall(c)
               \/ UNCHANGED allVars
        PROVE  action' = action
    BY <1>7 DEF PlanStep, OtherEvent, EditWorktree, ObserveAgain, RunGit, EndCall, allVars, gitVars
  <1> QED
    <2>1. CASE \E i : \E s \in ActionStatus : /\ action' = [action EXCEPT ![i].status = s]
                                              /\ <<action[i].status, s>> \in ActionMove
      <3>1. PICK i : \E s \in ActionStatus : /\ action' = [action EXCEPT ![i].status = s]
                                             /\ <<action[i].status, s>> \in ActionMove
        BY <2>1
      <3>2. PICK s \in ActionStatus : /\ action' = [action EXCEPT ![i].status = s]
                                      /\ <<action[i].status, s>> \in ActionMove
        BY <3>1
      <3>3. Actions' = Actions
        BY <1>s, <3>2 DEF Actions
      <3>4. /\ action' \in Seq(ActionRecord) /\ Len(action') = Len(action)
            /\ \A j \in Actions : /\ Shown(j)' = Shown(j)
                                  /\ \/ action'[j] = action[j]
                                     \/ <<action[j].status, action'[j].status>> \in ActionMove
        BY <1>s, <3>2
      <3> QED
        BY <1>t, <3>3, <3>4
    <2>2. CASE \E p \in Preview : PreviewGitAction(p)
      BY <1>t, <1>2, <2>2 DEF Actions, Shown
    <2> QED
      BY <1>1, <1>3, <1>4, <1>5, <1>6, <1>7, <2>1, <2>2 DEF GitNext, GitStep

\* A status never moves back, and an outcome is final.
LEMMA MovesAreOnward ==
    ASSUME NEW s, NEW t, <<s, t>> \in ActionMove
    PROVE  /\ s \notin TerminalAction
           /\ s = "executing" => t \in TerminalAction
           /\ t = "executing" => s = "approved"
           /\ t \in {"previewed", "approved"} => s = "previewed"
           /\ t # "previewed"
  BY DEF ActionMove, TerminalAction

-----------------------------------------------------------------------------
(* Calls of execute.                                                       *)

\* A call at work names an action, which was reserved before git starts.
CallOk(c) ==
    /\ call[c].at = "idle" => call[c] = Idle
    /\ call[c].at # "idle" => call[c].action \in Actions
    /\ call[c].at \in {"git", "done", "refused"} =>
          action[call[c].action].status \in {"executing"} \cup TerminalAction

CallsInOrder == \A c \in Call : CallOk(c)

CallRecord == [at : CallState, action : 0 .. MaxAction]

\* What a step of one call does to it.
LEMMA CallEffect ==
    ASSUME call \in [Call -> CallRecord], NEW c \in Call, NEW s \in CallState,
           call' = [call EXCEPT ![c].at = s]
    PROVE  /\ call'[c].at = s /\ call'[c].action = call[c].action
           /\ \A d \in Call \ {c} : call'[d] = call[d]
           /\ call' \in [Call -> CallRecord]
  BY DEF CallRecord

\* Who runs git has reserved, who settles has run git, and everybody else lets calls be.
LEMMA CallStep ==
    ASSUME GitTypeOK, CallsInOrder, [GitNext]_allVars, NEW c \in Call, call'[c] # call[c]
    PROVE  \/ call'[c] = Idle
           \/ \E i \in Actions : call[c] = Idle /\ call'[c] = [at |-> "observed", action |-> i]
           \/ /\ ReserveGitAction(c)
              /\ call[c].at = "observed" /\ call'[c].at = "git"
              /\ call'[c].action = call[c].action /\ call[c].action \in Actions
              /\ action'[call[c].action].status = "executing"
           \/ /\ RunGit(c) /\ action' = action
              /\ call[c].at = "git" /\ call'[c].at \in {"done", "refused"}
              /\ call'[c].action = call[c].action
  <1>t. /\ call \in [Call -> CallRecord]
        /\ action \in Seq(ActionRecord)
    BY DEF GitTypeOK, CallRecord, ActionRecord
  <1> DEFINE Goal ==
           \/ call'[c] = Idle
           \/ \E i \in Actions : call[c] = Idle /\ call'[c] = [at |-> "observed", action |-> i]
           \/ /\ ReserveGitAction(c)
              /\ call[c].at = "observed" /\ call'[c].at = "git"
              /\ call'[c].action = call[c].action /\ call[c].action \in Actions
              /\ action'[call[c].action].status = "executing"
           \/ /\ RunGit(c) /\ action' = action
              /\ call[c].at = "git" /\ call'[c].at \in {"done", "refused"}
              /\ call'[c].action = call[c].action
  <1> HIDE DEF Goal
  <1>1. ASSUME NEW d \in Call, NEW i \in Actions, ObserveAgain(d, i) PROVE Goal
    <2>1. /\ call[d] = Idle
          /\ call' = [call EXCEPT ![d] = [at |-> "observed", action |-> i]]
      BY <1>1 DEF ObserveAgain
    <2>2. d = c
      BY <1>t, <2>1
    <2>3. call'[c] = [at |-> "observed", action |-> i]
      BY <1>t, <2>1, <2>2
    <2> QED
      BY <2>1, <2>2, <2>3 DEF Goal
  <1>2. ASSUME NEW d \in Call, ReserveGitAction(d) PROVE Goal
    <2>1. /\ call[d].at = "observed"
          /\ call' = [call EXCEPT ![d].at = "git"]
          /\ action' = [action EXCEPT ![call[d].action].status = "executing"]
      BY <1>2 DEF ReserveGitAction
    <2>2. "git" \in CallState /\ "executing" \in ActionStatus
      BY DEF CallState, ActionStatus
    <2>3. d = c
      BY <1>t, <2>1, <2>2, CallEffect
    <2>4. call[c].action \in Actions
      BY <2>1, <2>3 DEF CallsInOrder, CallOk
    <2>5. call'[c].at = "git" /\ call'[c].action = call[c].action
      BY <1>t, <2>1, <2>2, <2>3, CallEffect
    <2> DEFINE i == call[c].action
    <2>e. action' = [action EXCEPT ![i].status = "executing"] /\ i \in Actions
      BY <2>1, <2>3, <2>4
    <2> HIDE DEF i
    <2>f. action'[i].status = "executing"
      BY <1>t, <2>2, <2>e, ActionStatusEffect
    <2>6. action'[call[c].action].status = "executing"
      BY <2>f DEF i
    <2> QED
      BY <1>2, <2>1, <2>3, <2>4, <2>5, <2>6 DEF Goal
  <1>3. ASSUME NEW d \in Call, RunGit(d) PROVE Goal
    <2>1. PICK outcome \in {"done", "refused"} : call' = [call EXCEPT ![d].at = outcome]
      BY <1>3 DEF RunGit
    <2>2. call[d].at = "git" /\ action' = action
      BY <1>3 DEF RunGit
    <2>3. outcome \in CallState
      BY DEF CallState
    <2>4. d = c
      BY <1>t, <2>1, <2>3, CallEffect
    <2>5. call'[c].at = outcome /\ call'[c].action = call[c].action
      BY <1>t, <2>1, <2>3, <2>4, CallEffect
    <2> QED
      BY <1>3, <2>2, <2>4, <2>5 DEF Goal
  <1>4. ASSUME NEW d \in Call, EndCall(d) \/ SettleGitAction(d) PROVE Goal
    <2>1. call' = [call EXCEPT ![d] = Idle]
      BY <1>4 DEF EndCall, SettleGitAction
    <2> QED
      BY <1>t, <2>1 DEF Goal
  <1>5. ASSUME \/ PlanStep \/ OtherEvent
               \/ \E w \in Worktree : EditWorktree(w)
               \/ \E p \in Preview : PreviewGitAction(p)
               \/ \E i \in Actions, verdict \in {"approved", "rejected"} : DecideGitAction(i, verdict)
               \/ \E i \in Actions : ReconcileGitAction(i)
               \/ UNCHANGED allVars
        PROVE  call' = call
    BY <1>5 DEF PlanStep, OtherEvent, EditWorktree, PreviewGitAction, DecideGitAction,
                ReconcileGitAction, allVars, gitVars
  <1> QED
    BY <1>1, <1>2, <1>3, <1>4, <1>5 DEF GitNext, GitStep, Goal

\* What an action shows is a preview.
LEMMA ShownIsPreview ==
    ASSUME GitTypeOK, NEW i \in Actions
    PROVE  Shown(i) \in Preview
  <1>1. action \in Seq(ActionRecord)
    BY DEF GitTypeOK, ActionRecord
  <1>2. action[i] \in ActionRecord
    BY <1>1 DEF Actions
  <1> QED
    BY <1>2 DEF Shown, ActionRecord

\* Calls stay in order.
LEMMA CallsStep == GitTypeOK /\ CallsInOrder /\ [GitNext]_allVars => CallsInOrder'
  <1> SUFFICES ASSUME GitTypeOK, CallsInOrder, [GitNext]_allVars, NEW c \in Call
               PROVE  CallOk(c)'
    BY DEF CallsInOrder
  <1>1. CallOk(c)
    BY DEF CallsInOrder
  <1>2. \A i \in Actions :
          /\ i \in Actions'
          /\ action[i].status \in {"executing"} \cup TerminalAction =>
                action'[i].status \in {"executing"} \cup TerminalAction
    BY ActionStep, MovesAreOnward
  <1>3. CASE call'[c] = call[c]
    BY <1>1, <1>2, <1>3 DEF CallOk, Idle
  <1>4. CASE call'[c] = Idle
    BY <1>4 DEF CallOk, Idle
  <1>5. CASE \E i \in Actions : call'[c] = [at |-> "observed", action |-> i]
    BY <1>2, <1>5 DEF CallOk
  <1>6. CASE /\ call'[c].at = "git"
             /\ call'[c].action = call[c].action /\ call[c].action \in Actions
             /\ action'[call[c].action].status = "executing"
    BY <1>2, <1>6 DEF CallOk
  <1>7. CASE /\ action' = action
             /\ call[c].at = "git" /\ call'[c].at \in {"done", "refused"}
             /\ call'[c].action = call[c].action
    BY <1>1, <1>2, <1>7 DEF CallOk
  <1> QED
    BY <1>3, <1>4, <1>5, <1>6, <1>7, CallStep

-----------------------------------------------------------------------------
(* Settlement of what git did.                                             *)

\* The one row of node_dispatches and the one of runs that an outcome touches.
Bound(n, w) ==
    /\ run'[n].status = run[n].status /\ run'[n].task = run[n].task /\ run'[n].worktree = w
    /\ dispatch'[n].status = "ready" /\ dispatch'[n].worktree = w
    /\ dispatch'[n].violated = dispatch[n].violated /\ dispatch'[n].rev = dispatch[n].rev

Committed(n) ==
    /\ run' = run
    /\ dispatch'[n].status = "completed" /\ dispatch'[n].worktree = dispatch[n].worktree
    /\ dispatch'[n].violated = dispatch[n].violated /\ dispatch'[n].rev = dispatch[n].rev

\* A success binds the node to its worktree, or completes it; no failure does anything.
LEMMA ApplyEffect ==
    ASSUME PlanTypeOK, NEW p \in Preview, NEW outcome, Apply(p, outcome)
    PROVE  /\ run' \in [Run -> RunRecord] /\ dispatch' \in [Run -> DispatchRecord]
           /\ \A q \in Run \ {p.node} : run'[q] = run[q] /\ dispatch'[q] = dispatch[q]
           /\ \/ run' = run /\ dispatch' = dispatch
              \/ outcome = "done" /\ p.operation = "create_worktree" /\ Bound(p.node, p.worktree)
              \/ outcome = "done" /\ p.operation = "commit_paths" /\ Committed(p.node)
           /\ outcome = "done" /\ p.operation = "create_worktree" => Bound(p.node, p.worktree)
           /\ outcome = "done" /\ p.operation = "commit_paths" => Committed(p.node)
  <1>t. run \in [Run -> RunRecord] /\ dispatch \in [Run -> DispatchRecord] /\ p.node \in Run
    BY PreviewKinds DEF PlanTypeOK, TypeOK, DispatchRecord
  <1> DEFINE n == p.node
             w == p.worktree
  <1>1. CASE outcome = "done" /\ p.operation = "create_worktree"
    <2>1. /\ run' = [run EXCEPT ![n].worktree = w]
          /\ dispatch' = [dispatch EXCEPT ![n].worktree = w, ![n].status = "ready"]
      BY <1>1, Zenon DEF Apply
    <2>2. w \in Worktree /\ n \in Run
      BY <1>1, PreviewKinds
    <2> DEFINE row == [run[n] EXCEPT !.worktree = w]
               drow == [dispatch[n] EXCEPT !.worktree = w, !.status = "ready"]
    <2> HIDE DEF n, w
    <2>3. run' = [run EXCEPT ![n] = row] /\ dispatch' = [dispatch EXCEPT ![n] = drow]
      BY <2>1
    <2>4. /\ row \in RunRecord
          /\ row.status = run[n].status /\ row.task = run[n].task /\ row.worktree = w
      BY <1>t, <2>2 DEF RunRecord
    <2>5. /\ drow \in DispatchRecord
          /\ drow.status = "ready" /\ drow.worktree = w
          /\ drow.violated = dispatch[n].violated /\ drow.rev = dispatch[n].rev
      BY <1>t, <2>2 DEF DispatchRecord, DispatchStatus
    <2> HIDE DEF row, drow
    <2>6. /\ run' \in [Run -> RunRecord] /\ dispatch' \in [Run -> DispatchRecord]
          /\ run'[n] = row /\ dispatch'[n] = drow
          /\ \A q \in Run \ {n} : run'[q] = run[q] /\ dispatch'[q] = dispatch[q]
      BY <1>t, <2>2, <2>3, <2>4, <2>5
    <2>7. Bound(n, w)
      BY <2>4, <2>5, <2>6 DEF Bound
    <2> QED
      BY <1>1, <2>6, <2>7 DEF n, w
  <1>2. CASE outcome = "done" /\ p.operation = "commit_paths"
    <2>1. /\ run' = run
          /\ dispatch' = [dispatch EXCEPT ![n].status = "completed"]
      BY <1>2, Zenon DEF Apply
    <2>2. "completed" \in DispatchStatus
      BY DEF DispatchStatus
    <2> HIDE DEF n
    <2>n. n \in Run
      BY <1>t DEF n
    <2>3. /\ dispatch'[n].status = "completed" /\ dispatch'[n].worktree = dispatch[n].worktree
          /\ dispatch'[n].violated = dispatch[n].violated /\ dispatch'[n].rev = dispatch[n].rev
          /\ dispatch' \in [Run -> DispatchRecord]
          /\ \A q \in Run \ {n} : dispatch'[q] = dispatch[q]
      BY <1>t, <2>1, <2>2, <2>n, DispatchStatusEffect
    <2>4. Committed(n)
      BY <2>1, <2>3 DEF Committed
    <2> QED
      BY <1>2, <1>t, <2>1, <2>3, <2>4 DEF n
  <1>3. CASE /\ ~(outcome = "done" /\ p.operation = "create_worktree")
             /\ ~(outcome = "done" /\ p.operation = "commit_paths")
    <2>1. run' = run /\ dispatch' = dispatch
      BY <1>3, Zenon DEF Apply
    <2> QED
      BY <1>3, <1>t, <2>1
  <1> QED
    BY <1>1, <1>2, <1>3

\* The plan moves by an operation of the plan or by the settlement of an action, and by
\* nothing else the Git Controller does.
LEMMA PlanMoves ==
    ASSUME [GitNext]_allVars
    PROVE  [PlanNext]_planAll \/ \E c \in Call : SettleGitAction(c)
  BY DEF GitNext, GitStep, PlanStep, OtherEvent, EditWorktree, PreviewGitAction, DecideGitAction,
         ObserveAgain, ReserveGitAction, RunGit, EndCall, ReconcileGitAction, allVars, planAll

\* The action of a call that settles.
LEMMA SettledAction ==
    ASSUME GitTypeOK, CallsInOrder, NEW c \in Call, SettleGitAction(c)
    PROVE  /\ call[c].action \in Actions
           /\ Shown(call[c].action) \in Preview
           /\ Apply(Shown(call[c].action), call[c].at)
           /\ LeasesUnique(run')
           /\ UNCHANGED <<room, attempt, question, review, guidance, revision, evidence, decision,
                          tip, dirty>>
  <1>1. call[c].action \in Actions
    BY DEF SettleGitAction, CallsInOrder, CallOk
  <1>4. Shown(call[c].action) \in Preview
    BY <1>1, ShownIsPreview
  <1> QED
    BY <1>1, <1>4, Zenon DEF SettleGitAction

\* A worktree with changes has a branch.
DirtyHasBranch == \A w \in Worktree : dirty[w] # {} => tip[w] # None

\* The branch an action starts from, or is to integrate, exists.
SourcesExist ==
    \A i \in Actions : Shown(i).operation # "commit_paths" => tip[Shown(i).source] # None

\* What git does to branches and worktrees.
LEMMA RepositoryStep ==
    ASSUME GitTypeOK, DirtyHasBranch, NEW p \in Preview,
           \/ p.operation = "create_worktree" /\ GitCreate(p)
           \/ p.operation = "commit_paths" /\ GitCommit(p)
           \/ /\ p.operation = "integrate_fast_forward" /\ GitFastForward(p)
              /\ tip[p.source] # None
    PROVE  /\ tip' \in [Branch -> (SUBSET Run) \cup {None}]
           /\ dirty' \in [Worktree -> Change \cup {{}}]
           /\ \A b \in Branch : tip[b] # None => tip'[b] # None
           /\ \A w \in Worktree : dirty'[w] # {} => dirty[w] # {}
  <1>t. /\ tip \in [Branch -> (SUBSET Run) \cup {None}]
        /\ dirty \in [Worktree -> Change \cup {{}}]
    BY DEF GitTypeOK
  <1>p. p.node \in Run
    BY PreviewKinds
  <1>1. CASE p.operation = "create_worktree" /\ GitCreate(p)
    <2>1. p.worktree \in Branch /\ p.source \in Branch
      BY <1>1, PreviewKinds DEF Branch
    <2> QED
      BY <1>1, <1>t, <2>1 DEF GitCreate
  <1>2. CASE p.operation = "commit_paths" /\ GitCommit(p)
    <2>1. p.worktree \in Worktree /\ p.worktree \in Branch /\ p.paths \in Change
      BY <1>2, PreviewKinds DEF Branch
    <2>2. dirty[p.worktree] # {} /\ dirty[p.worktree] \in Change
      BY <1>2, <1>t, <2>1 DEF GitCommit
    <2>3. tip[p.worktree] \in SUBSET Run
      BY <1>t, <2>1, <2>2 DEF DirtyHasBranch
    <2>4. dirty[p.worktree] \ p.paths \in Change \cup {{}}
      BY <2>1, <2>2, GitAssumption
    <2>5. tip[p.worktree] \cup {p.node} \in SUBSET Run /\ tip[p.worktree] \cup {p.node} # None
      BY <1>p, <2>3, GitAssumption
    <2>6. /\ tip' = [tip EXCEPT ![p.worktree] = tip[p.worktree] \cup {p.node}]
          /\ dirty' = [dirty EXCEPT ![p.worktree] = dirty[p.worktree] \ p.paths]
      BY <1>2 DEF GitCommit
    <2> DEFINE grown == tip[p.worktree] \cup {p.node}
               left  == dirty[p.worktree] \ p.paths
    <2> HIDE DEF grown, left
    <2>7. /\ grown \in SUBSET Run /\ grown # None /\ left \in Change \cup {{}}
          /\ tip' = [tip EXCEPT ![p.worktree] = grown]
          /\ dirty' = [dirty EXCEPT ![p.worktree] = left]
      BY <2>4, <2>5, <2>6 DEF grown, left
    <2> QED
      BY <1>t, <2>1, <2>2, <2>7
  <1>3. CASE p.operation = "integrate_fast_forward" /\ GitFastForward(p) /\ tip[p.source] # None
    <2>1. p.source \in Branch /\ Main \in Branch
      BY <1>3, PreviewKinds DEF Branch
    <2> QED
      BY <1>3, <1>t, <2>1 DEF GitFastForward
  <1> QED
    BY <1>1, <1>2, <1>3

\* A branch, once there is one, stays; no worktree is changed without one.
LEMMA BranchesStep ==
    ASSUME GitTypeOK, CallsInOrder, DirtyHasBranch, SourcesExist, [GitNext]_allVars
    PROVE  /\ tip' \in [Branch -> (SUBSET Run) \cup {None}]
           /\ dirty' \in [Worktree -> Change \cup {{}}]
           /\ \A b \in Branch : tip[b] # None => tip'[b] # None
           /\ DirtyHasBranch'
  <1>t. /\ tip \in [Branch -> (SUBSET Run) \cup {None}]
        /\ dirty \in [Worktree -> Change \cup {{}}]
    BY DEF GitTypeOK
  <1>1. CASE tip' = tip /\ dirty' = dirty
    BY <1>t, <1>1 DEF DirtyHasBranch
  <1>2. ASSUME NEW w \in Worktree, EditWorktree(w)
        PROVE  /\ tip' = tip
               /\ dirty' \in [Worktree -> Change \cup {{}}]
               /\ DirtyHasBranch'
    BY <1>t, <1>2 DEF EditWorktree, DirtyHasBranch
  <1>3. ASSUME NEW c \in Call, RunGit(c), ~(tip' = tip /\ dirty' = dirty)
        PROVE  /\ tip' \in [Branch -> (SUBSET Run) \cup {None}]
               /\ dirty' \in [Worktree -> Change \cup {{}}]
               /\ \A b \in Branch : tip[b] # None => tip'[b] # None
               /\ \A w \in Worktree : dirty'[w] # {} => dirty[w] # {}
    <2> DEFINE i == call[c].action
               p == Shown(i)
    <2>1. i \in Actions
      BY <1>3 DEF RunGit, CallsInOrder, CallOk
    <2>2. p \in Preview
      BY <2>1, ShownIsPreview
    <2>3. (CASE p.operation = "create_worktree" -> GitCreate(p)
             [] p.operation = "commit_paths"    -> GitCommit(p)
             [] OTHER                           -> GitFastForward(p))
      BY <1>3, Zenon DEF RunGit
    <2>4. p.operation # "commit_paths" => tip[p.source] # None
      BY <2>1 DEF SourcesExist
    <2> HIDE DEF p
    <2>5. p.operation \in {"create_worktree", "commit_paths", "integrate_fast_forward"}
      BY <2>2, PreviewKinds
    <2>6. \/ p.operation = "create_worktree" /\ GitCreate(p)
          \/ p.operation = "commit_paths" /\ GitCommit(p)
          \/ /\ p.operation = "integrate_fast_forward" /\ GitFastForward(p)
             /\ tip[p.source] # None
      BY <2>3, <2>4, <2>5
    <2> QED
      BY <2>2, <2>6, RepositoryStep
  <1>4. (\E w \in Worktree : EditWorktree(w)) \/ (\E c \in Call : RunGit(c))
        \/ (tip' = tip /\ dirty' = dirty)
    BY DEF GitNext, GitStep, PlanStep, OtherEvent, PreviewGitAction, DecideGitAction, ObserveAgain,
           ReserveGitAction, EndCall, SettleGitAction, ReconcileGitAction, allVars, gitVars
  <1> QED
    BY <1>1, <1>2, <1>3, <1>4, <1>t DEF DirtyHasBranch, Branch

\* A preview that is new was observed and admitted in the state it is inserted in.
LEMMA NewPreview ==
    ASSUME GitTypeOK, [GitNext]_allVars, NEW i \in Actions', i \notin Actions
    PROVE  /\ PreviewGitAction(Shown(i)') /\ Shown(i)' \in Preview
           /\ i = Len(action) + 1 /\ action'[i].status = "previewed"
           /\ UNCHANGED <<vars, planVars, call, tip, dirty>>
  <1>t. action \in Seq(ActionRecord) /\ Len(action) \in Nat
    BY DEF GitTypeOK, ActionRecord
  <1>1. CASE \E p \in Preview : PreviewGitAction(p)
    <2>1. PICK p \in Preview : PreviewGitAction(p)
      BY <1>1
    <2> DEFINE row == [preview |-> p, status |-> "previewed"]
    <2>2. action' = Append(action, row)
      BY <2>1 DEF PreviewGitAction
    <2>3. row.preview = p /\ row.status = "previewed"
      OBVIOUS
    <2> HIDE DEF row
    <2>4. i = Len(action) + 1 /\ action'[i] = row
      BY <1>t, <2>2 DEF Actions
    <2>5. Shown(i)' = p
      BY <2>3, <2>4 DEF Shown
    <2> QED
      BY <2>1, <2>3, <2>4, <2>5 DEF PreviewGitAction
  <1>2. CASE ~ \E p \in Preview : PreviewGitAction(p)
    <2>1. \/ action' = action
          \/ \E j : \E s : action' = [action EXCEPT ![j].status = s]
      BY <1>2 DEF GitNext, GitStep, PlanStep, OtherEvent, EditWorktree, DecideGitAction, ObserveAgain,
             ReserveGitAction, RunGit, EndCall, SettleGitAction, ReconcileGitAction, allVars, gitVars
    <2>2. Len(action') = Len(action)
      BY <1>t, <2>1
    <2> QED
      BY <2>2 DEF Actions
  <1> QED
    BY <1>1, <1>2

\* Sources keep existing.
LEMMA SourcesStep ==
    GitTypeOK /\ CallsInOrder /\ DirtyHasBranch /\ SourcesExist /\ [GitNext]_allVars
        => SourcesExist'
  <1> SUFFICES ASSUME GitTypeOK, CallsInOrder, DirtyHasBranch, SourcesExist, [GitNext]_allVars,
                      NEW i \in Actions', Shown(i)'.operation # "commit_paths"
               PROVE  tip'[Shown(i)'.source] # None
    BY DEF SourcesExist, Shown
  <1>1. CASE i \in Actions
    <2>1. Shown(i)' = Shown(i) /\ tip[Shown(i).source] # None
      BY <1>1, ActionStep DEF SourcesExist
    <2>2. Shown(i).source \in Branch
      <3>1. Shown(i) \in Preview
        BY <1>1, ShownIsPreview
      <3> QED
        BY <2>1, <3>1, PreviewKinds DEF Branch
    <2> QED
      BY <2>1, <2>2, BranchesStep
  <1>2. CASE i \notin Actions
    <2>1. /\ PreviewGitAction(Shown(i)') /\ Shown(i)' \in Preview
          /\ UNCHANGED <<vars, planVars, call, tip, dirty>>
      BY <1>2, NewPreview
    <2>2. PICK p \in Preview : p = Shown(i)'
      BY <2>1
    <2>3. Observed(p) /\ p.operation # "commit_paths"
      BY <2>1, <2>2 DEF PreviewGitAction
    <2>4. tip[p.source] # None
      BY <2>3 DEF Observed
    <2> QED
      BY <2>1, <2>2, <2>4
  <1> QED
    BY <1>1, <1>2

-----------------------------------------------------------------------------
(* Columns keep their domains.                                             *)

GitShape == GitTypeOK /\ CallsInOrder /\ DirtyHasBranch /\ SourcesExist

\* Every step of the plan or of the Git Controller keeps each column in its domain.
LEMMA GitTypeStep == GitShape /\ [GitNext]_allVars => GitTypeOK'
  <1> SUFFICES ASSUME GitShape, [GitNext]_allVars PROVE GitTypeOK'
    OBVIOUS
  <1>s. GitTypeOK /\ CallsInOrder /\ DirtyHasBranch /\ SourcesExist
    BY DEF GitShape
  <1>t. /\ PlanTypeOK
        /\ action \in Seq(ActionRecord) /\ Len(action) \in Nat /\ Len(action) <= MaxAction
        /\ cursor \in 0 .. Len(action)
        /\ call \in [Call -> CallRecord]
    BY <1>s DEF GitTypeOK, ActionRecord, CallRecord
  <1>1. PlanTypeOK'
    <2>1. CASE [PlanNext]_planAll
      BY <1>t, <2>1, PlanTypeStep
    <2>2. ASSUME NEW c \in Call, SettleGitAction(c) PROVE PlanTypeOK'
      <3>1. /\ run' \in [Run -> RunRecord] /\ dispatch' \in [Run -> DispatchRecord]
            /\ UNCHANGED <<room, attempt, question, review, guidance, revision, evidence, decision>>
        BY <1>s, <1>t, <2>2, SettledAction, ApplyEffect
      <3>2. TypeOK'
        BY <1>t, <3>1 DEF PlanTypeOK, TypeOK
      <3> QED
        BY <1>t, <3>1, <3>2 DEF PlanTypeOK, DispatchRecord
    <2> QED
      BY <2>1, <2>2, PlanMoves
  <1>2. action' \in Seq(ActionRecord) /\ Len(action') <= MaxAction /\ Len(action') \in Nat
        /\ Len(action) <= Len(action')
    <2>1. action' \in Seq(ActionRecord) /\ Len(action') <= MaxAction /\ Len(action) <= Len(action')
      BY <1>s, ActionStep
    <2> QED
      BY <2>1
  <1>3. cursor' \in 0 .. Len(action')
    <2>1. CASE cursor' \in {0, cursor}
      BY <1>t, <1>2, <2>1
    <2>2. ASSUME NEW p \in Preview, PreviewGitAction(p) PROVE cursor' \in 0 .. Len(action')
      BY <1>t, <2>2 DEF PreviewGitAction
    <2>3. ASSUME NEW i \in Actions, NEW verdict \in {"approved", "rejected"},
                 DecideGitAction(i, verdict)
          PROVE  cursor' \in 0 .. Len(action')
      BY <1>t, <1>2, <2>3 DEF DecideGitAction, Actions
    <2> QED
      BY <2>1, <2>2, <2>3
      DEF GitNext, GitStep, PlanStep, OtherEvent, EditWorktree, ObserveAgain, ReserveGitAction,
          RunGit, EndCall, SettleGitAction, ReconcileGitAction, allVars, gitVars
  <1>4. call' \in [Call -> CallRecord]
    <2>1. CASE call' = call
      BY <1>t, <2>1
    <2>2. ASSUME NEW c \in Call, NEW s \in CallState, call' = [call EXCEPT ![c].at = s]
          PROVE  call' \in [Call -> CallRecord]
      BY <1>t, <2>2, CallEffect
    <2>3. ASSUME NEW c \in Call, NEW i \in Actions, ObserveAgain(c, i)
          PROVE  call' \in [Call -> CallRecord]
      <3>1. [at |-> "observed", action |-> i] \in CallRecord
        BY <1>t, GitAssumption DEF Actions, CallRecord, CallState
      <3> QED
        BY <1>t, <2>3, <3>1 DEF ObserveAgain
    <2>4. ASSUME NEW c \in Call, EndCall(c) \/ SettleGitAction(c)
          PROVE  call' \in [Call -> CallRecord]
      <3>1. Idle \in CallRecord
        BY GitAssumption DEF Idle, CallRecord, CallState
      <3>2. call' = [call EXCEPT ![c] = Idle]
        BY <2>4 DEF EndCall, SettleGitAction
      <3> QED
        BY <1>t, <3>1, <3>2
    <2>5. ASSUME NEW c \in Call, ReserveGitAction(c) \/ RunGit(c)
          PROVE  \E s \in CallState : call' = [call EXCEPT ![c].at = s]
      BY <2>5 DEF ReserveGitAction, RunGit, CallState
    <2> QED
      BY <2>1, <2>2, <2>3, <2>4, <2>5
      DEF GitNext, GitStep, PlanStep, OtherEvent, EditWorktree, PreviewGitAction, DecideGitAction,
          ReconcileGitAction, allVars, gitVars
  <1>5. tip' \in [Branch -> (SUBSET Run) \cup {None}] /\ dirty' \in [Worktree -> Change \cup {{}}]
    BY <1>s, BranchesStep
  <1> QED
    BY <1>1, <1>2, <1>3, <1>4, <1>5 DEF GitTypeOK, ActionRecord, CallRecord

\* Columns keep their domains, a call runs git only for what was reserved, and branches
\* stay, for every set of graphs, worktrees and calls.
THEOREM GitKeepsShape == GitSpec => []GitShape
<1>1. GitInit => GitShape
  <2> SUFFICES ASSUME GitInit PROVE GitShape
    OBVIOUS
  <2>1. PlanTypeOK
    BY PlanInitTyped DEF GitInit
  <2>2. /\ action = << >> /\ Len(action) = 0 /\ Actions = {} /\ cursor = 0
        /\ \A c \in Call : call[c] = Idle
        /\ call \in [Call -> {Idle}]
        /\ tip \in [Branch -> (SUBSET Run) \cup {None}]
        /\ dirty = [w \in Worktree |-> {}]
    BY DEF GitInit, Actions
  <2>3. Idle \in CallRecord
    BY GitAssumption DEF Idle, CallRecord, CallState
  <2>4. call \in [Call -> CallRecord]
    BY <2>2, <2>3
  <2>5. GitTypeOK
    BY <2>1, <2>2, <2>4, GitAssumption DEF GitTypeOK, CallRecord
  <2>6. CallsInOrder /\ DirtyHasBranch /\ SourcesExist
    BY <2>2 DEF CallsInOrder, CallOk, Idle, DirtyHasBranch, SourcesExist
  <2> QED
    BY <2>5, <2>6 DEF GitShape
<1>2. GitShape /\ [GitNext]_allVars => GitShape'
  BY GitTypeStep, CallsStep, BranchesStep, SourcesStep DEF GitShape
<1>3. QED
  BY <1>1, <1>2, PTL DEF GitSpec

\* Every column of the Git Controller keeps its domain.
THEOREM GitIsTyped == GitSpec => []GitTypeOK
<1>1. GitShape => GitTypeOK
  BY DEF GitShape
<1>2. QED
  BY <1>1, GitKeepsShape, PTL

-----------------------------------------------------------------------------
(* What the user approves is done once, and as it was shown.               *)

\* Action i is the last of its operation for node n in revision k, and succeeded.
DoneFor(k, n, operation, i) ==
    i \in Actions /\ IsLatestFor(k, n, operation, i) /\ action[i].status = "succeeded"

\* An operation is admitted by what other operations have done, and by the plan.
LEMMA AdmittedStays ==
    ASSUME UNCHANGED <<vars, planVars>>, NEW p \in Preview, Admitted(p),
           \A i \in Actions : Shown(i)' = Shown(i),
           \A k, n, operation, i :
              operation # p.operation =>
                 (DoneFor(k, n, operation, i)' <=> DoneFor(k, n, operation, i))
    PROVE  Admitted(p)'
  <1>u. UNCHANGED <<run, dispatch, revision>>
    BY DEF vars, planVars
  <1>g. UNCHANGED CurrentGraph
    BY <1>u DEF CurrentGraph
  <1>1. /\ HasCurrent' /\ (p.rev = Len(revision))'
        /\ (p.node \in CurrentGraph.node)' /\ Dispatched(p.node)'
        /\ (~dispatch[p.node].violated /\ dispatch[p.node].status # "blocked")'
    BY <1>u, <1>g DEF Admitted, HasCurrent, Dispatched
  <1>k. p.operation \in {"create_worktree", "commit_paths", "integrate_fast_forward"}
    BY PreviewKinds
  <1>2. CASE p.operation = "create_worktree"
    <2>1. CreateAdmitted(p)
      BY <1>2 DEF Admitted
    <2>2. CreateAdmitted(p)'
      <3>1. \A k, m, i : DoneFor(k, m, "commit_paths", i)' <=> DoneFor(k, m, "commit_paths", i)
        BY <1>2
      <3>2. (dispatch[p.node].status = "awaiting_git" /\ dispatch[p.node].worktree = None)'
        BY <1>u, <2>1 DEF CreateAdmitted
      <3>3. SUFFICES ASSUME CurrentGraph.policy = "integration_only",
                            Ancestors(CurrentGraph, p.node) # {}
                     PROVE  \E m \in Run :
                               /\ MaximalPredecessors(CurrentGraph, p.node) = {m}
                               /\ \E i : DoneFor(p.rev, m, "commit_paths", i)'
                                         /\ p.source = Shown(i)'.worktree
        BY <1>g, <3>2 DEF CreateAdmitted, DoneFor
      <3>4. PICK m \in Run :
               /\ MaximalPredecessors(CurrentGraph, p.node) = {m}
               /\ \E i : DoneFor(p.rev, m, "commit_paths", i) /\ p.source = Shown(i).worktree
        BY <2>1, <3>3 DEF CreateAdmitted, DoneFor
      <3>5. PICK i : DoneFor(p.rev, m, "commit_paths", i) /\ p.source = Shown(i).worktree
        BY <3>4
      <3>6. DoneFor(p.rev, m, "commit_paths", i)' /\ Shown(i)' = Shown(i)
        BY <3>1, <3>5 DEF DoneFor
      <3> QED
        BY <3>4, <3>5, <3>6
    <2> QED
      BY <1>1, <1>2, <2>2 DEF Admitted
  <1>3. CASE p.operation = "commit_paths"
    <2>1. CommitAdmitted(p)
      BY <1>3 DEF Admitted
    <2>2. CommitAdmitted(p)'
      <3>1. \A k, m, i : DoneFor(k, m, "create_worktree", i)' <=> DoneFor(k, m, "create_worktree", i)
        BY <1>3
      <3>2. (dispatch[p.node].status = "awaiting_git" /\ dispatch[p.node].worktree = p.worktree
               /\ run[p.node].status = "accepted")'
        BY <1>u, <2>1 DEF CommitAdmitted
      <3>3. \A i : DoneFor(p.rev, p.node, "create_worktree", i)' => p.worktree = Shown(i)'.worktree
        BY <2>1, <3>1 DEF CommitAdmitted, DoneFor
      <3>4. (\A path \in p.paths :
                \E s \in CurrentGraph.scope[p.node] : ScopeContainsPath(s, path))'
        BY <1>g, <2>1 DEF CommitAdmitted
      <3> QED
        BY <3>2, <3>3, <3>4 DEF CommitAdmitted, DoneFor
    <2> QED
      BY <1>1, <1>3, <2>2 DEF Admitted
  <1>4. CASE p.operation = "integrate_fast_forward"
    <2>1. IntegrateAdmitted(p)
      BY <1>4 DEF Admitted
    <2>2. IntegrateAdmitted(p)'
      <3>1. \A k, m, i : DoneFor(k, m, "create_worktree", i)' <=> DoneFor(k, m, "create_worktree", i)
        BY <1>4
      <3>2. (p.node \in CurrentGraph.integration /\ run[p.node].status = "accepted"
               /\ dispatch[p.node].status = "completed")'
        BY <1>u, <1>g, <2>1 DEF IntegrateAdmitted
      <3>3. PICK i : DoneFor(p.rev, p.node, "create_worktree", i) /\ p.source = Shown(i).worktree
        BY <2>1 DEF IntegrateAdmitted, DoneFor
      <3>4. DoneFor(p.rev, p.node, "create_worktree", i)' /\ Shown(i)' = Shown(i)
        BY <3>1, <3>3 DEF DoneFor
      <3> QED
        BY <3>2, <3>3, <3>4 DEF IntegrateAdmitted, DoneFor
    <2> QED
      BY <1>1, <1>4, <2>2 DEF Admitted
  <1> QED
    BY <1>k, <1>2, <1>3, <1>4

\* While a preview, or its approval, is the Room's last event, the Room would admit it
\* afresh.
PreviewStands ==
    cursor # 0 /\ action[cursor].status \in {"previewed", "approved"} => Admitted(Shown(cursor))

\* A step that puts an action into execution is its reservation.
LEMMA Reservation ==
    ASSUME GitTypeOK, [GitNext]_allVars, NEW i \in Actions,
           action[i].status # "executing", action'[i].status = "executing"
    PROVE  cursor = i /\ action[i].status = "approved" /\ UNCHANGED <<vars, planVars, tip>>
  <1>t. action \in Seq(ActionRecord)
    BY DEF GitTypeOK, ActionRecord
  <1>m. action'[i] # action[i]
    OBVIOUS
  <1>1. ASSUME NEW c \in Call, ReserveGitAction(c)
        PROVE  cursor = i /\ action[i].status = "approved" /\ UNCHANGED <<vars, planVars, tip>>
    <2>1. PICK j : j = call[c].action
      OBVIOUS
    <2>2. /\ action[j].status = "approved" /\ cursor = j
          /\ action' = [action EXCEPT ![j].status = "executing"]
          /\ UNCHANGED <<vars, planVars, tip>>
      BY <1>1, <2>1 DEF ReserveGitAction
    <2>3. j = i
      BY <1>t, <1>m, <2>2, ActionStatusEffect DEF ActionStatus
    <2> QED
      BY <2>2, <2>3
  <1>2. ASSUME NEW j, NEW s \in ActionStatus, s # "executing",
               action' = [action EXCEPT ![j].status = s]
        PROVE  FALSE
    BY <1>t, <1>m, <1>2, ActionStatusEffect
  <1>3. ASSUME NEW c \in Call, SettleGitAction(c) PROVE FALSE
    <2>1. PICK j : j = call[c].action
      OBVIOUS
    <2>2. \E s \in ActionStatus : s # "executing" /\ action' = [action EXCEPT ![j].status = s]
      BY <1>3, <2>1 DEF SettleGitAction, ActionStatus
    <2> QED
      BY <1>2, <2>2
  <1>4. ASSUME NEW j \in Actions, ReconcileGitAction(j) PROVE FALSE
    BY <1>2, <1>4 DEF ReconcileGitAction, ActionStatus
  <1>5. ASSUME NEW j \in Actions, NEW verdict \in {"approved", "rejected"},
               DecideGitAction(j, verdict)
        PROVE FALSE
    BY <1>2, <1>5 DEF DecideGitAction, ActionStatus
  <1>6. ASSUME NEW p \in Preview, PreviewGitAction(p) PROVE FALSE
    <2> DEFINE row == [preview |-> p, status |-> "previewed"]
    <2>1. action' = Append(action, row) /\ row \in ActionRecord
      BY <1>6 DEF PreviewGitAction, ActionRecord, ActionStatus
    <2> HIDE DEF row
    <2> QED
      BY <1>t, <1>m, <2>1 DEF Actions
  <1> QED
    BY <1>1, <1>3, <1>4, <1>5, <1>6, <1>m
    DEF GitNext, GitStep, PlanStep, OtherEvent, EditWorktree, ObserveAgain, RunGit, EndCall,
        allVars, gitVars

\* What the last event shows stands until another event comes.
LEMMA StandsStep == GitShape /\ PreviewStands /\ [GitNext]_allVars => PreviewStands'
  <1> SUFFICES ASSUME GitTypeOK, PreviewStands, [GitNext]_allVars PROVE PreviewStands'
    BY DEF GitShape
  <1>t. action \in Seq(ActionRecord) /\ Len(action) \in Nat /\ cursor \in 0 .. Len(action)
    BY DEF GitTypeOK, ActionRecord
  <1>1. CASE UNCHANGED <<vars, planVars, action, cursor>>
    <2>1. CASE cursor # 0 /\ action[cursor].status \in {"previewed", "approved"}
      <3>1. PICK p : p = Shown(cursor)
        OBVIOUS
      <3>2. Admitted(p) /\ cursor \in Actions
        BY <1>t, <2>1, <3>1 DEF PreviewStands, Actions
      <3>3. p \in Preview
        BY <3>1, <3>2, ShownIsPreview
      <3>4. \A k, n, operation, i : DoneFor(k, n, operation, i)' <=> DoneFor(k, n, operation, i)
        BY <1>1 DEF DoneFor, Actions, IsLatestFor, Shown
      <3>5. \A i \in Actions : Shown(i)' = Shown(i)
        BY <1>1 DEF Shown
      <3>6. Admitted(p)'
        BY <1>1, <3>2, <3>3, <3>4, <3>5, AdmittedStays
      <3> QED
        BY <1>1, <3>1, <3>6 DEF PreviewStands, Shown
    <2> QED
      BY <1>1, <2>1 DEF PreviewStands
  <1>2. CASE cursor' = 0
    BY <1>2 DEF PreviewStands
  <1>3. ASSUME NEW p \in Preview, PreviewGitAction(p) PROVE PreviewStands'
    <2> DEFINE row == [preview |-> p, status |-> "previewed"]
    <2>1. row \in ActionRecord /\ row.preview = p
      BY DEF ActionRecord, ActionStatus
    <2>l. PICK last : last = Len(action) + 1
      OBVIOUS
    <2>2. /\ action' = Append(action, row) /\ cursor' = last /\ Admitted(p)
          /\ UNCHANGED <<vars, planVars>>
      BY <1>3, <2>l DEF PreviewGitAction
    <2> HIDE DEF row
    <2>3. /\ Actions' = Actions \cup {last} /\ last \notin Actions
          /\ \A i \in Actions : action'[i] = action[i]
          /\ action'[last] = row
      BY <1>t, <2>l, <2>1, <2>2 DEF Actions
    <2>4. (\A i \in Actions : Shown(i)' = Shown(i)) /\ Shown(last)' = p
      BY <2>1, <2>3 DEF Shown
    <2>5. ASSUME NEW k, NEW n, NEW operation, NEW i, operation # p.operation
          PROVE  DoneFor(k, n, operation, i)' <=> DoneFor(k, n, operation, i)
      <3>1. CASE i \in Actions
        <4>1. IsLatestFor(k, n, operation, i)' <=> IsLatestFor(k, n, operation, i)
          BY <2>3, <2>4, <2>5, <3>1 DEF IsLatestFor
        <4> QED
          BY <2>3, <3>1, <4>1 DEF DoneFor
      <3>2. CASE i = last
        BY <2>3, <2>4, <2>5, <3>2 DEF DoneFor, IsLatestFor
      <3> QED
        BY <2>3, <3>1, <3>2 DEF DoneFor
    <2>6. Admitted(p)'
      BY <2>2, <2>4, <2>5, AdmittedStays
    <2>7. Shown(cursor)' = p
      BY <2>2, <2>4 DEF Shown
    <2> QED
      BY <2>6, <2>7 DEF PreviewStands
  <1>4. ASSUME NEW j \in Actions, NEW verdict \in {"approved", "rejected"},
               DecideGitAction(j, verdict)
        PROVE PreviewStands'
    <2>1. /\ action[j].status = "previewed" /\ cursor = j /\ cursor' = j
          /\ action' = [action EXCEPT ![j].status = verdict]
          /\ UNCHANGED <<vars, planVars>> /\ verdict \in ActionStatus
      BY <1>4 DEF DecideGitAction, ActionStatus
    <2>2. /\ Len(action') = Len(action)
          /\ \A i \in Actions : /\ action'[i].preview = action[i].preview
                                /\ i # j => action'[i] = action[i]
                                /\ i = j => action'[i].status = verdict
      BY <1>t, <2>1, ActionStatusEffect
    <2>3. Actions' = Actions /\ \A i \in Actions : Shown(i)' = Shown(i)
      BY <2>2 DEF Actions, Shown
    <2>4. \A i \in Actions : action'[i].status = "succeeded" <=> action[i].status = "succeeded"
      BY <2>1, <2>2
    <2>5. \A k, n, operation, i : IsLatestFor(k, n, operation, i)' /\ i \in Actions
                                     <=> IsLatestFor(k, n, operation, i) /\ i \in Actions
      BY <2>3 DEF IsLatestFor
    <2>6. \A k, n, operation, i : DoneFor(k, n, operation, i)' <=> DoneFor(k, n, operation, i)
      BY <2>3, <2>4, <2>5 DEF DoneFor
    <2>7. PICK p : p = Shown(j)
      OBVIOUS
    <2>8. Admitted(p) /\ p \in Preview
      <3>1. j # 0
        BY <1>t DEF Actions
      <3> QED
        BY <2>1, <2>7, <3>1, ShownIsPreview DEF PreviewStands
    <2>9. Admitted(p)'
      BY <2>1, <2>3, <2>6, <2>8, AdmittedStays
    <2> QED
      BY <2>1, <2>3, <2>7, <2>9 DEF PreviewStands
  <1> QED
    BY <1>1, <1>2, <1>3, <1>4
    DEF GitNext, GitStep, PlanStep, OtherEvent, EditWorktree, ObserveAgain, ReserveGitAction, RunGit,
        EndCall, SettleGitAction, ReconcileGitAction, allVars, gitVars

\* An action moves onward only, and a call that reaches git is the only one past its
\* observation.
ActionRunsOnce(i) ==
    /\ action[i].status \in TerminalAction => action'[i] = action[i]
    /\ action[i].status = "executing" => action'[i].status \in {"executing"} \cup TerminalAction
    /\ \A c \in Call : call'[c] = [at |-> "git", action |-> i] /\ call[c] # call'[c] =>
          \A d \in Call \ {c} : call[d].action = i => call[d].at = "observed"

LEMMA RunsOnceStep ==
    ASSUME GitShape, [GitNext]_allVars, NEW i \in Actions
    PROVE  ActionRunsOnce(i)
  <1>s. GitTypeOK /\ CallsInOrder
    BY DEF GitShape
  <1>1. /\ action[i].status \in TerminalAction => action'[i] = action[i]
        /\ action[i].status = "executing" => action'[i].status \in {"executing"} \cup TerminalAction
    BY <1>s, ActionStep, MovesAreOnward
  <1>2. ASSUME NEW c \in Call, call'[c] = [at |-> "git", action |-> i], call[c] # call'[c],
               NEW d \in Call \ {c}, call[d].action = i
        PROVE  call[d].at = "observed"
    <2>0. call'[c].at = "git" /\ call'[c].action = i
      BY <1>2
    <2>1. ReserveGitAction(c) /\ call[c].action = i
      <3>1. call'[c] # Idle /\ \A j \in Actions : call'[c] # [at |-> "observed", action |-> j]
        BY <2>0 DEF Idle
      <3> QED
        BY <1>s, <1>2, <2>0, <3>1, CallStep
    <2>2. action[i].status = "approved"
      BY <2>1 DEF ReserveGitAction
    <2>3. call[d].at # "idle"
      BY <1>2, <1>s DEF CallsInOrder, CallOk, Idle, Actions
    <2>4. call[d].at \notin {"git", "done", "refused"}
      BY <1>2, <1>s, <2>2 DEF CallsInOrder, CallOk, TerminalAction
    <2>5. call[d].at \in CallState
      BY <1>s DEF GitTypeOK
    <2> QED
      BY <2>3, <2>4, <2>5 DEF CallState
  <1> QED
    BY <1>1, <1>2 DEF ActionRunsOnce

\* One git process per action, of the one approval; an outcome is final; and what is
\* reserved would be admitted afresh, whatever came between preview and execution.
THEOREM ExecutionsAreOnceAsShown == GitSpec => ExecutedOnceAsShown
<1>1. GitInit => PreviewStands
  BY DEF GitInit, PreviewStands
<1>2. GitShape /\ [GitNext]_allVars =>
         [\A i \in Actions :
             /\ action[i].status \in TerminalAction => action'[i] = action[i]
             /\ action[i].status = "executing" =>
                   action'[i].status \in {"executing"} \cup TerminalAction
             /\ \A c \in Call : call'[c] = [at |-> "git", action |-> i] /\ call[c] # call'[c] =>
                   \A d \in Call \ {c} : call[d].action = i => call[d].at = "observed"]_allVars
  BY RunsOnceStep DEF ActionRunsOnce
<1>3. GitShape /\ PreviewStands /\ [GitNext]_allVars =>
         [\A i \in Actions :
             action[i].status # "executing" /\ action'[i].status = "executing" =>
                 Admitted(Shown(i))]_allVars
  <2> SUFFICES ASSUME GitShape, PreviewStands, [GitNext]_allVars, NEW i \in Actions,
                      action[i].status # "executing", action'[i].status = "executing"
               PROVE  Admitted(Shown(i))
    OBVIOUS
  <2>1. cursor = i /\ action[i].status = "approved"
    BY Reservation DEF GitShape
  <2>2. i # 0
    BY DEF Actions
  <2> QED
    BY <2>1, <2>2 DEF PreviewStands
<1>4. QED
  BY <1>1, <1>2, <1>3, StandsStep, GitKeepsShape, PTL
  DEF GitSpec, ExecutedOnceAsShown, ExecutedOnce, ExecutedAsShown

-----------------------------------------------------------------------------
(* Consent, under the Git Controller as well.                              *)

\* A revision is valid, and no amendment of a plan that is worked on changes its policy.
PolicyIsKept ==
    /\ \A k \in 1 .. Len(revision) : ValidGraph(revision[k].graph)
    /\ \A n \in Run : Dispatched(n) =>
          \A k \in dispatch[n].rev .. Len(revision) :
             /\ revision[k].graph.policy = SourceGraph(n).policy
             /\ revision[k].graph.integration = SourceGraph(n).integration

\* An action is for a node that was dispatched, in a revision it was then in.
ActionsAreDispatched ==
    \A i \in Actions :
        /\ Dispatched(Shown(i).node)
        /\ Shown(i).rev \in dispatch[Shown(i).node].rev .. Len(revision)
        /\ Shown(i).operation = "integrate_fast_forward" =>
              SourceGraph(Shown(i).node).policy = "integration_only"

Consent == Founded /\ AmendmentKeepsDispatched /\ PolicyIsKept /\ ActionsAreDispatched

\* A settlement dispatches nobody, and leaves attempts and revisions alone.
LEMMA SettleFrame ==
    ASSUME GitShape, ActionsAreDispatched, NEW c \in Call, SettleGitAction(c)
    PROVE  /\ UNCHANGED <<room, attempt, question, review, guidance, revision, evidence, decision>>
           /\ \A n \in Run : /\ Dispatched(n)' <=> Dispatched(n)
                             /\ dispatch'[n].rev = dispatch[n].rev
                             /\ run'[n].status = run[n].status
                             /\ SourceGraph(n)' = SourceGraph(n)
  <1>1. /\ call[c].action \in Actions
        /\ Shown(call[c].action) \in Preview
        /\ Apply(Shown(call[c].action), call[c].at)
        /\ UNCHANGED <<room, attempt, question, review, guidance, revision, evidence, decision>>
    BY SettledAction DEF GitShape
  <1>2. PICK p \in Preview : p = Shown(call[c].action)
    BY <1>1
  <1>3. PlanTypeOK /\ Dispatched(p.node)
    BY <1>1, <1>2 DEF GitShape, GitTypeOK, ActionsAreDispatched
  <1>4. /\ \A q \in Run \ {p.node} : run'[q] = run[q] /\ dispatch'[q] = dispatch[q]
        /\ \/ run' = run /\ dispatch' = dispatch
           \/ Bound(p.node, p.worktree)
           \/ Committed(p.node)
    BY <1>1, <1>2, <1>3, ApplyEffect
  <1>5. ASSUME NEW n \in Run
        PROVE  /\ Dispatched(n)' <=> Dispatched(n)
               /\ dispatch'[n].rev = dispatch[n].rev
               /\ run'[n].status = run[n].status
    BY <1>3, <1>4 DEF Bound, Committed, Dispatched
  <1> QED
    BY <1>1, <1>5 DEF SourceGraph

\* Nobody dispatched is withdrawn, by the plan or by the Git Controller.
LEMMA DispatchedStays ==
    ASSUME GitShape, Consent, [GitNext]_allVars
    PROVE  /\ \A n \in Run : Dispatched(n) => /\ Dispatched(n)'
                                              /\ dispatch'[n].rev = dispatch[n].rev
                                              /\ SourceGraph(n)' = SourceGraph(n)
           /\ Len(revision) <= Len(revision') /\ Len(revision') \in Nat /\ Len(revision) \in Nat
  <1>t. PlanTypeOK /\ Founded /\ ActionsAreDispatched
    BY DEF GitShape, GitTypeOK, Consent
  <1>1. CASE [PlanNext]_planAll
    BY <1>t, <1>1, DispatchStep, SourceStays, RevisionStep, RevisionsAreTyped
  <1>2. ASSUME NEW c \in Call, SettleGitAction(c)
        PROVE  /\ revision' = revision
               /\ \A n \in Run : Dispatched(n) => /\ Dispatched(n)'
                                                  /\ dispatch'[n].rev = dispatch[n].rev
                                                  /\ SourceGraph(n)' = SourceGraph(n)
    BY <1>t, <1>2, SettleFrame
  <1> QED
    BY <1>t, <1>1, <1>2, PlanMoves, RevisionsAreTyped

\* The plan keeps its policy.
LEMMA PolicyStep ==
    PlanTypeOK /\ Founded /\ PolicyIsKept /\ [PlanNext]_planAll => PolicyIsKept'
  <1> SUFFICES ASSUME PlanTypeOK, Founded, PolicyIsKept, [PlanNext]_planAll PROVE PolicyIsKept'
    OBVIOUS
  <1>l. Len(revision) \in Nat /\ Len(revision') \in Nat /\ Len(revision) <= Len(revision')
    BY RevisionStep, RevisionsAreTyped
  <1>1. ASSUME NEW k \in 1 .. Len(revision') PROVE ValidGraph(revision'[k].graph)
    BY RevisionStep DEF PolicyIsKept
  <1>2. ASSUME NEW n \in Run, Dispatched(n)', NEW k \in dispatch'[n].rev .. Len(revision')
        PROVE  /\ revision'[k].graph.policy = SourceGraph(n)'.policy
               /\ revision'[k].graph.integration = SourceGraph(n)'.integration
    <2>1. CASE ~Dispatched(n)
      BY <1>2, <2>1, NewlyDispatched
    <2>2. CASE Dispatched(n)
      <3>1. /\ dispatch[n].rev \in 1 .. Len(revision)
            /\ dispatch'[n].rev = dispatch[n].rev
            /\ SourceGraph(n)' = SourceGraph(n)
        BY <2>2, SourceStays
      <3>2. \A j \in dispatch[n].rev .. Len(revision) :
               /\ revision[j].graph.policy = SourceGraph(n).policy
               /\ revision[j].graph.integration = SourceGraph(n).integration
        BY <2>2 DEF PolicyIsKept
      <3>3. CASE k \in 1 .. Len(revision)
        BY <1>2, <3>1, <3>2, <3>3, RevisionStep
      <3>4. CASE k \notin 1 .. Len(revision)
        <4>1. k = Len(revision) + 1 /\ Amendable(revision'[k].graph, k)
          <5>1. k \in 1 .. Len(revision')
            BY <1>l, <1>2, <3>1
          <5> QED
            BY <3>4, <5>1, RevisionStep
        <4>2. k > 1 /\ dispatch[n].rev < k
          BY <1>l, <3>1, <4>1
        <4>3. /\ revision'[k].graph.policy = revision[k - 1].graph.policy
              /\ revision'[k].graph.integration = revision[k - 1].graph.integration
          BY <2>2, <4>1, <4>2 DEF Amendable
        <4>4. k - 1 = Len(revision) /\ k - 1 \in dispatch[n].rev .. Len(revision)
          BY <1>l, <3>1, <4>1
        <4> QED
          BY <3>1, <3>2, <4>3, <4>4
      <3> QED
        BY <3>3, <3>4
    <2> QED
      BY <2>1, <2>2
  <1> QED
    BY <1>1, <1>2 DEF PolicyIsKept

\* An action stays one for a dispatched node; a new one is, since it was admitted.
LEMMA ActionsDispatchedStep ==
    GitShape /\ Consent /\ [GitNext]_allVars => ActionsAreDispatched'
  <1> SUFFICES ASSUME GitShape, Consent, [GitNext]_allVars, NEW i \in Actions',
                      NEW p, p = Shown(i)'
               PROVE  /\ Dispatched(p.node)'
                      /\ p.rev \in dispatch'[p.node].rev .. Len(revision')
                      /\ p.operation = "integrate_fast_forward" =>
                            SourceGraph(p.node)'.policy = "integration_only"
    BY DEF ActionsAreDispatched, Dispatched, SourceGraph, Shown
  <1>t. GitTypeOK /\ PlanTypeOK /\ Founded /\ ActionsAreDispatched /\ PolicyIsKept
    BY DEF GitShape, GitTypeOK, Consent
  <1>1. CASE i \in Actions
    <2>1. p = Shown(i)
      BY <1>t, <1>1, ActionStep
    <2>2. p \in Preview /\ p.node \in Run
      BY <1>t, <1>1, <2>1, ShownIsPreview, PreviewKinds
    <2>3. /\ Dispatched(p.node) /\ p.rev \in dispatch[p.node].rev .. Len(revision)
          /\ p.operation = "integrate_fast_forward" => SourceGraph(p.node).policy = "integration_only"
      BY <1>1, <1>t, <2>1 DEF ActionsAreDispatched
    <2>4. /\ Dispatched(p.node)' /\ dispatch'[p.node].rev = dispatch[p.node].rev
          /\ SourceGraph(p.node)' = SourceGraph(p.node)
          /\ Len(revision) <= Len(revision') /\ Len(revision') \in Nat /\ Len(revision) \in Nat
      BY <2>2, <2>3, DispatchedStays
    <2>5. p.rev \in dispatch'[p.node].rev .. Len(revision')
      BY <2>3, <2>4
    <2> QED
      BY <2>2, <2>3, <2>4, <2>5
  <1>2. CASE i \notin Actions
    <2>1. p \in Preview
      BY <1>t, <1>2, NewPreview
    <2>2. Admitted(p) /\ UNCHANGED <<vars, planVars>>
      BY <1>t, <1>2, <2>1, NewPreview DEF PreviewGitAction
    <2>3. Dispatched(p.node) /\ p.rev = Len(revision) /\ p.node \in Run /\ HasCurrent
      BY <2>1, <2>2, PreviewKinds DEF Admitted
    <2>4. dispatch[p.node].rev \in 1 .. Len(revision) /\ Len(revision) \in 1 .. Len(revision)
      BY <1>t, <2>3, RevisionsAreTyped DEF Founded, RevisionsAreApproved
    <2>5. ASSUME p.operation = "integrate_fast_forward"
          PROVE  SourceGraph(p.node).policy = "integration_only"
      <3>1. p.node \in CurrentGraph.integration
        BY <2>2, <2>5 DEF Admitted, IntegrateAdmitted
      <3>2. ValidGraph(CurrentGraph) /\ CurrentGraph.policy = SourceGraph(p.node).policy
        BY <1>t, <2>3, <2>4 DEF PolicyIsKept, CurrentGraph
      <3> QED
        BY <3>1, <3>2 DEF ValidGraph
    <2>6. /\ Dispatched(p.node)' /\ dispatch' = dispatch /\ revision' = revision
          /\ SourceGraph(p.node)' = SourceGraph(p.node)
      BY <2>2, <2>3 DEF planVars, Dispatched, SourceGraph
    <2> QED
      BY <2>1, <2>3, <2>4, <2>5, <2>6
  <1> QED
    BY <1>1, <1>2

\* Consent is kept by the plan, and by what the Git Controller settles.
LEMMA ConsentStep == GitShape /\ Consent /\ [GitNext]_allVars => Consent'
  <1> SUFFICES ASSUME GitShape, Consent, [GitNext]_allVars PROVE Consent'
    OBVIOUS
  <1>t. PlanTypeOK /\ Founded /\ AmendmentKeepsDispatched /\ PolicyIsKept /\ ActionsAreDispatched
    BY DEF GitShape, GitTypeOK, Consent
  <1>1. CASE [PlanNext]_planAll
    BY <1>t, <1>1, FoundedStep, AmendmentStep, PolicyStep, ActionsDispatchedStep DEF Consent
  <1>2. ASSUME NEW c \in Call, SettleGitAction(c)
        PROVE  Founded' /\ AmendmentKeepsDispatched' /\ PolicyIsKept'
    <2>1. /\ UNCHANGED <<attempt, revision>>
          /\ \A n \in Run : /\ Dispatched(n)' <=> Dispatched(n)
                            /\ dispatch'[n].rev = dispatch[n].rev
                            /\ run'[n].status = run[n].status
                            /\ SourceGraph(n)' = SourceGraph(n)
      BY <1>t, <1>2, SettleFrame
    <2>2. Founded'
      BY <1>t, <2>1 DEF Founded, RunsAreDispatched, RevisionsAreApproved
    <2>3. AmendmentKeepsDispatched'
      BY <1>t, <2>1 DEF AmendmentKeepsDispatched
    <2>4. PolicyIsKept'
      BY <1>t, <2>1 DEF PolicyIsKept
    <2> QED
      BY <2>2, <2>3, <2>4
  <1> QED
    BY <1>1, <1>2, PlanMoves, ActionsDispatchedStep DEF Consent

\* Under the Git Controller too, a dispatch rests on an approved revision and every
\* amendment keeps it, with its ancestors and its policy.
THEOREM ConsentHolds == GitSpec => []Consent
<1>1. GitInit => Consent
  <2> SUFFICES ASSUME GitInit PROVE Consent
    OBVIOUS
  <2>1. /\ revision = << >> /\ Len(revision) = 0 /\ Actions = {}
        /\ \A n \in Run : ~Dispatched(n) /\ run[n].status = "absent"
        /\ \A a \in Attempt : attempt[a].status = "absent"
    BY DEF GitInit, PlanInit, Init, Actions, Dispatched, NoDispatch, NoRun, NoAttempt
  <2>2. Founded
    BY <2>1 DEF Founded, RunsAreDispatched, RevisionsAreApproved
  <2> QED
    BY <2>1, <2>2 DEF Consent, AmendmentKeepsDispatched, PolicyIsKept, ActionsAreDispatched
<1>2. QED
  BY <1>1, ConsentStep, GitKeepsShape, PTL DEF GitSpec

-----------------------------------------------------------------------------
(* Branches: every one continues the work before it.                       *)

\* On a single line of components the one maximal predecessor has all others behind it.
LEMMA OneLine ==
    ASSUME NEW g, ValidGraph(g), g.policy = "integration_only", NEW n \in g.node, NEW m,
           MaximalPredecessors(g, n) = {m}
    PROVE  Ancestors(g, n) \subseteq {m} \cup Ancestors(g, m)
  <1> DEFINE before == Ancestors(g, n) \ g.integration
  <1>1. WellFormed(g) /\ SingleLine(g)
    BY DEF ValidGraph
  <1>2. Ancestors(g, n) = before /\ before \subseteq Components(g)
    <2>1. \A i \in g.integration : i \notin Ancestors(g, n)
      BY <1>1, TerminalIsNoAncestor DEF SingleLine
    <2> QED
      BY <2>1 DEF Ancestors, Components
  <1>3. m \in before /\ \A other \in before \ {m} : m \notin Ancestors(g, other)
    BY DEF MaximalPredecessors
  <1> HIDE DEF before
  <1>4. ASSUME NEW x \in before, x # m PROVE x \in Ancestors(g, m)
    BY <1>1, <1>2, <1>3, <1>4 DEF SingleLine, Ordered
  <1> QED
    BY <1>2, <1>4

\* The branch an action starts from, and the one it leaves its work in.
Base(p) == IF p.operation = "commit_paths" THEN p.worktree ELSE p.source
Target(p) == IF p.operation = "integrate_fast_forward" THEN Main ELSE p.worktree

\* What a branch for n has to hold before n adds to it.
Before(n) == IF SourceGraph(n).policy = "integration_only" THEN Ancestors(SourceGraph(n), n) ELSE {}

Holds(b, nodes) == tip[b] # None /\ nodes \subseteq tip[b]

\* What git has done for p.
Effected(p) ==
    /\ Holds(Target(p), Before(p.node))
    /\ p.operation = "commit_paths" => p.node \in tip[p.worktree]

\* An action starts from all that comes before its node ...
BasesHold == \A i \in Actions : Holds(Base(Shown(i)), Before(Shown(i).node))

\* ... and a success, reported or still to be reported, has it in its target.
OutcomesHold ==
    /\ \A i \in Actions : action[i].status = "succeeded" => Effected(Shown(i))
    /\ \A c \in Call : call[c].at = "done" => Effected(Shown(call[c].action))

IsCreateOf(i, n, w) ==
    /\ i \in Actions /\ Shown(i).operation = "create_worktree"
    /\ Shown(i).node = n /\ Shown(i).worktree = w

\* A dispatch has the worktree that an action created for it.
WorktreesAreCreated ==
    \A n \in Run : dispatch[n].worktree # None =>
        \E j \in Actions : IsCreateOf(j, n, dispatch[n].worktree) /\ action[j].status = "succeeded"

Branches == BasesHold /\ OutcomesHold /\ WorktreesAreCreated

LEMMA BranchesOfPreview ==
    ASSUME NEW p \in Preview
    PROVE  Base(p) \in Branch /\ Target(p) \in Branch
  BY PreviewKinds DEF Base, Target, Branch

\* git never takes work out of a branch, and leaves in its target what its base held.
LEMMA WorkStays ==
    ASSUME GitTypeOK, DirtyHasBranch, NEW p \in Preview,
           \/ p.operation = "create_worktree" /\ GitCreate(p)
           \/ p.operation = "commit_paths" /\ GitCommit(p)
           \/ /\ p.operation = "integrate_fast_forward" /\ GitFastForward(p)
              /\ tip[p.source] # None
    PROVE  /\ \A b \in Branch : tip[b] # None => tip'[b] # None /\ tip[b] \subseteq tip'[b]
           /\ tip[Base(p)] # None => tip'[Target(p)] # None /\ tip[Base(p)] \subseteq tip'[Target(p)]
           /\ p.operation = "commit_paths" => p.node \in tip'[p.worktree]
  <1>t. tip \in [Branch -> (SUBSET Run) \cup {None}]
    BY DEF GitTypeOK
  <1>b. Base(p) \in Branch /\ Target(p) \in Branch
    BY BranchesOfPreview
  <1>g. \A b \in Branch : tip[b] # None => tip'[b] # None
    BY RepositoryStep
  <1>1. CASE p.operation = "create_worktree" /\ GitCreate(p)
    <2>1. Base(p) = p.source /\ Target(p) = p.worktree
      BY <1>1 DEF Base, Target
    <2> QED
      BY <1>1, <1>t, <1>b, <1>g, <2>1 DEF GitCreate
  <1>2. CASE p.operation = "commit_paths" /\ GitCommit(p)
    <2>1. Base(p) = p.worktree /\ Target(p) = p.worktree
      BY <1>2 DEF Base, Target
    <2>2. p.worktree \in Branch /\ tip' = [tip EXCEPT ![p.worktree] = tip[p.worktree] \cup {p.node}]
      BY <1>2, <1>b, <2>1 DEF GitCommit
    <2>3. /\ tip'[p.worktree] = tip[p.worktree] \cup {p.node}
          /\ \A b \in Branch \ {p.worktree} : tip'[b] = tip[b]
      BY <1>t, <2>2
    <2> QED
      BY <1>2, <1>g, <2>1, <2>2, <2>3
  <1>3. CASE p.operation = "integrate_fast_forward" /\ GitFastForward(p) /\ tip[p.source] # None
    <2>1. Base(p) = p.source /\ Target(p) = Main
      BY <1>3 DEF Base, Target
    <2>2. tip[Main] \subseteq tip[p.source] /\ tip' = [tip EXCEPT ![Main] = tip[p.source]]
      BY <1>3 DEF GitFastForward
    <2>3. tip'[Main] = tip[p.source] /\ \A b \in Branch \ {Main} : tip'[b] = tip[b]
      BY <1>t, <1>b, <2>1, <2>2
    <2> QED
      BY <1>3, <1>g, <2>1, <2>2, <2>3
  <1> QED
    BY <1>1, <1>2, <1>3

\* A git process does what its preview shows, or leaves the repository alone.
LEMMA RunGitKinds ==
    ASSUME GitShape, NEW c \in Call, RunGit(c)
    PROVE  /\ Shown(call[c].action) \in Preview
           /\ \/ tip' = tip /\ call'[c].at # "done"
              \/ LET p == Shown(call[c].action) IN
                 \/ p.operation = "create_worktree" /\ GitCreate(p)
                 \/ p.operation = "commit_paths" /\ GitCommit(p)
                 \/ /\ p.operation = "integrate_fast_forward" /\ GitFastForward(p)
                    /\ tip[p.source] # None
  <1>s. /\ GitTypeOK /\ CallsInOrder /\ SourcesExist
        /\ call \in [Call -> CallRecord]
    BY DEF GitShape, GitTypeOK, CallRecord
  <1>1. call[c].action \in Actions
    BY <1>s DEF RunGit, CallsInOrder, CallOk
  <1>2. PICK p \in Preview : p = Shown(call[c].action)
    BY <1>s, <1>1, ShownIsPreview
  <1>3. PICK outcome \in {"done", "refused"} :
           /\ call' = [call EXCEPT ![c].at = outcome]
           /\ \/ CASE p.operation = "create_worktree" -> GitCreate(p)
                  [] p.operation = "commit_paths"    -> GitCommit(p)
                  [] OTHER                           -> GitFastForward(p)
              \/ outcome = "refused" /\ UNCHANGED <<tip, dirty>>
    BY <1>2, Zenon DEF RunGit
  <1>4. call'[c].at = outcome
    <2>1. outcome \in CallState
      BY DEF CallState
    <2> QED
      BY <1>s, <1>3, <2>1, CallEffect
  <1>5. p.operation \in {"create_worktree", "commit_paths", "integrate_fast_forward"}
    BY <1>2, PreviewKinds
  <1>6. p.operation # "commit_paths" => tip[p.source] # None
    BY <1>s, <1>1, <1>2 DEF SourcesExist
  <1>7. CASE outcome = "refused" /\ UNCHANGED <<tip, dirty>>
    BY <1>2, <1>4, <1>7
  <1>8. CASE (CASE p.operation = "create_worktree" -> GitCreate(p)
                [] p.operation = "commit_paths"    -> GitCommit(p)
                [] OTHER                           -> GitFastForward(p))
    <2>1. \/ p.operation = "create_worktree" /\ GitCreate(p)
          \/ p.operation = "commit_paths" /\ GitCommit(p)
          \/ /\ p.operation = "integrate_fast_forward" /\ GitFastForward(p)
             /\ tip[p.source] # None
      BY <1>5, <1>6, <1>8
    <2> QED
      BY <1>2, <2>1
  <1> QED
    BY <1>3, <1>7, <1>8

\* No step takes work out of a branch.
LEMMA TipsGrow ==
    ASSUME GitShape, [GitNext]_allVars, NEW b \in Branch, tip[b] # None
    PROVE  tip'[b] # None /\ tip[b] \subseteq tip'[b]
  <1>s. GitTypeOK /\ DirtyHasBranch
    BY DEF GitShape
  <1>1. ASSUME NEW c \in Call, RunGit(c) PROVE tip'[b] # None /\ tip[b] \subseteq tip'[b]
    <2>1. PICK p \in Preview : p = Shown(call[c].action)
      BY <1>1, RunGitKinds
    <2>2. \/ tip' = tip
          \/ p.operation = "create_worktree" /\ GitCreate(p)
          \/ p.operation = "commit_paths" /\ GitCommit(p)
          \/ /\ p.operation = "integrate_fast_forward" /\ GitFastForward(p)
             /\ tip[p.source] # None
      BY <1>1, <2>1, RunGitKinds
    <2>3. CASE tip' = tip
      BY <2>3
    <2> QED
      BY <1>s, <2>2, <2>3, WorkStays
  <1>2. CASE tip' = tip
    BY <1>2
  <1>3. tip' = tip \/ \E c \in Call : RunGit(c)
    BY DEF GitNext, GitStep, PlanStep, OtherEvent, EditWorktree, PreviewGitAction, DecideGitAction,
           ObserveAgain, ReserveGitAction, EndCall, SettleGitAction, ReconcileGitAction, allVars,
           gitVars
  <1> QED
    BY <1>1, <1>2, <1>3

\* What a branch holds for a dispatched node it goes on holding.
LEMMA HoldingStays ==
    ASSUME GitShape, Consent, [GitNext]_allVars, NEW n \in Run, Dispatched(n)
    PROVE  /\ Before(n)' = Before(n)
           /\ \A b \in Branch : Holds(b, Before(n)) => Holds(b, Before(n))'
  <1>1. SourceGraph(n)' = SourceGraph(n)
    BY DispatchedStays
  <1>2. Before(n)' = Before(n)
    BY <1>1 DEF Before
  <1>3. ASSUME NEW b \in Branch, Holds(b, Before(n)) PROVE Holds(b, Before(n))'
    BY <1>2, <1>3, TipsGrow DEF Holds
  <1> QED
    BY <1>2, <1>3

LEMMA EffectStays ==
    ASSUME GitShape, Consent, [GitNext]_allVars,
           NEW p \in Preview, Dispatched(p.node), Effected(p)
    PROVE  Effected(p)'
  <1>1. p.node \in Run /\ Target(p) \in Branch
    BY PreviewKinds, BranchesOfPreview
  <1>2. Holds(Target(p), Before(p.node))'
    BY <1>1, HoldingStays DEF Effected
  <1>3. ASSUME p.operation = "commit_paths" PROVE p.node \in tip'[p.worktree]
    <2>1. p.worktree \in Branch /\ tip[p.worktree] # None /\ p.node \in tip[p.worktree]
      BY <1>1, <1>3 DEF Target, Effected, Holds
    <2> QED
      BY <2>1, TipsGrow
  <1> QED
    BY <1>2, <1>3 DEF Effected

\* In the revision in force a dispatched node has the ancestors, and the policy, of its own.
LEMMA CurrentIsSource ==
    ASSUME Consent, PlanTypeOK, NEW n \in Run, Dispatched(n)
    PROVE  /\ n \in CurrentGraph.node
           /\ CurrentGraph.policy = SourceGraph(n).policy
           /\ Ancestors(CurrentGraph, n) = Ancestors(SourceGraph(n), n)
           /\ ValidGraph(CurrentGraph)
  <1>1. /\ dispatch[n].rev \in 1 .. Len(revision) /\ Len(revision) \in Nat
    BY RevisionsAreTyped DEF Consent, Founded, RevisionsAreApproved
  <1>2. Len(revision) \in dispatch[n].rev .. Len(revision) /\ Len(revision) \in 1 .. Len(revision)
    BY <1>1
  <1> QED
    BY <1>2 DEF Consent, AmendmentKeepsDispatched, PolicyIsKept, CurrentGraph

\* What is admitted starts from all that comes before its node.
LEMMA AdmittedBase ==
    ASSUME GitShape, Consent, Branches, NEW p \in Preview, Observed(p), Admitted(p)
    PROVE  Holds(Base(p), Before(p.node))
  <1>t. GitTypeOK /\ PlanTypeOK /\ BasesHold /\ OutcomesHold /\ WorktreesAreCreated
    BY DEF GitShape, GitTypeOK, Branches
  <1>n. Dispatched(p.node) /\ p.node \in Run
    BY PreviewKinds DEF Admitted
  <1>c. /\ p.node \in CurrentGraph.node
        /\ CurrentGraph.policy = SourceGraph(p.node).policy
        /\ Ancestors(CurrentGraph, p.node) = Ancestors(SourceGraph(p.node), p.node)
        /\ ValidGraph(CurrentGraph)
    BY <1>t, <1>n, CurrentIsSource
  <1>e. ASSUME NEW i \in Actions, action[i].status = "succeeded",
               Shown(i).operation = "create_worktree", Shown(i).node = p.node
        PROVE  Holds(Shown(i).worktree, Before(p.node))
    BY <1>e, <1>t DEF OutcomesHold, Effected, Target
  <1>1. CASE p.operation = "create_worktree"
    <2>1. CreateAdmitted(p) /\ tip[p.source] # None /\ Base(p) = p.source
      BY <1>1 DEF Admitted, Observed, Base
    <2>2. CASE Before(p.node) = {}
      BY <2>1, <2>2 DEF Holds
    <2>3. CASE Before(p.node) # {}
      <3>1. /\ CurrentGraph.policy = "integration_only"
            /\ Before(p.node) = Ancestors(CurrentGraph, p.node)
            /\ Ancestors(CurrentGraph, p.node) # {}
        BY <1>c, <2>3 DEF Before
      <3>2. PICK m \in Run :
               /\ MaximalPredecessors(CurrentGraph, p.node) = {m}
               /\ \E i \in Actions : /\ IsLatestFor(p.rev, m, "commit_paths", i)
                                     /\ action[i].status = "succeeded"
                                     /\ p.source = Shown(i).worktree
        BY <2>1, <3>1 DEF CreateAdmitted
      <3>3. PICK i \in Actions : /\ Shown(i).node = m /\ Shown(i).operation = "commit_paths"
                                 /\ action[i].status = "succeeded"
                                 /\ p.source = Shown(i).worktree
        BY <3>2 DEF IsLatestFor
      <3>4. /\ Dispatched(m) /\ Holds(p.source, Before(m)) /\ m \in tip[p.source]
        BY <1>t, <3>3 DEF Consent, ActionsAreDispatched, OutcomesHold, Effected, Target
      <3>5. Before(m) = Ancestors(CurrentGraph, m)
        BY <1>t, <3>1, <3>4, CurrentIsSource DEF Before
      <3>6. Ancestors(CurrentGraph, p.node) \subseteq {m} \cup Ancestors(CurrentGraph, m)
        BY <1>c, <3>1, <3>2, OneLine
      <3> QED
        BY <2>1, <3>1, <3>4, <3>5, <3>6 DEF Holds
    <2> QED
      BY <2>2, <2>3
  <1>2. CASE p.operation = "commit_paths"
    <2>1. dispatch[p.node].worktree = p.worktree /\ p.worktree \in Worktree /\ Base(p) = p.worktree
      BY <1>2, PreviewKinds DEF Admitted, CommitAdmitted, Base
    <2>2. p.worktree # None
      BY <2>1, NoneAssumption
    <2>3. PICK j \in Actions : IsCreateOf(j, p.node, p.worktree) /\ action[j].status = "succeeded"
      BY <1>t, <1>n, <2>1, <2>2 DEF WorktreesAreCreated
    <2> QED
      BY <1>e, <2>1, <2>3 DEF IsCreateOf
  <1>3. CASE p.operation = "integrate_fast_forward"
    <2>1. PICK i \in Actions : /\ IsLatestFor(p.rev, p.node, "create_worktree", i)
                               /\ action[i].status = "succeeded"
                               /\ p.source = Shown(i).worktree
      BY <1>3 DEF Admitted, IntegrateAdmitted
    <2>2. Base(p) = p.source
      BY <1>3 DEF Base
    <2> QED
      BY <1>e, <2>1, <2>2 DEF IsLatestFor
  <1> QED
    BY <1>1, <1>2, <1>3, PreviewKinds

\* A success is new by the settlement of a call that git has done its work for.
LEMMA NewSuccessIsSettled ==
    ASSUME GitTypeOK, [GitNext]_allVars, NEW i \in Actions,
           action[i].status # "succeeded", action'[i].status = "succeeded"
    PROVE  \E c \in Call : SettleGitAction(c) /\ call[c].action = i /\ call[c].at = "done"
  <1>t. action \in Seq(ActionRecord)
    BY DEF GitTypeOK, ActionRecord
  <1>m. action'[i] # action[i]
    OBVIOUS
  <1>1. ASSUME NEW j, NEW s \in ActionStatus, action' = [action EXCEPT ![j].status = s]
        PROVE  j = i /\ s = "succeeded"
    BY <1>t, <1>m, <1>1, ActionStatusEffect
  <1>2. ASSUME NEW c \in Call, SettleGitAction(c)
        PROVE  call[c].action = i /\ call[c].at = "done"
    <2>1. PICK j : j = call[c].action
      OBVIOUS
    <2> DEFINE s == IF call[c].at = "done" THEN "succeeded" ELSE "failed"
    <2>2. action' = [action EXCEPT ![j].status = s] /\ s \in ActionStatus
      BY <1>2, <2>1 DEF SettleGitAction, ActionStatus
    <2>3. s = "succeeded" => call[c].at = "done"
      OBVIOUS
    <2> HIDE DEF s
    <2> QED
      BY <1>1, <2>1, <2>2, <2>3
  <1>3. ASSUME NEW c \in Call, ReserveGitAction(c) PROVE FALSE
    <2>1. PICK j : j = call[c].action
      OBVIOUS
    <2>2. action' = [action EXCEPT ![j].status = "executing"] /\ "executing" \in ActionStatus
      BY <1>3, <2>1 DEF ReserveGitAction, ActionStatus
    <2> QED
      BY <1>1, <2>2
  <1>4. ASSUME NEW j \in Actions, ReconcileGitAction(j) PROVE FALSE
    BY <1>1, <1>4 DEF ReconcileGitAction, ActionStatus
  <1>5. ASSUME NEW j \in Actions, NEW verdict \in {"approved", "rejected"},
               DecideGitAction(j, verdict)
        PROVE FALSE
    BY <1>1, <1>5 DEF DecideGitAction, ActionStatus
  <1>6. ASSUME NEW p \in Preview, PreviewGitAction(p) PROVE FALSE
    <2> DEFINE row == [preview |-> p, status |-> "previewed"]
    <2>1. action' = Append(action, row) /\ row \in ActionRecord
      BY <1>6 DEF PreviewGitAction, ActionRecord, ActionStatus
    <2> HIDE DEF row
    <2> QED
      BY <1>t, <1>m, <2>1 DEF Actions
  <1> QED
    BY <1>2, <1>3, <1>4, <1>5, <1>6, <1>m
    DEF GitNext, GitStep, PlanStep, OtherEvent, EditWorktree, ObserveAgain, RunGit, EndCall,
        allVars, gitVars

\* An action stays what it is for; a success stays one.
LEMMA SuccessesStay ==
    ASSUME GitTypeOK, [GitNext]_allVars, NEW i \in Actions
    PROVE  /\ i \in Actions' /\ Shown(i)' = Shown(i)
           /\ action[i].status = "succeeded" => action'[i].status = "succeeded"
  BY ActionStep, MovesAreOnward DEF TerminalAction

LEMMA BasesStep == GitShape /\ Consent /\ Branches /\ [GitNext]_allVars => BasesHold'
  <1> SUFFICES ASSUME GitShape, Consent, Branches, [GitNext]_allVars, NEW i \in Actions',
                      NEW p, p = Shown(i)'
               PROVE  Holds(Base(p), Before(p.node))'
    BY DEF BasesHold, Holds, Base, Before, Shown, SourceGraph
  <1>t. GitTypeOK
    BY DEF GitShape
  <1>1. CASE i \in Actions
    <2>1. p = Shown(i) /\ p \in Preview
      BY <1>t, <1>1, SuccessesStay, ShownIsPreview
    <2>2. Dispatched(p.node) /\ p.node \in Run /\ Base(p) \in Branch
      BY <1>1, <2>1, PreviewKinds, BranchesOfPreview DEF Consent, ActionsAreDispatched
    <2>3. Holds(Base(p), Before(p.node))
      BY <1>1, <2>1 DEF Branches, BasesHold
    <2> QED
      BY <2>2, <2>3, HoldingStays
  <1>2. CASE i \notin Actions
    <2>1. /\ p \in Preview /\ Observed(p) /\ Admitted(p)
          /\ UNCHANGED <<vars, planVars, tip>>
      BY <1>t, <1>2, NewPreview DEF PreviewGitAction
    <2>2. Holds(Base(p), Before(p.node))
      BY <2>1, AdmittedBase
    <2> QED
      BY <2>1, <2>2 DEF Holds, Before, SourceGraph, planVars
  <1> QED
    BY <1>1, <1>2

LEMMA OutcomesStep == GitShape /\ Consent /\ Branches /\ [GitNext]_allVars => OutcomesHold'
  <1> SUFFICES ASSUME GitShape, Consent, Branches, [GitNext]_allVars PROVE OutcomesHold'
    OBVIOUS
  <1>t. GitTypeOK /\ CallsInOrder /\ DirtyHasBranch
    BY DEF GitShape
  <1>s. ASSUME NEW i \in Actions, Effected(Shown(i))
        PROVE  i \in Actions' /\ Shown(i)' = Shown(i) /\ Effected(Shown(i))'
    <2>1. PICK p \in Preview : p = Shown(i)
      BY <1>t, ShownIsPreview
    <2>2. Dispatched(p.node) /\ Effected(p) /\ i \in Actions' /\ p = Shown(i)'
      BY <1>s, <1>t, <2>1, SuccessesStay DEF Consent, ActionsAreDispatched
    <2>3. Effected(p)'
      BY <2>2, EffectStays
    <2> QED
      BY <2>1, <2>2, <2>3 DEF Effected, Holds, Before, SourceGraph, Target
  <1>1. ASSUME NEW i \in Actions', action'[i].status = "succeeded" PROVE Effected(Shown(i))'
    <2>1. i \in Actions
      BY <1>t, <1>1, NewPreview
    <2>2. Effected(Shown(i))
      <3>1. CASE action[i].status = "succeeded"
        BY <2>1, <3>1 DEF Branches, OutcomesHold
      <3>2. CASE action[i].status # "succeeded"
        BY <1>t, <1>1, <2>1, <3>2, NewSuccessIsSettled DEF Branches, OutcomesHold
      <3> QED
        BY <3>1, <3>2
    <2> QED
      BY <1>s, <2>1, <2>2
  <1>2. ASSUME NEW c \in Call, call'[c].at = "done", NEW i, i = call'[c].action
        PROVE  Effected(Shown(i))'
    <2>1. CASE call'[c] = call[c]
      <3>1. call[c].at = "done" /\ i = call[c].action
        BY <1>2, <2>1
      <3>2. i \in Actions /\ Effected(Shown(i))
        BY <1>t, <3>1 DEF CallsInOrder, CallOk, Branches, OutcomesHold
      <3> QED
        BY <1>s, <3>2
    <2>2. CASE call'[c] # call[c]
      <3>1. RunGit(c) /\ i = call[c].action /\ action' = action
        <4>1. /\ call'[c] # Idle /\ call'[c].at # "git"
              /\ \A j \in Actions : call'[c] # [at |-> "observed", action |-> j]
          BY <1>2 DEF Idle
        <4>2. \A j : call'[c] # [at |-> "observed", action |-> j]
          BY <1>2
        <4> QED
          BY <1>t, <1>2, <2>2, <4>1, <4>2, CallStep
      <3>2. PICK p \in Preview : p = Shown(i)
        BY <3>1, RunGitKinds
      <3>3. \/ p.operation = "create_worktree" /\ GitCreate(p)
            \/ p.operation = "commit_paths" /\ GitCommit(p)
            \/ /\ p.operation = "integrate_fast_forward" /\ GitFastForward(p)
               /\ tip[p.source] # None
        BY <1>2, <3>1, <3>2, RunGitKinds
      <3>4. i \in Actions
        BY <1>t, <3>1 DEF RunGit, CallsInOrder, CallOk
      <3>5. Holds(Base(p), Before(p.node)) /\ Dispatched(p.node) /\ p.node \in Run
        BY <3>2, <3>4, PreviewKinds DEF Branches, BasesHold, Consent, ActionsAreDispatched
      <3>6. /\ tip[Base(p)] # None => tip'[Target(p)] # None /\ tip[Base(p)] \subseteq tip'[Target(p)]
            /\ p.operation = "commit_paths" => p.node \in tip'[p.worktree]
        BY <1>t, <3>3, WorkStays
      <3>7. Before(p.node)' = Before(p.node)
        BY <3>5, HoldingStays
      <3>8. Holds(Target(p), Before(p.node))'
        BY <3>5, <3>6, <3>7 DEF Holds
      <3>9. Effected(p)'
        BY <3>6, <3>8 DEF Effected
      <3>10. Shown(i)' = p
        BY <3>1, <3>2 DEF Shown
      <3> QED
        BY <3>9, <3>10 DEF Effected, Holds, Before, SourceGraph, Target
    <2> QED
      BY <2>1, <2>2
  <1> QED
    BY <1>1, <1>2 DEF OutcomesHold, Effected, Holds, Before, SourceGraph, Target, Shown

LEMMA WorktreesStep == GitShape /\ Consent /\ Branches /\ [GitNext]_allVars => WorktreesAreCreated'
  <1> SUFFICES ASSUME GitShape, Consent, Branches, [GitNext]_allVars, NEW n \in Run,
                      NEW w, w = dispatch'[n].worktree, w # None
               PROVE  \E j \in Actions' : IsCreateOf(j, n, w)' /\ action'[j].status = "succeeded"
    BY DEF WorktreesAreCreated, IsCreateOf
  <1>t. GitTypeOK /\ PlanTypeOK /\ CallsInOrder
    BY DEF GitShape, GitTypeOK
  <1>1. CASE dispatch'[n].worktree = dispatch[n].worktree
    <2>1. PICK j \in Actions : IsCreateOf(j, n, w) /\ action[j].status = "succeeded"
      BY <1>1 DEF Branches, WorktreesAreCreated
    <2>2. j \in Actions' /\ Shown(j)' = Shown(j) /\ action'[j].status = "succeeded"
      BY <1>t, <2>1, SuccessesStay
    <2> QED
      BY <2>1, <2>2 DEF IsCreateOf
  <1>2. CASE dispatch'[n].worktree # dispatch[n].worktree
    <2>1. PICK c \in Call : SettleGitAction(c)
      <3>1. ~(\E c \in Call : SettleGitAction(c)) =>
               dispatch' = dispatch \/ \A q \in Run : dispatch'[q].worktree = dispatch[q].worktree
        BY DEF GitNext, GitStep, PlanStep, OtherEvent, EditWorktree, PreviewGitAction, DecideGitAction,
               ObserveAgain, ReserveGitAction, RunGit, EndCall, ReconcileGitAction, allVars, planVars
      <3> QED
        BY <1>2, <3>1
    <2>2. PICK i : i = call[c].action
      OBVIOUS
    <2>3. PICK p \in Preview : p = Shown(i)
      BY <1>t, <2>1, <2>2, SettledAction
    <2>4. i \in Actions /\ Apply(p, call[c].at)
      BY <1>t, <2>1, <2>2, <2>3, SettledAction
    <2>5. /\ call[c].at = "done" /\ p.operation = "create_worktree" /\ n = p.node
          /\ Bound(p.node, p.worktree)
      BY <1>t, <1>2, <2>4, ApplyEffect DEF Committed
    <2>6. w = p.worktree
      BY <2>5 DEF Bound
    <2>7. action'[i].status = "succeeded"
      <3>1. action' = [action EXCEPT ![i].status = "succeeded"]
        BY <2>1, <2>2, <2>5 DEF SettleGitAction
      <3>2. action \in Seq(ActionRecord) /\ "succeeded" \in ActionStatus /\ i \in Actions
        BY <1>t, <2>4 DEF GitTypeOK, ActionRecord, ActionStatus
      <3> QED
        BY <3>1, <3>2, ActionStatusEffect
    <2>8. i \in Actions' /\ Shown(i)' = p
      BY <1>t, <2>3, <2>4, SuccessesStay
    <2> QED
      BY <2>5, <2>6, <2>7, <2>8 DEF IsCreateOf
  <1> QED
    BY <1>1, <1>2

\* Every action starts from all that comes before its node, and every success has it,
\* and the commit of a node its work, in its target branch.
THEOREM BranchesAreHeld == GitSpec => []Branches
<1>1. GitInit => Branches
  <2> SUFFICES ASSUME GitInit PROVE Branches
    OBVIOUS
  <2>1. /\ Actions = {} /\ \A c \in Call : call[c].at = "idle"
        /\ \A n \in Run : dispatch[n].worktree = None
    BY DEF GitInit, PlanInit, Actions, Idle, NoDispatch
  <2> QED
    BY <2>1 DEF Branches, BasesHold, OutcomesHold, WorktreesAreCreated
<1>2. QED
  BY <1>1, BasesStep, OutcomesStep, WorktreesStep, GitKeepsShape, ConsentHolds, PTL
  DEF GitSpec, Branches

\* Every worktree of an integration_only plan starts from the committed work of all
\* components before its node, for every plan, amendment, failure, crash and number of
\* concurrent calls.
THEOREM BranchesHavePredecessors == GitSpec => []BranchHasPredecessors
<1>1. Branches => BranchHasPredecessors
  <2> SUFFICES ASSUME Branches, NEW n \in Run, dispatch[n].worktree # None,
                      SourceGraph(n).policy = "integration_only"
               PROVE  Ancestors(SourceGraph(n), n) \subseteq tip[dispatch[n].worktree]
    BY DEF BranchHasPredecessors
  <2>1. PICK j \in Actions : IsCreateOf(j, n, dispatch[n].worktree) /\ action[j].status = "succeeded"
    BY DEF Branches, WorktreesAreCreated
  <2>2. Effected(Shown(j))
    BY <2>1 DEF Branches, OutcomesHold
  <2> QED
    BY <2>1, <2>2 DEF IsCreateOf, Effected, Target, Holds, Before
<1>2. QED
  BY <1>1, BranchesAreHeld, PTL

-----------------------------------------------------------------------------
(* Attempts under the Git Controller, which may bind a second worktree to  *)
(* a Run: what is left of Rows and Coherent.                               *)

\* A row of run_attempts keeps its Run, its number and its worktree.
SameRow(a) ==
    /\ attempt'[a].run = attempt[a].run
    /\ attempt'[a].no = attempt[a].no
    /\ attempt'[a].worktree = attempt[a].worktree
    /\ attempt'[a].status = "absent" <=> attempt[a].status = "absent"

\* A row is inserted by a claim, and never moves.
LEMMA RowMoves ==
    ASSUME PlanTypeOK, Founded, [PlanNext]_planAll, NEW b \in Attempt
    PROVE  SameRow(b) \/ \E r \in Run, w \in Worktree : GraphClaimRunAttempt(b, r, w)
  <1>t. TypeOK /\ attempt \in [Attempt -> AttemptRecord]
    BY DEF PlanTypeOK, TypeOK
  <1>0. attempt'[b] = attempt[b] => SameRow(b)
    BY DEF SameRow
  <1>s. ASSUME NEW a \in Attempt, NEW s, s # "absent", attempt[a].status # "absent",
               attempt' = [attempt EXCEPT ![a].status = s]
        PROVE  SameRow(b)
    <2>1. /\ attempt'[a].status = s
          /\ attempt'[a].run = attempt[a].run
          /\ attempt'[a].no = attempt[a].no
          /\ attempt'[a].worktree = attempt[a].worktree
          /\ \A c \in Attempt \ {a} : attempt'[c] = attempt[c]
      BY <1>t, <1>s, AttemptStatusEffect
    <2> QED
      BY <1>0, <1>s, <2>1 DEF SameRow
  <1>1. ASSUME NEW a \in Attempt, NEW r \in Run, NEW w \in Worktree, GraphClaimRunAttempt(a, r, w)
        PROVE  SameRow(b) \/ a = b
    <2>1. \A c \in Attempt \ {a} : attempt'[c] = attempt[c]
      BY <1>1, <1>t, GraphClaimEffect, ClaimEffect
    <2> QED
      BY <1>0, <2>1
  <1>2. ASSUME NEW a \in Attempt, NEW status \in TerminalStatus, NEW paths \in Change,
               GraphSettleRunAttempt(a, status, ResultOf(a, status), FailureOf(status), None, paths)
        PROVE  SameRow(b)
    <2>1. SettleRunAttempt(a, status, ResultOf(a, status), FailureOf(status), None)
      BY <1>2 DEF GraphSettleRunAttempt
    <2>2. attempt[a].status # "absent" /\ attempt[a].run \in Run
      BY <2>1, AttemptIsDispatched DEF SettleRunAttempt, IsActive, ActiveStatus
    <2>3. /\ attempt'[a].run = attempt[a].run
          /\ attempt'[a].no = attempt[a].no
          /\ attempt'[a].worktree = attempt[a].worktree
          /\ \A c \in Attempt \ {a} : attempt'[c] = attempt[c]
          /\ attempt'[a].status \in TerminalStatus
      BY <1>t, <2>1, <2>2, SettleEffect
    <2>4. attempt'[a].status # "absent"
      BY <2>3 DEF TerminalStatus
    <2> QED
      BY <1>0, <2>2, <2>3, <2>4 DEF SameRow
  <1>3. ASSUME NEW a \in Attempt, AskQuestion(a) PROVE SameRow(b)
    BY <1>3, <1>s DEF AskQuestion
  <1>4. ASSUME NEW a \in Attempt, NEW r \in Run, CancelRun(r, a) PROVE SameRow(b)
    BY <1>4, <1>s DEF CancelRun, IsActive, ActiveStatus
  <1>5. CASE GraphRunOperation \/ Ungraphed
    <2>1. \/ attempt' = attempt
          \/ \E a \in Attempt, r \in Run, w \in Worktree : GraphClaimRunAttempt(a, r, w)
          \/ \E a \in Attempt, status \in TerminalStatus, paths \in Change :
                GraphSettleRunAttempt(a, status, ResultOf(a, status), FailureOf(status), None, paths)
          \/ \E a \in Attempt : AskQuestion(a)
          \/ \E a \in Attempt, r \in Run : CancelRun(r, a)
      <3>1. CASE GraphRunOperation
        BY <3>1 DEF GraphRunOperation, GraphSubmitReview, SubmitReview, GraphAcceptReview, AcceptReview
      <3>2. CASE Ungraphed
        BY <3>2 DEF Ungraphed, TransitionToArchitectureReview, TransitionToWaitingForUserConfirmation,
                    SubmitFix, AnswerQuestion, RetryRun, AddRunGuidance
      <3> QED
        BY <1>5, <3>1, <3>2
    <2> QED
      BY <1>0, <1>1, <1>2, <1>3, <1>4, <2>1
  <1>6. ASSUME NEW mapping \in Mappings, ReconcilePlan(mapping) PROVE SameRow(b)
    BY <1>0, <1>6, ReconcileFrame
  <1>7. CASE \/ \E g \in Graph : CreatePlanRevision(g)
             \/ \E verdict \in {"approved", "rejected"} : DecidePlanRevision(verdict)
             \/ UNCHANGED planAll
    BY <1>0, <1>7 DEF CreatePlanRevision, DecidePlanRevision, planAll, vars
  <1> QED
    BY <1>5, <1>6, <1>7 DEF PlanNext, PlanOperation

\* Paths are recorded by the settlement of their attempt.
LEMMA EvidenceMoves ==
    ASSUME PlanTypeOK, [PlanNext]_planAll, NEW a \in Attempt, evidence'[a] # evidence[a]
    PROVE  \E status \in TerminalStatus, paths \in Change :
              GraphSettleRunAttempt(a, status, ResultOf(a, status), FailureOf(status), None, paths)
  <1>t. evidence = [x \in DOMAIN evidence |-> evidence[x]]
    BY DEF PlanTypeOK
  <1>1. ASSUME NEW b \in Attempt, NEW status \in TerminalStatus, NEW paths \in Change,
               GraphSettleRunAttempt(b, status, ResultOf(b, status), FailureOf(status), None, paths)
        PROVE  b = a
    <2>1. evidence' = [evidence EXCEPT ![b] = paths] \/ evidence' = evidence
      BY <1>1 DEF GraphSettleRunAttempt
    <2> QED
      BY <1>t, <2>1 DEF PlanTypeOK
  <1>2. evidence' # evidence
    OBVIOUS
  <1>3. ~\E mapping \in Mappings : ReconcilePlan(mapping)
    BY <1>2, ReconcileFrame
  <1>4. \E b \in Attempt, status \in TerminalStatus, paths \in Change :
           GraphSettleRunAttempt(b, status, ResultOf(b, status), FailureOf(status), None, paths)
    BY <1>2, <1>3 DEF PlanNext, PlanOperation, GraphRunOperation, CreatePlanRevision,
       DecidePlanRevision, GraphClaimRunAttempt, GraphSubmitReview, GraphAcceptReview, Ungraphed,
       planAll, planVars
  <1> QED
    BY <1>1, <1>4

\* Nobody claims or settles an attempt of a Run that is decided on, or accepted.
LEMMA DecidedIsStill ==
    ASSUME PlanTypeOK, Founded, AbsentRowIsFree, [PlanNext]_planAll, NEW n \in Run,
           run[n].status \in {"review_discussion", "accepted"}
    PROVE  /\ run[n].status = "accepted" => run'[n].status = "accepted"
           /\ AttemptsOf(n)' = AttemptsOf(n)
           /\ \A a \in AttemptsOf(n) : SameRow(a) /\ evidence'[a] = evidence[a]
  <1>1. ASSUME NEW a \in Attempt, attempt[a].run = n \/ attempt'[a].run = n PROVE SameRow(a)
    <2> SUFFICES ASSUME NEW r \in Run, NEW w \in Worktree, GraphClaimRunAttempt(a, r, w) PROVE FALSE
      BY RowMoves
    <2>1. ClaimRunAttempt(a, r, w)
      BY GraphClaimEffect
    <2>2. attempt[a].status = "absent" /\ run[r].status = "ready" /\ attempt'[a].run = r
      <3>1. attempt'[a].run = r
        BY <2>1, ClaimEffect DEF PlanTypeOK
      <3> QED
        BY <2>1, <3>1 DEF ClaimRunAttempt, Claimable
    <2>3. attempt[a].run = None /\ None # n
      BY <2>2, NoneAssumption DEF AbsentRowIsFree
    <2> QED
      BY <1>1, <2>2, <2>3
  <1>2. AttemptsOf(n)' = AttemptsOf(n)
    BY <1>1 DEF AttemptsOf, SameRow
  <1>3. ASSUME NEW a \in AttemptsOf(n) PROVE evidence'[a] = evidence[a]
    <2> SUFFICES ASSUME evidence'[a] # evidence[a] PROVE FALSE
      OBVIOUS
    <2>0. a \in Attempt /\ attempt[a].run = n
      BY DEF AttemptsOf
    <2>1. PICK status \in TerminalStatus, paths \in Change :
             GraphSettleRunAttempt(a, status, ResultOf(a, status), FailureOf(status), None, paths)
      BY <2>0, EvidenceMoves
    <2>2. SettleRunAttempt(a, status, ResultOf(a, status), FailureOf(status), None)
      BY <2>1 DEF GraphSettleRunAttempt
    <2> DEFINE s == RunStatusForTerminal(SettleTarget(a, status))
    <2>3. <<run[n].status, s>> \in RunTransition
      BY <2>0, <2>2, Zenon DEF SettleRunAttempt, SettleAdmitted
    <2>4. s \notin {"ready", "accepted"}
      BY DEF RunStatusForTerminal
    <2> HIDE DEF s
    <2> QED
      BY <2>3, <2>4 DEF RunTransition
  <1>4. ASSUME run[n].status = "accepted" PROVE run'[n].status = "accepted"
    <2>1. CASE GraphRunOperation \/ Ungraphed
      BY <1>4, <2>1, RunExistence
    <2>2. ASSUME NEW mapping \in Mappings, ReconcilePlan(mapping) PROVE run'[n].status = "accepted"
      <3>1. Dispatched(n)
        BY <1>4 DEF Founded, RunsAreDispatched
      <3> QED
        BY <1>4, <2>2, <3>1, ReconcileFields
    <2>3. CASE \/ \E g \in Graph : CreatePlanRevision(g)
               \/ \E verdict \in {"approved", "rejected"} : DecidePlanRevision(verdict)
               \/ UNCHANGED planAll
      BY <1>4, <2>3 DEF CreatePlanRevision, DecidePlanRevision, planAll, vars
    <2> QED
      BY <2>1, <2>2, <2>3 DEF PlanNext, PlanOperation
  <1> QED
    BY <1>1, <1>2, <1>3, <1>4 DEF AttemptsOf

\* A Run comes to its decision by the Review of an attempt, and to its acceptance from
\* there.
Reviewing(n) ==
    \E a \in Attempt, severity \in Severity : SubmitReview(a, severity) /\ attempt[a].run = n

LEMMA DecisionStep ==
    ASSUME PlanTypeOK, Founded, [PlanNext]_planAll, NEW n \in Run,
           run[n].status \notin {"review_discussion", "accepted"},
           run'[n].status \in {"review_discussion", "accepted"}
    PROVE  Reviewing(n)
  <1>t. TypeOK /\ run \in [Run -> RunRecord] /\ attempt \in [Attempt -> AttemptRecord]
    BY DEF PlanTypeOK, TypeOK
  <1>m. run'[n] # run[n] /\ run' # run
    OBVIOUS
  <1>0. run'[n].status = "review_discussion" /\ (GraphRunOperation \/ Ungraphed)
    <2>1. ASSUME NEW mapping \in Mappings, ReconcilePlan(mapping) PROVE FALSE
      <3>1. PolicyAccepts(n) \/ run'[n] = [status |-> "ready", worktree |-> mapping[n], task |-> 0]
        BY <1>m, <2>1, ReconcileEffect
      <3> QED
        BY <3>1 DEF PolicyAccepts
    <2>2. ~UNCHANGED planAll
      BY <1>m DEF planAll, vars
    <2>3. /\ ~ \E g \in Graph : CreatePlanRevision(g)
          /\ ~ \E verdict \in {"approved", "rejected"} : DecidePlanRevision(verdict)
      BY <1>m DEF CreatePlanRevision, DecidePlanRevision, vars
    <2>4. GraphRunOperation \/ Ungraphed
      BY <2>1, <2>2, <2>3 DEF PlanNext, PlanOperation
    <2>5. run'[n].status # "accepted"
      BY <1>m, <2>4, RunStep DEF RunTransition
    <2> QED
      BY <2>4, <2>5
  <1>s. ASSUME NEW q, NEW s, s # "review_discussion", run' = [run EXCEPT ![q].status = s]
        PROVE  FALSE
    <2>1. q = n
      BY <1>t, <1>m, <1>s
    <2> QED
      BY <1>t, <1>0, <1>s, <2>1, RunStatusEffect
  <1>1. ASSUME NEW a \in Attempt, NEW r \in Run, NEW w \in Worktree, GraphClaimRunAttempt(a, r, w)
        PROVE  FALSE
    BY <1>t, <1>0, <1>m, <1>1, GraphClaimEffect, ClaimEffect
  <1>2. ASSUME NEW a \in Attempt, NEW status \in TerminalStatus, NEW paths \in Change,
               GraphSettleRunAttempt(a, status, ResultOf(a, status), FailureOf(status), None, paths)
        PROVE  FALSE
    <2> DEFINE s == RunStatusForTerminal(SettleTarget(a, status))
    <2>1. SettleRunAttempt(a, status, ResultOf(a, status), FailureOf(status), None)
      BY <1>2 DEF GraphSettleRunAttempt
    <2>2. run' = [run EXCEPT ![attempt[a].run].status = s]
      BY <2>1, Zenon DEF SettleRunAttempt
    <2>3. s # "review_discussion"
      BY DEF RunStatusForTerminal
    <2> HIDE DEF s
    <2> QED
      BY <1>s, <2>2, <2>3
  <1>3. ASSUME NEW a \in Attempt, GraphAcceptReview(a) PROVE FALSE
    BY <1>s, <1>3 DEF GraphAcceptReview, AcceptReview
  <1>4. ~Ungraphed
    <2>1. ASSUME NEW q \in Run, NEW a \in Attempt, SubmitFix(q, a) PROVE FALSE
      <3>1. run' = [run EXCEPT ![q].status = "ready", ![q].task = @ + 1]
        BY <2>1 DEF SubmitFix
      <3>2. q = n
        BY <1>t, <1>m, <3>1
      <3>3. run'[n].status = "ready"
        BY <1>t, <3>1, <3>2 DEF RunRecord
      <3> QED
        BY <1>0, <3>3
    <2>2. ASSUME NEW q \in Run, NEW a \in Attempt, CancelRun(q, a) PROVE FALSE
      BY <1>s, <2>2 DEF CancelRun
    <2>3. ASSUME NEW a \in Attempt, NEW changesContract \in BOOLEAN,
                 AnswerQuestion(a, changesContract)
          PROVE  FALSE
      BY <1>s, <1>m, <2>3 DEF AnswerQuestion
    <2>4. ASSUME NEW q \in Run, RetryRun(q) PROVE FALSE
      BY <1>s, <2>4 DEF RetryRun
    <2>5. /\ ~TransitionToArchitectureReview /\ ~TransitionToWaitingForUserConfirmation
          /\ \A a \in Attempt : ~AskQuestion(a)
          /\ \A g \in Guidance, q \in Run : ~AddRunGuidance(g, q)
      BY <1>m DEF TransitionToArchitectureReview, TransitionToWaitingForUserConfirmation,
                  AskQuestion, AddRunGuidance
    <2> QED
      BY <2>1, <2>2, <2>3, <2>4, <2>5 DEF Ungraphed
  <1>5. PICK a \in Attempt, severity \in Severity, d \in {"approved", "changes_requested"} :
           GraphSubmitReview(a, severity, d)
    BY <1>0, <1>1, <1>2, <1>3, <1>4 DEF GraphRunOperation
  <1>6. SubmitReview(a, severity)
    BY <1>5 DEF GraphSubmitReview
  <1>7. attempt[a].run = n
    BY <1>t, <1>m, <1>6 DEF SubmitReview
  <1> QED
    BY <1>5, <1>6, <1>7 DEF Reviewing

\* A Review is never taken back.
LEMMA ReviewsStay ==
    ASSUME PlanTypeOK, [PlanNext]_planAll, NEW a \in Attempt, review[a] # "none"
    PROVE  review'[a] # "none"
  <1>1. ASSUME NEW b \in Attempt, NEW severity \in Severity, SubmitReview(b, severity)
        PROVE  review'[a] # "none"
    <2>1. review' = [review EXCEPT ![b] = severity] /\ severity # "none"
      BY <1>1 DEF SubmitReview, Severity
    <2> QED
      BY <2>1 DEF PlanTypeOK, TypeOK
  <1>2. review' = review \/ \E b \in Attempt, severity \in Severity : SubmitReview(b, severity)
    <2>1. CASE GraphRunOperation
      BY <2>1 DEF GraphRunOperation, GraphClaimRunAttempt, ClaimRunAttempt, GraphSettleRunAttempt,
         SettleRunAttempt, GraphSubmitReview, GraphAcceptReview, AcceptReview
    <2>2. CASE Ungraphed
      BY <2>2 DEF Ungraphed, TransitionToArchitectureReview, TransitionToWaitingForUserConfirmation,
         SubmitFix, CancelRun, AskQuestion, AnswerQuestion, RetryRun, AddRunGuidance
    <2>3. CASE PlanOperation \/ UNCHANGED planAll
      BY <2>3, ReconcileFrame DEF PlanOperation, CreatePlanRevision, DecidePlanRevision, planAll, vars
    <2> QED
      BY <2>1, <2>2, <2>3 DEF PlanNext
  <1> QED
    BY <1>1, <1>2

\* The latest attempt of n was reviewed.
ReviewedRun(n) ==
    /\ AttemptsOf(n) # {}
    /\ \A a \in Attempt : IsLatestAttempt(n, a) => review[a] # "none"

\* Attempts are told apart by their numbers, and who decides on a Run, or has accepted
\* it, has the Review of its latest attempt.
AttemptRows ==
    /\ NumbersDistinct /\ AbsentRowIsFree
    /\ \A n \in Run : run[n].status \in {"review_discussion", "accepted"} => ReviewedRun(n)

LEMMA AttemptRowsStep ==
    PlanTypeOK /\ Founded /\ AttemptRows /\ [PlanNext]_planAll => AttemptRows'
  <1> SUFFICES ASSUME PlanTypeOK, Founded, AttemptRows, [PlanNext]_planAll PROVE AttemptRows'
    OBVIOUS
  <1>t. TypeOK /\ NumbersDistinct /\ AbsentRowIsFree /\ attempt \in [Attempt -> AttemptRecord]
    BY DEF PlanTypeOK, TypeOK, AttemptRows
  <1>c. ASSUME NEW b \in Attempt, ~SameRow(b)
        PROVE  /\ attempt'[b].status = "running"
               /\ \A c \in Attempt \ {b} : attempt'[c] = attempt[c]
               /\ \A c \in AttemptsOf(attempt'[b].run) : attempt[c].no < attempt'[b].no
    <2>1. PICK r \in Run, w \in Worktree : GraphClaimRunAttempt(b, r, w)
      BY <1>c, RowMoves
    <2>2. ClaimRunAttempt(b, r, w)
      BY <2>1, GraphClaimEffect
    <2> QED
      BY <1>t, <2>2, ClaimEffect
  <1>1. NumbersDistinct'
    <2> SUFFICES ASSUME NEW b \in Attempt, NEW c \in Attempt, b # c, attempt'[b].run \in Run,
                        attempt'[c].run = attempt'[b].run
                 PROVE  attempt'[b].no # attempt'[c].no
      BY DEF NumbersDistinct, AttemptsOf
    <2>n. attempt[b].no \in Nat /\ attempt[c].no \in Nat
      BY <1>t, BoundAssumption DEF AttemptRecord
    <2>1. CASE SameRow(b) /\ SameRow(c)
      BY <1>t, <2>1 DEF NumbersDistinct, AttemptsOf, SameRow
    <2>2. CASE ~SameRow(b)
      <3>1. attempt'[c] = attempt[c] /\ attempt[c].no < attempt'[b].no
        BY <1>c, <2>2 DEF AttemptsOf
      <3> QED
        BY <2>n, <3>1
    <2>3. CASE ~SameRow(c)
      <3>1. attempt'[b] = attempt[b] /\ attempt[b].no < attempt'[c].no
        BY <1>c, <2>3 DEF AttemptsOf
      <3> QED
        BY <2>n, <3>1
    <2> QED
      BY <2>1, <2>2, <2>3
  <1>2. AbsentRowIsFree'
    <2> SUFFICES ASSUME NEW b \in Attempt, attempt'[b].status = "absent"
                 PROVE  attempt'[b].run = None
      BY DEF AbsentRowIsFree
    <2>1. SameRow(b)
      BY <1>c
    <2> QED
      BY <1>t, <2>1 DEF SameRow, AbsentRowIsFree
  <1>3. ASSUME NEW n \in Run, run'[n].status \in {"review_discussion", "accepted"}
        PROVE  ReviewedRun(n)'
    <2>1. CASE run[n].status \in {"review_discussion", "accepted"}
      <3>1. ReviewedRun(n)
        BY <2>1 DEF AttemptRows
      <3>2. AttemptsOf(n)' = AttemptsOf(n) /\ \A a \in AttemptsOf(n) : attempt'[a].no = attempt[a].no
        BY <1>t, <2>1, DecidedIsStill DEF SameRow
      <3>3. \A a \in Attempt : IsLatestAttempt(n, a)' => IsLatestAttempt(n, a)
        BY <3>2 DEF IsLatestAttempt
      <3> QED
        BY <3>1, <3>2, <3>3, ReviewsStay DEF ReviewedRun
    <2>2. CASE run[n].status \notin {"review_discussion", "accepted"}
      <3>0. Reviewing(n)
        BY <1>3, <2>2, DecisionStep
      <3>1. PICK a \in Attempt, severity \in Severity :
               SubmitReview(a, severity) /\ attempt[a].run = n
        BY <3>0 DEF Reviewing
      <3>2. /\ IsLatestAttempt(n, a) /\ attempt' = attempt
            /\ review' = [review EXCEPT ![a] = severity] /\ severity # "none"
        BY <3>1 DEF SubmitReview, Severity
      <3>3. ASSUME NEW b \in Attempt, IsLatestAttempt(n, b)' PROVE b = a
        <4>1. /\ attempt[a].no <= attempt[b].no /\ attempt[b].no <= attempt[a].no
              /\ a \in AttemptsOf(n) /\ b \in AttemptsOf(n)
          BY <3>2, <3>3 DEF IsLatestAttempt, AttemptsOf
        <4>2. attempt[a].no = attempt[b].no
          BY <1>t, <4>1, BoundAssumption DEF AttemptRecord
        <4> QED
          BY <1>t, <4>1, <4>2 DEF NumbersDistinct
      <3>4. review'[a] # "none" /\ AttemptsOf(n)' # {}
        BY <1>t, <3>2 DEF TypeOK, IsLatestAttempt, AttemptsOf
      <3> QED
        BY <3>3, <3>4 DEF ReviewedRun
    <2> QED
      BY <2>1, <2>2
  <1> QED
    BY <1>1, <1>2, <1>3 DEF AttemptRows

\* A settlement changes no attempt and decides on no Run.
LEMMA GitAttemptRowsStep ==
    GitShape /\ Consent /\ AttemptRows /\ [GitNext]_allVars => AttemptRows'
  <1> SUFFICES ASSUME GitShape, Consent, AttemptRows, [GitNext]_allVars PROVE AttemptRows'
    OBVIOUS
  <1>t. PlanTypeOK /\ Founded /\ ActionsAreDispatched
    BY DEF GitShape, GitTypeOK, Consent
  <1>1. CASE [PlanNext]_planAll
    BY <1>t, <1>1, AttemptRowsStep
  <1>2. ASSUME NEW c \in Call, SettleGitAction(c) PROVE AttemptRows'
    <2>1. /\ attempt' = attempt /\ review' = review
          /\ \A n \in Run : run'[n].status = run[n].status
      BY <1>t, <1>2, SettleFrame
    <2> QED
      BY <2>1 DEF AttemptRows, NumbersDistinct, AbsentRowIsFree, ReviewedRun, IsLatestAttempt,
                  AttemptsOf
  <1> QED
    BY <1>1, <1>2, PlanMoves

\* An accepted Run stays as it is, with its attempts and their paths.
KeptRow(a) ==
    /\ attempt'[a].no = attempt[a].no
    /\ attempt'[a].worktree = attempt[a].worktree
    /\ evidence'[a] = evidence[a]

LEMMA AcceptedIsStill ==
    ASSUME GitShape, Consent, AttemptRows, [GitNext]_allVars, NEW n \in Run,
           run[n].status = "accepted"
    PROVE  /\ run'[n].status = "accepted"
           /\ AttemptsOf(n)' = AttemptsOf(n)
           /\ \A a \in AttemptsOf(n) : KeptRow(a)
           /\ \A a \in Attempt : IsLatestAttempt(n, a)' <=> IsLatestAttempt(n, a)
  <1>t. PlanTypeOK /\ Founded /\ ActionsAreDispatched /\ AbsentRowIsFree
    BY DEF GitShape, GitTypeOK, Consent, AttemptRows
  <1>1. /\ run'[n].status = "accepted"
        /\ AttemptsOf(n)' = AttemptsOf(n)
        /\ \A a \in AttemptsOf(n) : KeptRow(a)
    <2>1. CASE [PlanNext]_planAll
      BY <1>t, <2>1, DecidedIsStill DEF SameRow, KeptRow
    <2>2. ASSUME NEW c \in Call, SettleGitAction(c)
          PROVE  /\ run'[n].status = "accepted"
                 /\ AttemptsOf(n)' = AttemptsOf(n)
                 /\ \A a \in AttemptsOf(n) : KeptRow(a)
      <3>1. /\ attempt' = attempt /\ evidence' = evidence
            /\ run'[n].status = run[n].status
        BY <1>t, <2>2, SettleFrame
      <3> QED
        BY <3>1 DEF AttemptsOf, KeptRow
    <2> QED
      BY <2>1, <2>2, PlanMoves
  <1>2. \A a \in Attempt : IsLatestAttempt(n, a)' <=> IsLatestAttempt(n, a)
    BY <1>1 DEF IsLatestAttempt, KeptRow
  <1> QED
    BY <1>1, <1>2

\* What git has done, reported or still to be reported.
Live(i) ==
    \/ action[i].status = "succeeded"
    \/ \E c \in Call : call[c].at = "done" /\ call[c].action = i

LEMMA LiveStep ==
    ASSUME GitShape, [GitNext]_allVars, NEW i \in Actions', Live(i)'
    PROVE  /\ i \in Actions /\ Shown(i)' = Shown(i)
           /\ \/ Live(i)
              \/ \E c \in Call : RunGit(c) /\ call[c].action = i /\ call'[c].at = "done"
  <1>t. GitTypeOK /\ CallsInOrder
    BY DEF GitShape
  <1>1. ASSUME NEW c \in Call, call'[c].at = "done", call'[c].action = i
        PROVE  /\ i \in Actions
               /\ Live(i) \/ (RunGit(c) /\ call[c].action = i)
    <2>1. CASE call'[c] = call[c]
      <3>1. call[c].at = "done" /\ call[c].action = i
        BY <1>1, <2>1
      <3> QED
        BY <1>t, <3>1 DEF CallsInOrder, CallOk, Live
    <2>2. CASE call'[c] # call[c]
      <3>1. /\ call'[c] # Idle /\ call'[c].at # "git"
            /\ \A j \in Actions : call'[c] # [at |-> "observed", action |-> j]
        BY <1>1 DEF Idle
      <3>2. RunGit(c) /\ call[c].action = i
        BY <1>t, <1>1, <2>2, <3>1, CallStep
      <3> QED
        BY <1>t, <3>2 DEF RunGit, CallsInOrder, CallOk
    <2> QED
      BY <2>1, <2>2
  <1>2. ASSUME action'[i].status = "succeeded" PROVE i \in Actions /\ Live(i)
    <2>1. i \in Actions
      BY <1>t, <1>2, NewPreview
    <2>2. CASE action[i].status = "succeeded"
      BY <2>1, <2>2 DEF Live
    <2>3. CASE action[i].status # "succeeded"
      BY <1>t, <1>2, <2>1, <2>3, NewSuccessIsSettled DEF Live
    <2> QED
      BY <2>1, <2>2, <2>3
  <1>3. i \in Actions /\ (Live(i) \/ \E c \in Call : RunGit(c) /\ call[c].action = i /\ call'[c].at = "done")
    BY <1>1, <1>2 DEF Live
  <1> QED
    BY <1>t, <1>3, SuccessesStay

\* What git has done for a live action is in its target.
LEMMA LiveIsEffected ==
    ASSUME Branches, NEW i \in Actions, Live(i)
    PROVE  Effected(Shown(i))
  BY DEF Branches, OutcomesHold, Live

IsCreate(i) == Shown(i).operation = "create_worktree"

\* Git creates a worktree once ...
OneCreator ==
    \A i, j \in Actions :
        /\ Live(i) /\ IsCreate(i)
        /\ Live(j) /\ IsCreate(j)
        /\ Shown(i).worktree = Shown(j).worktree
        => i = j

\* ... and an attempt works in one that was created for its Run.
AttemptsAreCreated ==
    \A a \in Attempt : attempt[a].status # "absent" =>
        \E j \in Actions :
            IsCreateOf(j, attempt[a].run, attempt[a].worktree) /\ action[j].status = "succeeded"

Creators == OneCreator /\ AttemptsAreCreated

LEMMA OneCreatorStep ==
    GitShape /\ Branches /\ Creators /\ [GitNext]_allVars => OneCreator'
  <1> SUFFICES ASSUME GitShape, Branches, OneCreator, [GitNext]_allVars PROVE OneCreator'
    BY DEF Creators
  <1>t. GitTypeOK
    BY DEF GitShape
  <1>n. ASSUME NEW i \in Actions, NEW j \in Actions, IsCreate(i), IsCreate(j),
               Live(j), ~Live(i), Live(i)'
        PROVE  Shown(i).worktree # Shown(j).worktree
    <2>1. PICK c \in Call : RunGit(c) /\ call[c].action = i /\ call'[c].at = "done"
      <3>1. i \in Actions'
        BY <1>t, SuccessesStay
      <3> QED
        BY <1>n, <3>1, LiveStep
    <2>2. PICK p \in Preview : p = Shown(i)
      BY <1>t, ShownIsPreview
    <2>3. GitCreate(p)
      <3>1. p.operation = "create_worktree"
        BY <1>n, <2>2 DEF IsCreate
      <3> QED
        BY <2>1, <2>2, <3>1, RunGitKinds
    <2>4. tip[p.worktree] = None
      BY <2>3 DEF GitCreate
    <2>5. tip[Shown(j).worktree] # None
      <3>1. Effected(Shown(j))
        BY <1>n, LiveIsEffected
      <3> QED
        BY <1>n, <3>1 DEF IsCreate, Effected, Holds, Target
    <2> QED
      BY <2>2, <2>4, <2>5
  <1>1. ASSUME NEW i \in Actions', NEW j \in Actions', Live(i)', Live(j)',
               IsCreate(i)', IsCreate(j)', Shown(i)'.worktree = Shown(j)'.worktree, i # j
        PROVE  FALSE
    <2>1. /\ i \in Actions /\ Shown(i)' = Shown(i)
          /\ j \in Actions /\ Shown(j)' = Shown(j)
      BY <1>1, LiveStep
    <2>2. IsCreate(i) /\ IsCreate(j) /\ Shown(i).worktree = Shown(j).worktree
      BY <1>1, <2>1 DEF IsCreate
    <2>3. CASE Live(i) /\ Live(j)
      BY <1>1, <2>1, <2>2, <2>3 DEF OneCreator
    <2>4. CASE Live(j) /\ ~Live(i)
      BY <1>1, <1>n, <2>1, <2>2, <2>4
    <2>5. CASE Live(i) /\ ~Live(j)
      BY <1>1, <1>n, <2>1, <2>2, <2>5
    <2>6. Live(i) \/ Live(j)
      <3> SUFFICES ASSUME ~Live(i), ~Live(j) PROVE FALSE
        OBVIOUS
      <3>1. PICK c \in Call : RunGit(c) /\ call[c].action = i /\ call'[c].at = "done"
        BY <1>1, LiveStep
      <3>2. PICK d \in Call : RunGit(d) /\ call[d].action = j /\ call'[d].at = "done"
        BY <1>1, LiveStep
      <3>3. c # d
        BY <1>1, <3>1, <3>2
      <3>4. call'[d] = call[d]
        BY <1>t, <3>1, <3>3 DEF RunGit, GitTypeOK
      <3> QED
        BY <3>2, <3>4 DEF RunGit
    <2> QED
      BY <2>3, <2>4, <2>5, <2>6
  <1> QED
    BY <1>1 DEF OneCreator

LEMMA AttemptsCreatedStep ==
    GitShape /\ Consent /\ Branches /\ AttemptRows /\ Creators /\ [GitNext]_allVars
        => AttemptsAreCreated'
  <1> SUFFICES ASSUME GitShape, Consent, Branches, AttemptRows, AttemptsAreCreated,
                      [GitNext]_allVars, NEW a \in Attempt, attempt'[a].status # "absent",
                      NEW n, n = attempt'[a].run, NEW w, w = attempt'[a].worktree
               PROVE  \E j \in Actions' : IsCreateOf(j, n, w)' /\ action'[j].status = "succeeded"
    BY DEF AttemptsAreCreated, Creators, IsCreateOf
  <1>t. GitTypeOK /\ PlanTypeOK /\ TypeOK /\ Founded /\ ActionsAreDispatched
    BY DEF GitShape, GitTypeOK, PlanTypeOK, Consent
  <1>1. \E j \in Actions : IsCreateOf(j, n, w) /\ action[j].status = "succeeded"
    <2>1. CASE SameRow(a)
      BY <2>1 DEF SameRow, AttemptsAreCreated
    <2>2. CASE \E r \in Run, v \in Worktree : GraphClaimRunAttempt(a, r, v)
      <3>1. PICK r \in Run, v \in Worktree : GraphClaimRunAttempt(a, r, v)
        BY <2>2
      <3>2. ClaimRunAttempt(a, r, v) /\ dispatch[r].worktree = v
        BY <1>t, <3>1, GraphClaimEffect
      <3>3. n = r /\ w = v
        BY <1>t, <3>1, <3>2, ClaimEffect
      <3>4. v # None
        BY <3>1, NoneAssumption
      <3> QED
        BY <3>1, <3>2, <3>3, <3>4 DEF Branches, WorktreesAreCreated
    <2>3. CASE \E c \in Call : SettleGitAction(c)
      <3>1. attempt' = attempt
        BY <1>t, <2>3, SettleFrame
      <3> QED
        BY <3>1 DEF AttemptsAreCreated
    <2> QED
      BY <1>t, <2>1, <2>2, <2>3, PlanMoves, RowMoves
  <1>2. PICK j \in Actions : IsCreateOf(j, n, w) /\ action[j].status = "succeeded"
    BY <1>1
  <1>3. j \in Actions' /\ Shown(j)' = Shown(j) /\ action'[j].status = "succeeded"
    BY <1>t, <1>2, SuccessesStay
  <1> QED
    BY <1>2, <1>3 DEF IsCreateOf

\* While an attempt is in its Run, nobody creates its worktree, or is about to report it
\* created, but the one action that did.
LEMMA NoSecondCreator ==
    ASSUME Creators, NEW a \in Attempt, attempt[a].status # "absent",
           NEW k \in Actions, Live(k), IsCreate(k), Shown(k).worktree = attempt[a].worktree
    PROVE  action[k].status = "succeeded"
  <1>1. PICK j \in Actions :
           IsCreateOf(j, attempt[a].run, attempt[a].worktree) /\ action[j].status = "succeeded"
    BY DEF Creators, AttemptsAreCreated
  <1>2. Live(j) /\ IsCreate(j) /\ Shown(j).worktree = Shown(k).worktree
    BY <1>1 DEF Live, IsCreate, IsCreateOf
  <1>3. j = k
    BY <1>2 DEF Creators, OneCreator
  <1> QED
    BY <1>1, <1>3

-----------------------------------------------------------------------------
(* Commits and the fast-forward: what was admitted at the reservation is    *)
(* what git does and what the settlement finds.                             *)

Reserved(i) == action[i].status \in {"executing"} \cup TerminalAction

\* Reserved is what the Room admits then, and what was reserved before.
LEMMA ReservedStep ==
    ASSUME GitShape, PreviewStands, [GitNext]_allVars, NEW i \in Actions', Reserved(i)'
    PROVE  /\ i \in Actions /\ Shown(i)' = Shown(i) /\ Shown(i) \in Preview
           /\ \/ Reserved(i)
              \/ Admitted(Shown(i)) /\ UNCHANGED <<vars, planVars, tip>>
  <1>t. GitTypeOK
    BY DEF GitShape
  <1>1. i \in Actions
    <2> SUFFICES ASSUME i \notin Actions PROVE FALSE
      OBVIOUS
    <2>1. action'[i].status = "previewed"
      BY <1>t, NewPreview
    <2> QED
      BY <2>1 DEF Reserved, TerminalAction
  <1>2. ASSUME ~Reserved(i)
        PROVE  Admitted(Shown(i)) /\ UNCHANGED <<vars, planVars, tip>>
    <2>1. action'[i].status = "executing" /\ action[i].status # "executing"
      <3>1. action'[i] # action[i]
        BY <1>2 DEF Reserved
      <3>2. <<action[i].status, action'[i].status>> \in ActionMove
        BY <1>1, <1>t, <3>1, ActionStep
      <3> QED
        BY <1>2, <3>2 DEF Reserved, ActionMove, TerminalAction
    <2>2. cursor = i /\ action[i].status = "approved" /\ UNCHANGED <<vars, planVars, tip>>
      BY <1>1, <1>t, <2>1, Reservation
    <2>3. cursor # 0
      BY <1>1, <1>t, <2>2 DEF Actions, GitTypeOK
    <2> QED
      BY <2>2, <2>3 DEF PreviewStands
  <1> QED
    BY <1>1, <1>2, <1>t, SuccessesStay, ShownIsPreview

\* The worktree of a dispatch moves by the settlement of its creation only.
LEMMA WorktreeMoves ==
    ASSUME GitShape, Consent, [GitNext]_allVars, NEW n \in Run, Dispatched(n),
           dispatch'[n].worktree # dispatch[n].worktree
    PROVE  \E i \in Actions : /\ Live(i) /\ IsCreateOf(i, n, dispatch'[n].worktree)
                              /\ action[i].status = "executing"
  <1>t. GitTypeOK /\ PlanTypeOK /\ CallsInOrder /\ Founded
    BY DEF GitShape, GitTypeOK, Consent
  <1>1. ~[PlanNext]_planAll
    BY <1>t, DispatchStep
  <1>2. PICK c \in Call : SettleGitAction(c)
    BY <1>1, PlanMoves
  <1>3. PICK i : i = call[c].action
    OBVIOUS
  <1>4. PICK p \in Preview : p = Shown(i)
    BY <1>t, <1>2, <1>3, SettledAction
  <1>5. i \in Actions /\ Apply(p, call[c].at)
    BY <1>t, <1>2, <1>3, <1>4, SettledAction
  <1>6. /\ call[c].at = "done" /\ p.operation = "create_worktree" /\ n = p.node
        /\ Bound(p.node, p.worktree)
    BY <1>t, <1>5, ApplyEffect DEF Committed
  <1>7. dispatch'[n].worktree = p.worktree
    BY <1>6 DEF Bound
  <1>8. action[i].status = "executing"
    BY <1>2, <1>3 DEF SettleGitAction
  <1> QED
    BY <1>3, <1>4, <1>5, <1>6, <1>7, <1>8 DEF IsCreateOf, Live

\* No success is news in the worktree of an attempt of an accepted Run.
LEMMA CreatorWas ==
    ASSUME GitShape, Consent, AttemptRows, Creators, [GitNext]_allVars,
           NEW n \in Run, NEW a \in AttemptsOf(n), NEW w, w = attempt[a].worktree,
           NEW j \in Actions', IsCreateOf(j, n, w)', action'[j].status = "succeeded"
    PROVE  /\ j \in Actions /\ Shown(j)' = Shown(j)
           /\ IsCreateOf(j, n, w) /\ action[j].status = "succeeded"
  <1>t. GitTypeOK
    BY DEF GitShape
  <1>1. Live(j)'
    BY DEF Live
  <1>2. j \in Actions /\ Shown(j)' = Shown(j)
    BY <1>1, LiveStep
  <1>3. IsCreateOf(j, n, w)
    BY <1>2 DEF IsCreateOf
  <1>4. action[j].status = "succeeded"
    <2> SUFFICES ASSUME action[j].status # "succeeded" PROVE FALSE
      OBVIOUS
    <2>1. Live(j)
      BY <1>2, <1>t, NewSuccessIsSettled DEF Live
    <2>2. a \in Attempt /\ attempt[a].status # "absent"
      <3>1. a \in Attempt /\ attempt[a].run = n /\ None # n
        BY NoneAssumption DEF AttemptsOf
      <3> QED
        BY <3>1 DEF AttemptRows, AbsentRowIsFree
    <2>3. IsCreate(j) /\ Shown(j).worktree = attempt[a].worktree
      BY <1>3 DEF IsCreate, IsCreateOf
    <2> QED
      BY <1>2, <2>1, <2>2, <2>3, NoSecondCreator
  <1> QED
    BY <1>2, <1>3, <1>4

\* The latest action of its kind was it before.
LEMMA LatestWas ==
    ASSUME GitTypeOK, [GitNext]_allVars, NEW j \in Actions, NEW k, NEW n, NEW operation,
           IsLatestFor(k, n, operation, j)'
    PROVE  IsLatestFor(k, n, operation, j)
  <1>1. \A i \in Actions : i \in Actions' /\ Shown(i)' = Shown(i)
    BY SuccessesStay
  <1> QED
    BY <1>1 DEF IsLatestFor

\* A worktree is that of the dispatch, unless another was bound to it after its attempts.
InPlace(n, w) ==
    \/ dispatch[n].worktree = w
    \/ \E a \in AttemptsOf(n) : attempt[a].worktree # dispatch[n].worktree

\* The worktree of an attempt was created in no later revision than that of the commit, and
\* is the worktree of the commit if it is the last one that revision created.
FollowsCreation(p) ==
    \A a \in AttemptsOf(p.node), j \in Actions :
        IsCreateOf(j, p.node, attempt[a].worktree) /\ action[j].status = "succeeded" =>
            /\ Shown(j).rev <= p.rev
            /\ IsLatestFor(p.rev, p.node, "create_worktree", j) => p.worktree = attempt[a].worktree

CommitStands(p) ==
    run[p.node].status = "accepted" /\ InPlace(p.node, p.worktree) /\ FollowsCreation(p)

CommitsStand ==
    \A i \in Actions, p \in Preview :
        Reserved(i) /\ Shown(i) = p /\ p.operation = "commit_paths" => CommitStands(p)

Settling == AttemptRows /\ Creators /\ PreviewStands

LEMMA CommitIsAdmitted ==
    ASSUME GitTypeOK, Consent, NEW p \in Preview, p.operation = "commit_paths", Admitted(p)
    PROVE  CommitStands(p)
  <1>1. /\ p.rev = Len(revision) /\ CommitAdmitted(p)
    BY DEF Admitted
  <1>2. run[p.node].status = "accepted" /\ InPlace(p.node, p.worktree)
    BY <1>1 DEF CommitAdmitted, InPlace
  <1>3. ASSUME NEW a \in AttemptsOf(p.node), NEW j \in Actions,
               IsCreateOf(j, p.node, attempt[a].worktree), action[j].status = "succeeded"
        PROVE  /\ Shown(j).rev <= p.rev
               /\ IsLatestFor(p.rev, p.node, "create_worktree", j) => p.worktree = attempt[a].worktree
    <2>1. Shown(j).rev <= p.rev
      <3>1. /\ Shown(j).rev \in dispatch[Shown(j).node].rev .. Len(revision)
        BY DEF Consent, ActionsAreDispatched
      <3> QED
        BY <1>1, <3>1
    <2>2. IsLatestFor(p.rev, p.node, "create_worktree", j) => p.worktree = Shown(j).worktree
      BY <1>1, <1>3 DEF CommitAdmitted
    <2> QED
      BY <1>3, <2>1, <2>2 DEF IsCreateOf
  <1> QED
    BY <1>2, <1>3 DEF CommitStands, FollowsCreation

LEMMA InPlaceStays ==
    ASSUME GitShape, Consent, AttemptRows, Creators, [GitNext]_allVars,
           NEW n \in Run, run[n].status = "accepted", NEW w, InPlace(n, w)
    PROVE  InPlace(n, w)'
  <1>1. AttemptsOf(n)' = AttemptsOf(n) /\ \A a \in AttemptsOf(n) : attempt'[a].worktree = attempt[a].worktree
    BY AcceptedIsStill DEF KeptRow
  <1>2. CASE dispatch'[n].worktree = dispatch[n].worktree
    BY <1>1, <1>2 DEF InPlace
  <1>3. CASE dispatch'[n].worktree # dispatch[n].worktree
    <2>1. Dispatched(n)
      BY DEF Consent, Founded, RunsAreDispatched
    <2>2. PICK i \in Actions : /\ Live(i) /\ IsCreateOf(i, n, dispatch'[n].worktree)
                               /\ action[i].status = "executing"
      BY <1>3, <2>1, WorktreeMoves
    <2>3. PICK a \in AttemptsOf(n) : TRUE
      BY DEF AttemptRows, ReviewedRun
    <2>4. a \in Attempt /\ attempt[a].status # "absent"
      <3>1. a \in Attempt /\ attempt[a].run = n /\ None # n
        BY <2>3, NoneAssumption DEF AttemptsOf
      <3> QED
        BY <3>1 DEF AttemptRows, AbsentRowIsFree
    <2>5. attempt[a].worktree # dispatch'[n].worktree
      BY <2>2, <2>4, NoSecondCreator DEF IsCreate, IsCreateOf
    <2> QED
      BY <1>1, <2>3, <2>5 DEF InPlace
  <1> QED
    BY <1>2, <1>3

LEMMA FollowsStays ==
    ASSUME GitShape, Consent, AttemptRows, Creators, [GitNext]_allVars,
           NEW p \in Preview, run[p.node].status = "accepted", FollowsCreation(p)
    PROVE  FollowsCreation(p)'
  <1>t. GitTypeOK /\ p.node \in Run
    BY PreviewKinds DEF GitShape
  <1>1. AttemptsOf(p.node)' = AttemptsOf(p.node)
        /\ \A a \in AttemptsOf(p.node) : attempt'[a].worktree = attempt[a].worktree
    BY <1>t, AcceptedIsStill DEF KeptRow
  <1>2. ASSUME NEW a \in AttemptsOf(p.node), NEW w, w = attempt[a].worktree, NEW j \in Actions',
               IsCreateOf(j, p.node, w)', action'[j].status = "succeeded"
        PROVE  /\ Shown(j)'.rev <= p.rev
               /\ IsLatestFor(p.rev, p.node, "create_worktree", j)' => p.worktree = w
    <2>1. /\ j \in Actions /\ Shown(j)' = Shown(j)
          /\ IsCreateOf(j, p.node, w) /\ action[j].status = "succeeded"
      BY <1>t, <1>2, CreatorWas
    <2>2. IsLatestFor(p.rev, p.node, "create_worktree", j)'
             => IsLatestFor(p.rev, p.node, "create_worktree", j)
      BY <1>t, <2>1, LatestWas
    <2> QED
      BY <1>2, <2>1, <2>2 DEF FollowsCreation
  <1> QED
    BY <1>1, <1>2 DEF FollowsCreation, IsCreateOf

LEMMA CommitsStep ==
    GitShape /\ Consent /\ Settling /\ CommitsStand /\ [GitNext]_allVars => CommitsStand'
  <1> SUFFICES ASSUME GitShape, Consent, Settling, CommitsStand, [GitNext]_allVars,
                      NEW i \in Actions', NEW p \in Preview, Reserved(i)', Shown(i)' = p,
                      p.operation = "commit_paths"
               PROVE  CommitStands(p)'
    BY DEF CommitsStand
  <1>t. GitTypeOK /\ AttemptRows /\ Creators /\ PreviewStands /\ p.node \in Run
    BY PreviewKinds DEF GitShape, Settling
  <1>1. /\ i \in Actions /\ Shown(i) = p
        /\ Reserved(i) \/ Admitted(p)
    BY <1>t, ReservedStep
  <1>2. CommitStands(p)
    BY <1>1, <1>t, CommitIsAdmitted DEF CommitsStand
  <1>3. run'[p.node].status = "accepted"
    BY <1>2, <1>t, AcceptedIsStill DEF CommitStands
  <1>4. InPlace(p.node, p.worktree)'
    BY <1>2, <1>t, InPlaceStays DEF CommitStands
  <1>5. FollowsCreation(p)'
    BY <1>2, <1>t, FollowsStays DEF CommitStands
  <1> QED
    BY <1>3, <1>4, <1>5 DEF CommitStands

-----------------------------------------------------------------------------
(* Completion.                                                             *)

\* A node is completed by its acceptance ...
LEMMA PlanCompletes ==
    ASSUME PlanTypeOK, Founded, [PlanNext]_planAll, NEW n \in Run,
           dispatch[n].status # "completed", dispatch'[n].status = "completed"
    PROVE  \E a \in Attempt : GraphAcceptReview(a) /\ attempt[a].run = n
  <1>0. dispatch' # dispatch
    OBVIOUS
  <1>t. dispatch \in [Run -> DispatchRecord]
    BY DEF PlanTypeOK, DispatchRecord
  <1>1. ASSUME NEW mapping \in Mappings, ReconcilePlan(mapping) PROVE FALSE
    BY <1>1, ReconcileFields
  <1>2. ASSUME NEW a \in Attempt, NEW r \in Run, NEW w \in Worktree, GraphClaimRunAttempt(a, r, w)
        PROVE  FALSE
    <2>1. /\ dispatch[r].status \in {"ready", "dispatched", "blocked"}
          /\ dispatch'[r].status = IF dispatch[r].status = "ready" THEN "dispatched" ELSE dispatch[r].status
          /\ \A q \in Run \ {r} : dispatch'[q] = dispatch[q]
      BY <1>2, GraphClaimEffect
    <2>2. CASE n = r
      BY <2>1, <2>2
    <2>3. CASE n # r
      BY <2>1, <2>3
    <2> QED
      BY <2>2, <2>3
  <1>3. ASSUME NEW a \in Attempt, NEW status \in TerminalStatus, NEW paths \in Change,
               GraphSettleRunAttempt(a, status, ResultOf(a, status), FailureOf(status), None, paths)
        PROVE  FALSE
    <2>1. attempt[a].status # "absent"
      BY <1>3 DEF GraphSettleRunAttempt, SettleRunAttempt, IsActive, ActiveStatus
    <2>2. attempt[a].run \in Run
      BY <2>1, AttemptIsDispatched
    <2>3. n = attempt[a].run
      <3>1. \A q \in Run \ {attempt[a].run} : dispatch'[q] = dispatch[q]
        BY <1>3, <2>2, GraphSettleEffect
      <3> QED
        BY <3>1
    <2>4. dispatch'[n].status \in {"blocked", "dispatched"} \/ dispatch'[n].status = dispatch[n].status
      <3>1. attempt'[a].status # "succeeded" => dispatch' = dispatch
        BY <1>3, <2>2, GraphSettleEffect
      <3>2. attempt'[a].status = "succeeded" => Projected(n, paths)
        BY <1>3, <2>2, <2>3, GraphSettleEffect
      <3> QED
        BY <3>1, <3>2 DEF Projected
    <2> QED
      BY <2>4
  <1>4. \E a \in Attempt : GraphAcceptReview(a)
    BY <1>0, <1>1, <1>2, <1>3 DEF PlanNext, PlanOperation, GraphRunOperation, CreatePlanRevision,
       DecidePlanRevision, GraphSubmitReview, Ungraphed, planAll, planVars
  <1>5. PICK a \in Attempt : GraphAcceptReview(a)
    BY <1>4
  <1>6. \E s : dispatch' = [dispatch EXCEPT ![attempt[a].run].status = s]
    BY <1>5 DEF GraphAcceptReview
  <1>7. attempt[a].run = n
    BY <1>t, <1>6
  <1> QED
    BY <1>5, <1>7

\* ... or by the settlement of its commit.
LEMMA CommitCompletes ==
    ASSUME GitShape, NEW c \in Call, SettleGitAction(c), NEW n \in Run,
           dispatch[n].status # "completed", dispatch'[n].status = "completed"
    PROVE  \E i \in Actions : /\ Shown(i).operation = "commit_paths" /\ Shown(i).node = n
                              /\ Reserved(i) /\ action'[i].status = "succeeded"
  <1>t. GitTypeOK /\ PlanTypeOK /\ CallsInOrder
    BY DEF GitShape, GitTypeOK
  <1>1. PICK i : i = call[c].action
    OBVIOUS
  <1>2. PICK p \in Preview : p = Shown(i)
    BY <1>t, <1>1, SettledAction
  <1>3. i \in Actions /\ Apply(p, call[c].at)
    BY <1>t, <1>1, <1>2, SettledAction
  <1>4. call[c].at = "done" /\ p.operation = "commit_paths" /\ n = p.node
    BY <1>t, <1>3, ApplyEffect DEF Bound
  <1>5. action[i].status = "executing" /\ action' = [action EXCEPT ![i].status = "succeeded"]
    BY <1>1, <1>4 DEF SettleGitAction
  <1>6. action \in Seq(ActionRecord) /\ "succeeded" \in ActionStatus
    BY <1>t DEF GitTypeOK, ActionRecord, ActionStatus
  <1>7. action'[i].status = "succeeded"
    BY <1>3, <1>5, <1>6, ActionStatusEffect
  <1> QED
    BY <1>2, <1>3, <1>4, <1>5, <1>7 DEF Reserved

HasCommit(n) ==
    \E i \in Actions : /\ Shown(i).operation = "commit_paths" /\ Shown(i).node = n
                       /\ action[i].status = "succeeded"

\* What an integration node leaves when it has changed nothing.
NothingToCommit(n) ==
    /\ n \in SourceGraph(n).integration
    /\ \A a \in Attempt : IsLatestAttempt(n, a) => evidence[a] = {}

CompletedIsDone ==
    \A n \in Run :
        dispatch[n].status = "completed" /\ SourceGraph(n).policy = "integration_only" =>
            run[n].status = "accepted" /\ (HasCommit(n) \/ NothingToCommit(n))

LEMMA AcceptanceCompletes ==
    ASSUME PlanTypeOK, AttemptRows, NEW a \in Attempt, GraphAcceptReview(a),
           NEW n \in Run, n = attempt[a].run, dispatch'[n].status = "completed",
           SourceGraph(n)' = SourceGraph(n), SourceGraph(n).policy = "integration_only"
    PROVE  run'[n].status = "accepted" /\ NothingToCommit(n)'
  <1>1. /\ run[n].status = "review_discussion" /\ IsCurrentReview(n, a)
        /\ n \in SourceGraph(n).integration
        /\ attempt' = attempt /\ evidence' = evidence
        /\ run' = [run EXCEPT ![n].status = "accepted"]
    BY DEF GraphAcceptReview, AcceptReview
  <1>2. evidence[a] = {}
    <2>1. dispatch' = [dispatch EXCEPT ![n].status =
             IF SourceGraph(n).policy = "integration_only" /\ evidence[a] # {}
               THEN "awaiting_git" ELSE "completed"]
      BY DEF GraphAcceptReview
    <2>2. dispatch \in [Run -> DispatchRecord]
      BY DEF PlanTypeOK, DispatchRecord
    <2> QED
      BY <2>1, <2>2
  <1>3. ASSUME NEW b \in Attempt, IsLatestAttempt(n, b) PROVE b = a
    <2>1. review[b] # "none"
      BY <1>1, <1>3 DEF AttemptRows, ReviewedRun
    <2>2. /\ attempt[a].no <= attempt[b].no /\ attempt[b].no <= attempt[a].no
          /\ a \in AttemptsOf(n) /\ b \in AttemptsOf(n)
      BY <1>1, <1>3, <2>1 DEF IsLatestAttempt, IsCurrentReview
    <2>3. attempt[a].no = attempt[b].no
      BY <2>2, BoundAssumption DEF PlanTypeOK, TypeOK, AttemptRecord
    <2> QED
      BY <2>2, <2>3 DEF AttemptRows, NumbersDistinct
  <1>4. NothingToCommit(n)'
    BY <1>1, <1>2, <1>3 DEF NothingToCommit, IsLatestAttempt, AttemptsOf
  <1>5. run'[n].status = "accepted"
    BY <1>1 DEF PlanTypeOK, TypeOK
  <1> QED
    BY <1>4, <1>5

LEMMA CompletedStep ==
    GitShape /\ Consent /\ AttemptRows /\ CommitsStand /\ CompletedIsDone /\ [GitNext]_allVars
        => CompletedIsDone'
  <1> SUFFICES ASSUME GitShape, Consent, AttemptRows, CommitsStand, CompletedIsDone,
                      [GitNext]_allVars, NEW n \in Run, dispatch'[n].status = "completed",
                      SourceGraph(n)'.policy = "integration_only"
               PROVE  run'[n].status = "accepted" /\ (HasCommit(n)' \/ NothingToCommit(n)')
    BY DEF CompletedIsDone
  <1>t. GitTypeOK /\ PlanTypeOK /\ Founded /\ ActionsAreDispatched
    BY DEF GitShape, GitTypeOK, Consent
  <1>1. CASE dispatch[n].status = "completed"
    <2>1. SourceGraph(n)' = SourceGraph(n)
      BY <1>1, DispatchedStays DEF Dispatched
    <2>2. run[n].status = "accepted" /\ (HasCommit(n) \/ NothingToCommit(n))
      BY <1>1, <2>1 DEF CompletedIsDone
    <2>3. /\ run'[n].status = "accepted"
          /\ \A a \in AttemptsOf(n) : evidence'[a] = evidence[a]
          /\ \A a \in Attempt : IsLatestAttempt(n, a)' <=> IsLatestAttempt(n, a)
      BY <2>2, AcceptedIsStill DEF KeptRow
    <2>4. HasCommit(n) => HasCommit(n)'
      BY <1>t, SuccessesStay DEF HasCommit
    <2>5. NothingToCommit(n) => NothingToCommit(n)'
      BY <2>1, <2>3 DEF NothingToCommit, IsLatestAttempt
    <2> QED
      BY <2>2, <2>3, <2>4, <2>5
  <1>2. ASSUME dispatch[n].status # "completed", [PlanNext]_planAll
        PROVE  run'[n].status = "accepted" /\ NothingToCommit(n)'
    <2>1. PICK a \in Attempt : GraphAcceptReview(a) /\ attempt[a].run = n
      BY <1>t, <1>2, PlanCompletes
    <2>2. Dispatched(n)
      <3>1. run[n].status # "absent"
        BY <2>1 DEF GraphAcceptReview, AcceptReview
      <3> QED
        BY <1>t, <3>1 DEF Founded, RunsAreDispatched
    <2>3. SourceGraph(n)' = SourceGraph(n)
      BY <2>2, DispatchedStays
    <2> QED
      BY <1>t, <2>1, <2>3, AcceptanceCompletes
  <1>3. ASSUME dispatch[n].status # "completed", NEW c \in Call, SettleGitAction(c)
        PROVE  run'[n].status = "accepted" /\ HasCommit(n)'
    <2>1. PICK i \in Actions : /\ Shown(i).operation = "commit_paths" /\ Shown(i).node = n
                               /\ Reserved(i) /\ action'[i].status = "succeeded"
      BY <1>3, CommitCompletes
    <2>2. HasCommit(n)'
      <3>1. i \in Actions' /\ Shown(i)' = Shown(i)
        BY <1>t, <2>1, SuccessesStay
      <3> QED
        BY <2>1, <3>1 DEF HasCommit
    <2>3. PICK p \in Preview : p = Shown(i)
      BY <1>t, <2>1, ShownIsPreview
    <2>4. CommitStands(p)
      BY <2>1, <2>3 DEF CommitsStand
    <2>5. run[n].status = "accepted"
      BY <2>1, <2>3, <2>4 DEF CommitStands
    <2> QED
      BY <2>2, <2>5, AcceptedIsStill
  <1> QED
    BY <1>1, <1>2, <1>3, PlanMoves

-----------------------------------------------------------------------------
(* The fast-forward.                                                       *)

\* A branch holds the work of p's node that was done where p is to be integrated from.
WorkIn(p, b) ==
    \A a \in Attempt :
        IsLatestAttempt(p.node, a) /\ evidence[a] # {} /\ attempt[a].worktree = p.source
            => Holds(b, {p.node})

SourcesHoldWork ==
    \A i \in Actions, p \in Preview :
        Reserved(i) /\ Shown(i) = p /\ p.operation = "integrate_fast_forward" =>
            run[p.node].status = "accepted" /\ WorkIn(p, p.source)

TargetsHoldWork ==
    \A i \in Actions, p \in Preview :
        Live(i) /\ Shown(i) = p /\ p.operation = "integrate_fast_forward" => WorkIn(p, Main)

\* Work committed for a completed node is in the worktree that is integrated: it is the one
\* of the last attempt, and no other was created in the revision of the commit.
LEMMA IntegrationIsAdmitted ==
    ASSUME GitShape, Consent, Branches, CommitsStand, CompletedIsDone,
           NEW i \in Actions, NEW p \in Preview, p = Shown(i),
           p.operation = "integrate_fast_forward", Admitted(p)
    PROVE  run[p.node].status = "accepted" /\ WorkIn(p, p.source)
  <1>t. GitTypeOK /\ p.node \in Run
    BY PreviewKinds DEF GitShape
  <1>1. /\ p.rev = Len(revision) /\ Len(revision) \in Nat /\ IntegrateAdmitted(p)
    BY <1>t DEF Admitted, GitTypeOK, PlanTypeOK
  <1>2. run[p.node].status = "accepted" /\ dispatch[p.node].status = "completed"
    BY <1>1 DEF IntegrateAdmitted
  <1>3. SourceGraph(p.node).policy = "integration_only"
    BY DEF Consent, ActionsAreDispatched
  <1>4. ASSUME NEW a \in Attempt, IsLatestAttempt(p.node, a), evidence[a] # {},
               attempt[a].worktree = p.source
        PROVE  Holds(p.source, {p.node})
    <2>1. HasCommit(p.node)
      BY <1>t, <1>2, <1>3, <1>4 DEF CompletedIsDone, NothingToCommit
    <2>2. PICK c \in Actions : /\ Shown(c).operation = "commit_paths" /\ Shown(c).node = p.node
                               /\ action[c].status = "succeeded"
      BY <2>1 DEF HasCommit
    <2>3. PICK q \in Preview : q = Shown(c)
      BY <1>t, <2>2, ShownIsPreview
    <2>4. CommitStands(q) /\ Effected(q)
      BY <2>2, <2>3 DEF CommitsStand, Reserved, TerminalAction, Branches, OutcomesHold
    <2>5. PICK j \in Actions :
             /\ IsLatestFor(p.rev, p.node, "create_worktree", j)
             /\ action[j].status = "succeeded"
             /\ p.source = Shown(j).worktree
      BY <1>1 DEF IntegrateAdmitted
    <2>6. IsCreateOf(j, q.node, attempt[a].worktree) /\ a \in AttemptsOf(q.node)
      BY <1>4, <2>2, <2>3, <2>5 DEF IsCreateOf, IsLatestFor, IsLatestAttempt
    <2>7. q.rev = p.rev
      <3>1. Shown(j).rev <= q.rev
        BY <2>4, <2>5, <2>6 DEF CommitStands, FollowsCreation
      <3>2. Shown(j).rev = p.rev
        BY <2>5 DEF IsLatestFor
      <3>3. q.rev \in dispatch[q.node].rev .. Len(revision)
        BY <2>2, <2>3 DEF Consent, ActionsAreDispatched
      <3>4. p.rev \in Nat /\ q.rev \in Nat
        BY <2>3, PreviewKinds
      <3> QED
        BY <1>1, <3>1, <3>2, <3>3, <3>4
    <2>8. q.worktree = p.source
      BY <1>4, <2>2, <2>3, <2>4, <2>5, <2>6, <2>7 DEF CommitStands, FollowsCreation
    <2> QED
      BY <2>2, <2>3, <2>4, <2>8 DEF Effected, Holds, Target
  <1> QED
    BY <1>2, <1>4 DEF WorkIn

LEMMA WorkInStays ==
    ASSUME GitShape, Consent, AttemptRows, [GitNext]_allVars, NEW p \in Preview,
           run[p.node].status = "accepted", NEW b \in Branch, WorkIn(p, b)
    PROVE  WorkIn(p, b)'
  <1>1. /\ \A a \in AttemptsOf(p.node) : KeptRow(a)
        /\ \A a \in Attempt : IsLatestAttempt(p.node, a)' <=> IsLatestAttempt(p.node, a)
    BY PreviewKinds, AcceptedIsStill
  <1>2. Holds(b, {p.node}) => Holds(b, {p.node})'
    BY TipsGrow DEF Holds
  <1> QED
    BY <1>1, <1>2 DEF WorkIn, KeptRow, IsLatestAttempt

LEMMA SourcesHoldStep ==
    GitShape /\ Consent /\ Branches /\ Settling /\ CommitsStand /\ CompletedIsDone
        /\ SourcesHoldWork /\ [GitNext]_allVars => SourcesHoldWork'
  <1> SUFFICES ASSUME GitShape, Consent, Branches, Settling, CommitsStand, CompletedIsDone,
                      SourcesHoldWork, [GitNext]_allVars,
                      NEW i \in Actions', NEW p \in Preview, Reserved(i)', Shown(i)' = p,
                      p.operation = "integrate_fast_forward"
               PROVE  run'[p.node].status = "accepted" /\ WorkIn(p, p.source)'
    BY DEF SourcesHoldWork
  <1>t. GitTypeOK /\ AttemptRows /\ PreviewStands /\ p.node \in Run /\ p.source \in Branch
    BY PreviewKinds DEF GitShape, Settling, Branch
  <1>1. /\ i \in Actions /\ Shown(i) = p
        /\ Reserved(i) \/ Admitted(p)
    BY <1>t, ReservedStep
  <1>2. run[p.node].status = "accepted" /\ WorkIn(p, p.source)
    BY <1>1, IntegrationIsAdmitted DEF SourcesHoldWork
  <1> QED
    BY <1>2, <1>t, WorkInStays, AcceptedIsStill

LEMMA LiveIsReserved ==
    ASSUME CallsInOrder, NEW i \in Actions, Live(i)
    PROVE  Reserved(i)
  BY DEF Live, Reserved, TerminalAction, CallsInOrder, CallOk

LEMMA TargetsHoldStep ==
    GitShape /\ Consent /\ AttemptRows /\ SourcesHoldWork /\ TargetsHoldWork /\ [GitNext]_allVars
        => TargetsHoldWork'
  <1> SUFFICES ASSUME GitShape, Consent, AttemptRows, SourcesHoldWork, TargetsHoldWork,
                      [GitNext]_allVars,
                      NEW i \in Actions', NEW p \in Preview, Live(i)', Shown(i)' = p,
                      p.operation = "integrate_fast_forward"
               PROVE  WorkIn(p, Main)'
    BY DEF TargetsHoldWork
  <1>t. GitTypeOK /\ CallsInOrder /\ p.node \in Run /\ p.source \in Branch /\ Main \in Branch
    BY PreviewKinds DEF GitShape, Branch
  <1>1. i \in Actions /\ Shown(i) = p
    BY LiveStep
  <1>2. CASE Live(i)
    <2>1. run[p.node].status = "accepted" /\ WorkIn(p, Main)
      BY <1>1, <1>2, <1>t, LiveIsReserved DEF SourcesHoldWork, TargetsHoldWork
    <2> QED
      BY <1>t, <2>1, WorkInStays
  <1>3. ASSUME NEW c \in Call, RunGit(c), call[c].action = i, call'[c].at = "done"
        PROVE  WorkIn(p, Main)'
    <2>1. Reserved(i)
      BY <1>t, <1>3 DEF RunGit, CallsInOrder, CallOk, Reserved
    <2>2. WorkIn(p, p.source)
      BY <1>1, <2>1 DEF SourcesHoldWork
    <2>3. GitFastForward(p)
      BY <1>1, <1>3, RunGitKinds
    <2>4. tip'[Main] = tip[p.source]
      BY <1>t, <2>3 DEF GitFastForward, GitTypeOK
    <2>5. attempt' = attempt /\ evidence' = evidence
      BY <1>3 DEF RunGit, vars, planVars
    <2>6. Holds(p.source, {p.node}) => Holds(Main, {p.node})'
      BY <2>4 DEF Holds
    <2> QED
      BY <2>2, <2>5, <2>6 DEF WorkIn, IsLatestAttempt, AttemptsOf
  <1> QED
    BY <1>2, <1>3, LiveStep

Kept == CommitsStand /\ CompletedIsDone /\ SourcesHoldWork /\ TargetsHoldWork

Invariants == GitShape /\ Consent /\ Branches /\ Settling /\ Kept

\* From the acceptance of a Run to the target branch no work is lost: who attempted it,
\* where it was committed, what completed its node and what was integrated agree.
THEOREM WorkIsKept == GitSpec => []Invariants
<1>1. GitInit => Settling /\ Kept
  <2> SUFFICES ASSUME GitInit PROVE Settling /\ Kept
    OBVIOUS
  <2>1. /\ Actions = {} /\ cursor = 0
        /\ \A n \in Run : dispatch[n].status = "none" /\ run[n].status = "absent"
        /\ \A a \in Attempt : attempt[a].status = "absent" /\ attempt[a].run = None
    BY DEF GitInit, PlanInit, Init, Actions, NoDispatch, NoRun, NoAttempt
  <2>2. AttemptRows
    BY <2>1, NoneAssumption DEF AttemptRows, NumbersDistinct, AbsentRowIsFree, AttemptsOf
  <2>3. Creators /\ PreviewStands
    BY <2>1 DEF Creators, OneCreator, AttemptsAreCreated, PreviewStands
  <2>4. Kept
    BY <2>1 DEF Kept, CommitsStand, CompletedIsDone, SourcesHoldWork, TargetsHoldWork
  <2> QED
    BY <2>2, <2>3, <2>4 DEF Settling
<1>2. Invariants /\ [GitNext]_allVars => Settling' /\ Kept'
  <2> SUFFICES ASSUME Invariants, [GitNext]_allVars PROVE Settling' /\ Kept'
    OBVIOUS
  <2>1. /\ GitShape /\ Consent /\ Branches /\ Settling
        /\ AttemptRows /\ Creators /\ PreviewStands
        /\ CommitsStand /\ CompletedIsDone /\ SourcesHoldWork /\ TargetsHoldWork
    BY DEF Invariants, Settling, Kept
  <2>2. AttemptRows'
    BY <2>1, GitAttemptRowsStep
  <2>3. OneCreator' /\ AttemptsAreCreated'
    BY <2>1, OneCreatorStep, AttemptsCreatedStep
  <2>4. PreviewStands'
    BY <2>1, StandsStep
  <2>5. CommitsStand'
    BY <2>1, CommitsStep
  <2>6. CompletedIsDone'
    BY <2>1, CompletedStep
  <2>7. SourcesHoldWork'
    BY <2>1, SourcesHoldStep
  <2>8. TargetsHoldWork'
    BY <2>1, TargetsHoldStep
  <2> QED
    BY <2>2, <2>3, <2>4, <2>5, <2>6, <2>7, <2>8 DEF Settling, Kept, Creators
<1>3. QED
  BY <1>1, <1>2, GitKeepsShape, ConsentHolds, BranchesAreHeld, PTL DEF GitSpec, Invariants

\* A component that is completed has a commit that succeeded and that its branch contains,
\* whatever failed, was lost or was executed by another call meanwhile.
THEOREM CompletedWorkCommitted == GitSpec => []CompletedWorkIsCommitted
<1>1. Invariants => CompletedWorkIsCommitted
  <2> SUFFICES ASSUME Invariants, NEW n \in Run, dispatch[n].status = "completed",
                      SourceGraph(n).policy = "integration_only", n \notin SourceGraph(n).integration
               PROVE  /\ \E i \in Actions :
                            /\ Shown(i).operation = "commit_paths" /\ Shown(i).node = n
                            /\ action[i].status = "succeeded"
                            /\ n \in tip[Shown(i).worktree]
                      /\ (\A a \in AttemptsOf(n) : attempt[a].worktree = dispatch[n].worktree)
                            => n \in tip[dispatch[n].worktree]
    BY DEF CompletedWorkIsCommitted
  <2>t. GitTypeOK /\ Branches /\ CommitsStand /\ CompletedIsDone
    BY DEF Invariants, Kept, GitShape
  <2>1. HasCommit(n)
    BY <2>t DEF CompletedIsDone, NothingToCommit
  <2>2. PICK i \in Actions : /\ Shown(i).operation = "commit_paths" /\ Shown(i).node = n
                             /\ action[i].status = "succeeded"
    BY <2>1 DEF HasCommit
  <2>3. PICK p \in Preview : p = Shown(i)
    BY <2>t, <2>2, ShownIsPreview
  <2>4. Effected(p) /\ CommitStands(p)
    BY <2>t, <2>2, <2>3 DEF Branches, OutcomesHold, CommitsStand, Reserved, TerminalAction
  <2>5. n \in tip[p.worktree]
    BY <2>2, <2>3, <2>4 DEF Effected
  <2>6. InPlace(n, p.worktree)
    BY <2>2, <2>3, <2>4 DEF CommitStands
  <2> QED
    BY <2>2, <2>3, <2>5, <2>6 DEF InPlace
<1>2. QED
  BY <1>1, WorkIsKept, PTL

\* Once the fast-forward has succeeded the target branch holds the work of every component
\* before the integration node, and what was committed for it where it was integrated from.
THEOREM TargetHoldsPlan == GitSpec => []TargetHasWholePlan
<1>1. Invariants => TargetHasWholePlan
  <2> SUFFICES ASSUME Invariants, NEW i \in Actions,
                      Shown(i).operation = "integrate_fast_forward",
                      action[i].status = "succeeded", NEW n, n = Shown(i).node
               PROVE  /\ Ancestors(SourceGraph(n), n) \subseteq tip[Main]
                      /\ \A a \in AttemptsOf(n) :
                            /\ IsLatestAttempt(n, a) /\ evidence[a] # {}
                            /\ attempt[a].worktree = Shown(i).source
                            => n \in tip[Main]
    BY DEF TargetHasWholePlan
  <2>t. GitTypeOK /\ Consent /\ Branches /\ TargetsHoldWork
    BY DEF Invariants, Kept, GitShape
  <2>1. PICK p \in Preview : p = Shown(i)
    BY <2>t, ShownIsPreview
  <2>2. SourceGraph(n).policy = "integration_only"
    BY <2>t DEF Consent, ActionsAreDispatched
  <2>3. Effected(p)
    BY <2>t, <2>1 DEF Branches, OutcomesHold
  <2>4. Ancestors(SourceGraph(n), n) \subseteq tip[Main]
    BY <2>1, <2>2, <2>3 DEF Effected, Holds, Target, Before
  <2>5. WorkIn(p, Main)
    BY <2>t, <2>1 DEF TargetsHoldWork, Live
  <2> QED
    BY <2>1, <2>4, <2>5 DEF WorkIn, Holds, AttemptsOf
<1>2. QED
  BY <1>1, WorkIsKept, PTL

\* The branches of a plan are one lineage, from the first worktree to the target.
THEOREM LineageHolds == GitSpec => []LineageIsWhole
<1>1. BranchHasPredecessors /\ TargetHasWholePlan => LineageIsWhole
  BY DEF LineageIsWhole
<1>2. QED
  BY <1>1, BranchesHavePredecessors, TargetHoldsPlan, PTL
=============================================================================
