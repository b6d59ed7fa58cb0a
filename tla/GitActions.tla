----------------------------- MODULE GitActions -----------------------------
(***************************************************************************)
(* The Git Controller (src/git/git-controller.ts and the GitActions of     *)
(* src/room/room-service.ts) on a plan whose worktrees it creates: the     *)
(* preview of one of three git operations, the user's decision, the        *)
(* reservation, the git process, and the settlement of what it did to      *)
(* NodeDispatch and Run.                                                   *)
(*                                                                         *)
(* The repository is external: branches, of which we record the nodes      *)
(* whose work has been committed to them, and the uncommitted paths of     *)
(* each worktree.  A worktree has one branch, named like it.               *)
(***************************************************************************)
EXTENDS PlanGraph

CONSTANTS
    Call,        \* calls of execute, in one or several processes
    Main,        \* the branch a plan starts from and is integrated into
    MaxAction    \* bound: GitActions of the Room

\* What is left of a change once some of its paths are committed is a change.
ASSUME GitAssumption ==
    /\ Main \notin Worktree \cup {None}
    /\ \A nodes \in SUBSET Run : nodes # None
    /\ MaxAction \in Nat
    /\ \A changed, committed \in Change : changed \ committed \in Change \cup {{}}

VARIABLES
    action,    \* git_actions in the order of their rows
    cursor,    \* the action whose preview or decision is the Room's last event, or 0
    call,      \* what a call of execute is at, in the memory of its process
    tip,       \* nodes whose work a branch contains; None while there is no branch
    dirty      \* uncommitted paths of a worktree

gitVars == <<action, cursor, call, tip, dirty>>

allVars == <<vars, planVars, gitVars>>

Branch == Worktree \cup {Main}

\* A preview: the node and revision it is for, and the facts shown to the user.
\* integrate_fast_forward always has Main as its target.
Preview ==
    [operation : {"create_worktree"}, node : Run, rev : 1 .. MaxRevision,
     worktree : Worktree, source : Branch, paths : {{}}]
    \cup
    [operation : {"commit_paths"}, node : Run, rev : 1 .. MaxRevision,
     worktree : Worktree, source : {None}, paths : Change \ {{}}]
    \cup
    [operation : {"integrate_fast_forward"}, node : Run, rev : 1 .. MaxRevision,
     worktree : {None}, source : Worktree, paths : {{}}]

\* A rejected action stays "previewed" with a decision; "rejected" stands for that.
ActionStatus == {"previewed", "rejected", "approved", "executing",
                 "succeeded", "failed", "outcome_unknown"}

TerminalAction == {"succeeded", "failed", "outcome_unknown"}

\* "git": the git process runs; "done" and "refused": it has ended either way.
CallState == {"idle", "observed", "git", "done", "refused"}

Idle == [at |-> "idle", action |-> 0]

GitTypeOK ==
    /\ PlanTypeOK
    /\ action \in Seq([preview : Preview, status : ActionStatus])
    /\ Len(action) <= MaxAction
    /\ cursor \in 0 .. Len(action)
    /\ call \in [Call -> [at : CallState, action : 0 .. MaxAction]]
    /\ tip \in [Branch -> (SUBSET Run) \cup {None}]
    /\ dirty \in [Worktree -> Change \cup {{}}]

-----------------------------------------------------------------------------
(* Queries.                                                                *)

Actions == 1 .. Len(action)

Shown(i) == action[i].preview

\* latestGitActionForNode, keyed by revision.
IsLatestFor(k, n, operation, i) ==
    /\ Shown(i).rev = k /\ Shown(i).node = n /\ Shown(i).operation = operation
    /\ \A j \in Actions :
          Shown(j).rev = k /\ Shown(j).node = n /\ Shown(j).operation = operation => j <= i

\* Faulty: any branch will do as the source once the predecessor is committed.
CreateFromAnywhere(p) ==
    /\ dispatch[p.node].status = "awaiting_git" /\ dispatch[p.node].worktree = None
    /\ CurrentGraph.policy = "integration_only" /\ Ancestors(CurrentGraph, p.node) # {} =>
          \E m \in Run :
              /\ MaximalPredecessors(CurrentGraph, p.node) = {m}
              /\ \E i \in Actions :
                    /\ IsLatestFor(p.rev, m, "commit_paths", i)
                    /\ action[i].status = "succeeded"

\* create_worktree: the dispatch waits for a worktree; in an integration_only plan
\* the source is the branch of the commit of the one maximal predecessor.
CreateAdmitted(p) ==
    /\ dispatch[p.node].status = "awaiting_git" /\ dispatch[p.node].worktree = None
    /\ CurrentGraph.policy = "integration_only" /\ Ancestors(CurrentGraph, p.node) # {} =>
          \E m \in Run :
              /\ MaximalPredecessors(CurrentGraph, p.node) = {m}
              /\ \E i \in Actions :
                    /\ IsLatestFor(p.rev, m, "commit_paths", i)
                    /\ action[i].status = "succeeded"
                    /\ p.source = Shown(i).worktree

\* commit_paths: accepted work in the dispatch's worktree, within the node's scopes.
CommitAdmitted(p) ==
    /\ dispatch[p.node].status = "awaiting_git" /\ dispatch[p.node].worktree = p.worktree
    /\ run[p.node].status = "accepted"
    /\ \A i \in Actions :
          IsLatestFor(p.rev, p.node, "create_worktree", i) /\ action[i].status = "succeeded"
              => p.worktree = Shown(i).worktree
    /\ \A path \in p.paths : \E s \in CurrentGraph.scope[p.node] : ScopeContainsPath(s, path)

IntegrateAdmitted(p) ==
    /\ p.node \in CurrentGraph.integration
    /\ run[p.node].status = "accepted"
    /\ dispatch[p.node].status = "completed"
    /\ \E i \in Actions :
          /\ IsLatestFor(p.rev, p.node, "create_worktree", i)
          /\ action[i].status = "succeeded"
          /\ p.source = Shown(i).worktree

\* What previewGitAction requires of the Room, in the exact current revision.
Admitted(p) ==
    /\ HasCurrent /\ p.rev = Len(revision)
    /\ p.node \in CurrentGraph.node
    /\ Dispatched(p.node)
    /\ ~dispatch[p.node].violated /\ dispatch[p.node].status # "blocked"
    /\ CASE p.operation = "create_worktree" -> CreateAdmitted(p)
         [] p.operation = "commit_paths"    -> CommitAdmitted(p)
         [] OTHER                           -> IntegrateAdmitted(p)

\* observeCommand: what it requires of the repository, and that the facts it
\* returns are those of the preview.
Observed(p) ==
    CASE p.operation = "create_worktree" -> tip[p.source] # None /\ tip[p.worktree] = None
      [] p.operation = "commit_paths"    -> tip[p.worktree] # None /\ dirty[p.worktree] = p.paths
      [] OTHER                           -> tip[p.source] # None

-----------------------------------------------------------------------------
GitInit ==
    /\ PlanInit
    /\ action = << >>
    /\ cursor = 0
    /\ call = [c \in Call |-> Idle]
    /\ tip = [b \in Branch |-> IF b = Main THEN {} ELSE None]
    /\ dirty = [w \in Worktree |-> {}]

(* Everything else that happens in the Room. *)

\* Operations of the plan: each appends an event.  The orchestrator leaves worktrees
\* to the Git Controller, and an attempt is settled with the live paths of its
\* worktree.
PlanStep ==
    /\ PlanNext
    /\ \A n \in Run : dispatch'[n].worktree = dispatch[n].worktree
    /\ \A a \in Attempt :
          attempt[a].status # "succeeded" /\ attempt'[a].status = "succeeded"
              => evidence'[a] = dirty[attempt[a].worktree]
    /\ <<vars, planVars>>' # <<vars, planVars>>
    /\ cursor' = 0
    /\ UNCHANGED <<action, call, tip, dirty>>

\* A message, an assignment, or anything else that is an event of the Room.
OtherEvent ==
    /\ cursor' = 0
    /\ UNCHANGED <<vars, planVars, action, call, tip, dirty>>

\* A worker, or the user, writes to a worktree; no event tells.
EditWorktree(w) ==
    /\ tip[w] # None
    /\ \E paths \in Change : dirty' = [dirty EXCEPT ![w] = paths]
    /\ UNCHANGED <<vars, planVars, action, cursor, call, tip>>

-----------------------------------------------------------------------------
(* Preview and decision. *)

PreviewGitAction(p) ==
    /\ Len(action) < MaxAction
    /\ Observed(p)
    /\ Admitted(p)
    /\ action' = Append(action, [preview |-> p, status |-> "previewed"])
    /\ cursor' = Len(action) + 1
    /\ UNCHANGED <<vars, planVars, call, tip, dirty>>

\* The user's one decision, while the preview is the Room's last event.
DecideGitAction(i, verdict) ==
    /\ action[i].status = "previewed"
    /\ cursor = i
    /\ action' = [action EXCEPT ![i].status = verdict]
    /\ cursor' = i
    /\ UNCHANGED <<vars, planVars, call, tip, dirty>>

-----------------------------------------------------------------------------
(* Execution (git_controller): three steps with an await between them. *)

\* execute finds the action approved and the repository as the preview shows it.
ObserveAgain(c, i) ==
    /\ call[c] = Idle
    /\ action[i].status = "approved"
    /\ Observed(Shown(i))
    /\ call' = [call EXCEPT ![c] = [at |-> "observed", action |-> i]]
    /\ UNCHANGED <<vars, planVars, action, cursor, tip, dirty>>

\* Faulty: a second call that observed in time is let through.
ReserveAgain(c) ==
    LET i == call[c].action IN
    /\ call[c].at = "observed"
    /\ action[i].status \in {"approved", "executing"}
    /\ action[i].status = "approved" => cursor = i
    /\ action' = [action EXCEPT ![i].status = "executing"]
    /\ call' = [call EXCEPT ![c].at = "git"]
    /\ cursor' = 0
    /\ UNCHANGED <<vars, planVars, tip, dirty>>

\* Commits before the git process starts, and only while the approval is the Room's
\* last event.
ReserveGitAction(c) ==
    LET i == call[c].action IN
    /\ call[c].at = "observed"
    /\ action[i].status = "approved"
    /\ cursor = i
    /\ action' = [action EXCEPT ![i].status = "executing"]
    /\ call' = [call EXCEPT ![c].at = "git"]
    /\ cursor' = 0
    /\ UNCHANGED <<vars, planVars, tip, dirty>>

\* git worktree add -b: a new branch at the source, checked out clean.
GitCreate(p) ==
    /\ tip[p.source] # None /\ tip[p.worktree] = None
    /\ tip' = [tip EXCEPT ![p.worktree] = tip[p.source]]
    /\ dirty' = dirty

\* git add, git commit: of the previewed paths that are still changed.
GitCommit(p) ==
    /\ dirty[p.worktree] \cap p.paths # {}
    /\ tip' = [tip EXCEPT ![p.worktree] = @ \cup {p.node}]
    /\ dirty' = [dirty EXCEPT ![p.worktree] = @ \ p.paths]

\* git merge --ff-only
GitFastForward(p) ==
    /\ tip[Main] \subseteq tip[p.source]
    /\ tip' = [tip EXCEPT ![Main] = tip[p.source]]
    /\ dirty' = dirty

\* git runs once.  What it did may still be reported as a failure: by a commit that
\* leaves the worktree dirty always, by any that is interrupted now and then.
RunGit(c) ==
    LET p == Shown(call[c].action) IN
    /\ call[c].at = "git"
    /\ \E outcome \in {"done", "refused"} :
          /\ call' = [call EXCEPT ![c].at = outcome]
          /\ \/ CASE p.operation = "create_worktree" -> GitCreate(p)
                  [] p.operation = "commit_paths"    -> GitCommit(p)
                  [] OTHER                           -> GitFastForward(p)
             \/ outcome = "refused" /\ UNCHANGED <<tip, dirty>>
          /\ outcome = "done" /\ p.operation = "commit_paths" => dirty'[p.worktree] = {}
    /\ UNCHANGED <<vars, planVars, action, cursor>>

\* The process of a call ends: it crashes, or the service refuses what it asks.
EndCall(c) ==
    /\ call[c] # Idle
    /\ call' = [call EXCEPT ![c] = Idle]
    /\ UNCHANGED <<vars, planVars, action, cursor, tip, dirty>>

-----------------------------------------------------------------------------
(* Settlement. *)

\* Faulty: the outcome is not looked at.
ApplyAnyOutcome(p, outcome) ==
    CASE p.operation = "create_worktree" ->
           /\ run' = [run EXCEPT ![p.node].worktree = p.worktree]
           /\ dispatch' = [dispatch EXCEPT ![p.node].worktree = p.worktree,
                                           ![p.node].status = "ready"]
      [] p.operation = "commit_paths" ->
           /\ run' = run
           /\ dispatch' = [dispatch EXCEPT ![p.node].status = "completed"]
      [] OTHER -> UNCHANGED <<run, dispatch>>

\* applySuccessfulGitAction
Apply(p, outcome) ==
    CASE outcome = "done" /\ p.operation = "create_worktree" ->
           /\ run' = [run EXCEPT ![p.node].worktree = p.worktree]
           /\ dispatch' = [dispatch EXCEPT ![p.node].worktree = p.worktree,
                                           ![p.node].status = "ready"]
      [] outcome = "done" /\ p.operation = "commit_paths" ->
           /\ run' = run
           /\ dispatch' = [dispatch EXCEPT ![p.node].status = "completed"]
      [] OTHER -> UNCHANGED <<run, dispatch>>

\* Faulty: the row is given the word of the git process for its status.
SettleVerbatim(c) ==
    LET i == call[c].action IN
    /\ call[c].at \in {"done", "refused"}
    /\ action[i].status = "executing"
    /\ Apply(Shown(i), call[c].at)
    /\ LeasesUnique(run')
    /\ action' = [action EXCEPT ![i].status = call[c].at]
    /\ call' = [call EXCEPT ![c] = Idle]
    /\ cursor' = 0
    /\ UNCHANGED <<room, attempt, question, review, guidance, revision, evidence, decision, tip, dirty>>

\* A worktree that another open Run holds makes the whole transaction fail.
SettleGitAction(c) ==
    LET i == call[c].action IN
    /\ call[c].at \in {"done", "refused"}
    /\ action[i].status = "executing"
    /\ Apply(Shown(i), call[c].at)
    /\ LeasesUnique(run')
    /\ action' = [action EXCEPT ![i].status = IF call[c].at = "done" THEN "succeeded" ELSE "failed"]
    /\ call' = [call EXCEPT ![c] = Idle]
    /\ cursor' = 0
    /\ UNCHANGED <<room, attempt, question, review, guidance, revision, evidence, decision, tip, dirty>>

\* Asked for by the user, who takes the call for lost; it may still be at work.
ReconcileGitAction(i) ==
    /\ action[i].status = "executing"
    /\ action' = [action EXCEPT ![i].status = "outcome_unknown"]
    /\ cursor' = 0
    /\ UNCHANGED <<vars, planVars, call, tip, dirty>>

GitStep ==
    \/ \E p \in Preview : PreviewGitAction(p)
    \/ \E i \in Actions, verdict \in {"approved", "rejected"} : DecideGitAction(i, verdict)
    \/ \E c \in Call, i \in Actions : ObserveAgain(c, i)
    \/ \E c \in Call :
          ReserveGitAction(c) \/ RunGit(c) \/ EndCall(c) \/ SettleGitAction(c)
    \/ \E i \in Actions : ReconcileGitAction(i)

GitNext == PlanStep \/ OtherEvent \/ (\E w \in Worktree : EditWorktree(w)) \/ GitStep

GitSpec == GitInit /\ [][GitNext]_allVars

-----------------------------------------------------------------------------
(* Safety. *)

\* Every worktree of an integration_only plan starts from the committed work of all
\* components before its node, whatever failed, was lost or was tried twice: the
\* branches are one fast-forward lineage.
BranchHasPredecessors ==
    \A n \in Run :
        dispatch[n].worktree # None /\ SourceGraph(n).policy = "integration_only" =>
            Ancestors(SourceGraph(n), n) \subseteq tip[dispatch[n].worktree]

\* A component that unlocks the next one has its work in a commit: a failed, lost or
\* merely approved commit unlocks nothing.  The commit is in the branch of its dispatch,
\* unless a second worktree was bound to it after its attempts.
CompletedWorkIsCommitted ==
    \A n \in Run :
        /\ dispatch[n].status = "completed"
        /\ SourceGraph(n).policy = "integration_only"
        /\ n \notin SourceGraph(n).integration
        => /\ \E i \in Actions :
                 /\ Shown(i).operation = "commit_paths" /\ Shown(i).node = n
                 /\ action[i].status = "succeeded"
                 /\ n \in tip[Shown(i).worktree]
           /\ (\A a \in AttemptsOf(n) : attempt[a].worktree = dispatch[n].worktree)
                 => n \in tip[dispatch[n].worktree]

\* Once the fast-forward has succeeded the target branch holds the work of every
\* component, and what the integration node added in the branch that was integrated.
TargetHasWholePlan ==
    \A i \in Actions :
        Shown(i).operation = "integrate_fast_forward" /\ action[i].status = "succeeded" =>
            LET n == Shown(i).node IN
            /\ Ancestors(SourceGraph(n), n) \subseteq tip[Main]
            /\ \A a \in AttemptsOf(n) :
                  /\ IsLatestAttempt(n, a) /\ evidence[a] # {}
                  /\ attempt[a].worktree = Shown(i).source
                  => n \in tip[Main]

\* The branches of a plan are one lineage, from the first worktree to the target.
LineageIsWhole == BranchHasPredecessors /\ TargetHasWholePlan

-----------------------------------------------------------------------------
(* What a step may never do. *)

\* One git process per action: whoever else observed, was lost or was reconciled, a
\* call reaches git only from the one approval, and an outcome is final.
ExecutedOnce ==
    [][\A i \in Actions :
          /\ action[i].status \in TerminalAction => action'[i] = action[i]
          /\ action[i].status = "executing" => action'[i].status \in {"executing"} \cup TerminalAction
          /\ \A c \in Call : call'[c] = [at |-> "git", action |-> i] /\ call[c] # call'[c] =>
                \A d \in Call \ {c} : call[d].action = i => call[d].at = "observed"]_allVars

\* What is executed is what was shown: when the reservation commits, the Room would
\* admit the very same preview afresh, though observation, preview, decision and
\* execution are calls of their own with anything between them.
ExecutedAsShown ==
    [][\A i \in Actions :
          action[i].status # "executing" /\ action'[i].status = "executing" =>
              Admitted(Shown(i))]_allVars

\* What the user approves is done once, and as it was shown.
ExecutedOnceAsShown == ExecutedOnce /\ ExecutedAsShown

-----------------------------------------------------------------------------
(* What the documents promise and the code does not keep. *)

\* The first attempt freezes the worktree of its Run: whatever creates worktrees later,
\* all attempts of a Run have the one its row names.
FirstAttemptFreezesWorktree ==
    \A a \in Attempt :
        attempt[a].run # None => attempt[a].worktree = run[attempt[a].run].worktree
=============================================================================
