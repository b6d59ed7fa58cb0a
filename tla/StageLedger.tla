---------------------------- MODULE StageLedger ----------------------------
(***************************************************************************)
(* What the Local Codex Bridge promises about the tasks of one Stage, over  *)
(* all its runs, crashes and restarts, told by the task events on the pull  *)
(* request and by the Stage branch alone: a task is dispatched once, on     *)
(* what it needs; what it ends in stays; only dispatched work reaches the   *)
(* Stage, behind what it needs and only once; and what is recorded as       *)
(* integrated is there.                                                     *)
(***************************************************************************)
EXTENDS Naturals, Sequences

CONSTANT Task

VARIABLES
    need,       \* need[t]: the tasks t depends on
    ledger,     \* ledger[t]: what the events record of t
    stage       \* the Stage branch: the tasks whose commits it got, in order

ledgerVars == <<need, ledger, stage>>

OnStage(s) == {s[i] : i \in DOMAIN s}

NeedsIntegrated(t) == \A d \in need[t] : ledger[d] = "integrated"

LedgerInit ==
    /\ need \in [Task -> SUBSET Task]
    /\ ledger = [t \in Task |-> "not_started"]
    /\ stage = <<>>

Dispatch(t) ==
    /\ ledger[t] = "not_started" /\ NeedsIntegrated(t)
    /\ ledger' = [ledger EXCEPT ![t] = "dispatched"]
    /\ UNCHANGED <<need, stage>>

\* A push brings the commits of some tasks to the Stage.
Push ==
    /\ Len(stage') > Len(stage)
    /\ SubSeq(stage', 1, Len(stage)) = stage
    /\ \A i \in Len(stage) + 1 .. Len(stage') :
          /\ stage'[i] \in Task
          /\ ledger[stage'[i]] # "not_started"
          /\ NeedsIntegrated(stage'[i])
          /\ \A j \in 1 .. i - 1 : stage'[j] # stage'[i]
    /\ UNCHANGED <<need, ledger>>

Integrate(t) ==
    /\ ledger[t] = "dispatched" /\ t \in OnStage(stage)
    /\ ledger' = [ledger EXCEPT ![t] = "integrated"]
    /\ UNCHANGED <<need, stage>>

\* Refused before or after its dispatch.
Refuse(t) ==
    /\ ledger[t] \in {"not_started", "dispatched"}
    /\ \E s \in {"blocked", "needs_decision"} : ledger' = [ledger EXCEPT ![t] = s]
    /\ UNCHANGED <<need, stage>>

LedgerNext ==
    \/ Push
    \/ \E t \in Task : Dispatch(t) \/ Integrate(t) \/ Refuse(t)

LedgerSpec == LedgerInit /\ [][LedgerNext]_ledgerVars
=============================================================================
