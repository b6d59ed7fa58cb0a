------------------------- MODULE MCBridgeLifecycle -------------------------
(* Instances of BridgeLifecycle for TLC. *)
EXTENDS BridgeLifecycle, TLC

CONSTANTS c1, c2, r1, r2, p1, p2

\* Callers repeat a confirmation; they may give its round, or its preparation, another
\* identifier, also one that another confirmation uses.
Repeated ==
    { [confirmation |-> c1, round |-> r1, prep |-> p1],
      [confirmation |-> c1, round |-> r1, prep |-> p2],
      [confirmation |-> c1, round |-> r2, prep |-> p1],
      [confirmation |-> c2, round |-> r2, prep |-> p2] }

Faults == { {"lost", "crash"}, {"lost", "reset"}, {"lost", "replace"}, {"stage"},
            {"main", "blind"}, {"workflow", "merge"} }

\* Where the operator resets the worktree, one solution is confirmed.
Scene == "reset" \in trouble /\ cmd = "prepare" => input.bundle.confirmation = c1

SceneSpec == Init /\ [][Next /\ Scene']_vars /\ WF_vars(Write)
=============================================================================
