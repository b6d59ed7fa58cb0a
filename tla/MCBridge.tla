------------------------------ MODULE MCBridge ------------------------------
(* Instances of Bridge for TLC: Router Contracts and the troubles met. *)
EXTENDS Bridge, TLC

Both(t, u) == {<<t, u>>, <<u, t>>}

\* Two tasks side by side, in overlapping paths, and one above the other, with its
\* prerequisite before or after it in their order; three tasks, the last above the
\* first two or in the way of the first.
SmallRouters ==
    LET none == [t \in Task |-> {}] IN
    { [task |-> {1, 2}, dep |-> none, overlap |-> {}],
      [task |-> {1, 2}, dep |-> none, overlap |-> Both(1, 2)],
      [task |-> {1, 2}, dep |-> [none EXCEPT ![2] = {1}], overlap |-> Both(1, 2)],
      [task |-> {1, 2}, dep |-> [none EXCEPT ![1] = {2}], overlap |-> {}] }

JoinRouter ==
    { [task |-> {1, 2, 3}, dep |-> [t \in Task |-> IF t = 3 THEN {1, 2} ELSE {}],
       overlap |-> Both(1, 3)],
      [task |-> {1, 2, 3}, dep |-> [t \in Task |-> {}], overlap |-> Both(1, 3)] }

Routers == SmallRouters \cup JoinRouter

\* Nothing; one kind of trouble, and those that meet in a crash.
Faults ==
    { {}, {"crash", "publish"}, {"worker", "checks", "model"}, {"push", "conflict"},
      {"crash", "conflict"}, {"publish", "worker"}, {"workflow", "crash"} }
=============================================================================
