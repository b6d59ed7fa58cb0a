---------------------------- MODULE WorktreeLease ----------------------------
(***************************************************************************)
(* What the Room Service promises about worktrees, without saying how: a   *)
(* Run leases one worktree from its first attempt until it is accepted,    *)
(* nobody else gets that worktree meanwhile, at most one attempt works in  *)
(* it at a time, and an attempt that has stopped never works again.        *)
(***************************************************************************)
CONSTANTS Run, Attempt, Worktree, None

VARIABLES
    lease,     \* the worktree a Run holds, or None
    worker,    \* the Run an attempt works for at present, or None
    ended,     \* attempts that have stopped
    released   \* Runs that have given their worktree back

vars == <<lease, worker, ended, released>>

Init ==
    /\ lease = [r \in Run |-> None]
    /\ worker = [a \in Attempt |-> None]
    /\ ended = {}
    /\ released = {}

Idle(r) == \A a \in Attempt : worker[a] # r

Start(a, r, w) ==
    /\ worker[a] = None
    /\ a \notin ended
    /\ r \notin released
    /\ Idle(r)
    /\ lease[r] \in {None, w}
    /\ \A other \in Run \ {r} : lease[other] # w
    /\ lease' = [lease EXCEPT ![r] = w]
    /\ worker' = [worker EXCEPT ![a] = r]
    /\ UNCHANGED <<ended, released>>

Stop(a) ==
    /\ worker[a] # None
    /\ worker' = [worker EXCEPT ![a] = None]
    /\ ended' = ended \cup {a}
    /\ UNCHANGED <<lease, released>>

Release(r) ==
    /\ lease[r] # None
    /\ Idle(r)
    /\ lease' = [lease EXCEPT ![r] = None]
    /\ released' = released \cup {r}
    /\ UNCHANGED <<worker, ended>>

Next ==
    \/ \E a \in Attempt, r \in Run, w \in Worktree : Start(a, r, w)
    \/ \E a \in Attempt : Stop(a)
    \/ \E r \in Run : Release(r)

Spec == Init /\ [][Next]_vars
=============================================================================
