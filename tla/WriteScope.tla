----------------------------- MODULE WriteScope -----------------------------
(***************************************************************************)
(* Write scopes of src/scheduler/plan-scheduler.ts: which paths a node of  *)
(* the task graph may change.  A repository-relative path is the sequence  *)
(* of its components, and the repository root "." is the empty sequence.   *)
(***************************************************************************)
EXTENDS Integers, Sequences

\* Components no path may have; "*" stands for every component a scope may not
\* have besides: one with a glob character, a backslash or a drive letter.
DotComponent  == {"", ".", ".."}
GlobComponent == {"*"}

IsFreeOf(path, components) == \A i \in 1 .. Len(path) : path[i] \notin components

\* validateWriteScope: the root is a tree, and components are plain names.
ValidScope(scope) ==
    /\ scope.path = << >> => scope.kind = "tree"
    /\ IsFreeOf(scope.path, DotComponent \cup GlobComponent)

\* path equals root or lies below it, by whole components.
IsBelow(path, root) ==
    /\ Len(root) <= Len(path)
    /\ \A i \in 1 .. Len(root) : path[i] = root[i]

Contains(scope, path) ==
    \/ scope.path = << >>
    \/ scope.kind = "file" /\ path = scope.path
    \/ scope.kind = "tree" /\ IsBelow(path, scope.path)

\* Of a path that git reports as changed.
ScopeContainsPath(scope, path) ==
    /\ path # << >>
    /\ IsFreeOf(path, DotComponent)
    /\ Contains(scope, path)

\* Faulty: scopes overlap only where they have the same path.
OverlapSamePath(left, right) ==
    \E a \in left, b \in right : a.path = b.path

\* Faulty: only asks whether the right scope lies within the left one.
OverlapOneSided(left, right) ==
    \E a \in left, b \in right : Contains(a, b.path)

ScopesOverlap(left, right) ==
    \E a \in left, b \in right : Contains(a, b.path) \/ Contains(b, a.path)

\* What overlap is meant to be: some path lies in a scope of either side.
ShareAPath(left, right, paths) ==
    \E p \in paths, a \in left, b \in right : Contains(a, p) /\ Contains(b, p)
=============================================================================
