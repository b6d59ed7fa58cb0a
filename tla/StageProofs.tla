----------------------------- MODULE StageProofs -----------------------------
(***************************************************************************)
(* Proofs about what the Bridge does to the Stage branch: it implements    *)
(* StageLedger, what it records as integrated is in Git, it announces a    *)
(* Stage only when it is whole and only once, and under run-once a task    *)
(* starts from a Stage that holds what it depends on.                      *)
(*                                                                         *)
(* The inductive invariant is Delivered, on top of Sound of BridgeProofs:  *)
(* how far each task has come on the task branch, the local Stage and the  *)
(* Stage on origin.                                                        *)
(***************************************************************************)
EXTENDS BridgeProofs, FiniteSetTheorems

\* The pull request records t as integrated.
Integrated(t) == LatestState(t) = "integrated"

\* The commit of t is on the local Stage branch.
OnTree(t) == \E i \in 1 .. Len(tree) : tree[i] = t

\* The work on a task before its cherry-pick.
Early == InFlight \cup {"ended", "rejected", "batched", "accepted", "verified", "committed",
                        "gated", "approved", "pushed"}

\* The work on a task from the push of its branch to its event.
Delivering == {"pushed", "picked", "staged"}

\* The work on t may still lead to its integration.
UnderWay(t) ==
    \/ job[t] \in InFlight \cup (Steps \ {"settling"})
    \/ job[t] # "idle" /\ verdict[t] = "ready"

\* All that t depends on is integrated.
NeedsMet(t) == \A d \in router.dep[t] : Integrated(d)

\* The Stage on origin is the beginning of the local Stage, and no task was
\* cherry-picked twice.
GitShape ==
    /\ stage \in Seq(Task) /\ tree \in Seq(Task)
    /\ DOMAIN branch = Task /\ DOMAIN work = Task /\ DOMAIN mapping = Task
    /\ Len(stage) <= Len(tree)
    /\ \A i \in 1 .. Len(stage) : tree[i] = stage[i]
    /\ \A i, j \in 1 .. Len(tree) : tree[i] = tree[j] => i = j

\* What the task_integrated event of t records is found in Git.
Recorded(t) ==
    /\ branch[t] = mapping[t].source
    /\ mapping[t].at \in 1 .. Len(stage)
    /\ stage[mapping[t].at] = t
    /\ \A d \in router.dep[t] : Integrated(d) /\ mapping[d].at < mapping[t].at

\* How far t has come in Git, and that it came there on what it needs.
Course(t) ==
    /\ UnderWay(t) \/ OnTree(t) => NeedsMet(t)
    /\ OnTree(t) => event[t] # <<>>
    /\ job[t] \in Early => ~ OnTree(t)
    /\ phase # "off" /\ status[t] = "integrated" => Integrated(t)
    /\ job[t] \in {"picked", "staged"} => Len(tree) > 0 /\ tree[Len(tree)] = t
    /\ job[t] = "staged" => Len(stage) = Len(tree)
    /\ job[t] \in Delivering => branch[t] = work[t].base
    /\ Integrated(t) => Recorded(t)

\* processResult is in the middle of one task.
OneStep == \A t, u \in Task : job[t] \in Steps /\ job[u] \in Steps => t = u

\* The inductive invariant.
Delivered == GitShape /\ OneStep /\ \A t \in Task : Course(t)

-----------------------------------------------------------------------------
\* A step that moves no commit and integrates no task preserves Delivered when no
\* task is further under way, or on its branch, than it was.
LEMMA StillStep ==
    ASSUME Delivered, router.dep \in [Task -> SUBSET Task],
           UNCHANGED <<router, stage, tree, mapping>>,
           OneStep', DOMAIN branch' = Task, DOMAIN work' = Task,
           \A t \in Task :
              /\ UnderWay(t)' => UnderWay(t) \/ NeedsMet(t)
              /\ event[t] # <<>> => event'[t] # <<>>
              /\ job'[t] \in Early => job[t] \in Early \/ event[t] = <<>>
              /\ phase' # "off" /\ status'[t] = "integrated" => Integrated(t)
              /\ job'[t] \in {"picked", "staged"} => job'[t] = job[t]
              /\ job'[t] \in Delivering => branch'[t] = work'[t].base
              /\ Integrated(t) => branch'[t] = branch[t]
              /\ Integrated(t)' <=> Integrated(t)
    PROVE  Delivered'
  <1>1. GitShape'
    BY DEF Delivered, GitShape
  <1>2. ASSUME NEW t \in Task PROVE Course(t)'
    <2>1. Course(t) /\ OnTree(t)' = OnTree(t)
      BY <1>2 DEF Delivered, OnTree
    <2>2. \A d \in router.dep[t] : d \in Task /\ (Integrated(d)' <=> Integrated(d))
      BY <1>2
    <2>3. NeedsMet(t)' <=> NeedsMet(t)
      BY <2>2 DEF NeedsMet
    <2>4. Integrated(t)' => Recorded(t)'
      BY <1>2, <2>1, <2>2 DEF Course, Recorded
    <2> QED
      BY <1>2, <2>1, <2>3, <2>4 DEF Course
  <1> QED
    BY <1>1, <1>2 DEF Delivered

\* The same for a step of the work on one task.
LEMMA TaskStep ==
    ASSUME Sound, Delivered, NEW t \in Required, NEW to \in JobState,
           job' = [job EXCEPT ![t] = to],
           UNCHANGED <<router, stage, tree, mapping, phase>>,
           DOMAIN branch' = Task, DOMAIN work' = Task,
           \A u \in Task \ {t} :
              /\ event'[u] = event[u] /\ verdict'[u] = verdict[u] /\ status'[u] = status[u]
              /\ branch'[u] = branch[u] /\ work'[u] = work[u],
           UnderWay(t)' => UnderWay(t) \/ NeedsMet(t),
           event[t] # <<>> => event'[t] # <<>>,
           to \in Early => job[t] \in Early \/ event[t] = <<>>,
           phase # "off" /\ status'[t] = "integrated" => Integrated(t),
           to \in {"picked", "staged"} => to = job[t],
           to \in Delivering => branch'[t] = work'[t].base,
           Integrated(t) => branch'[t] = branch[t],
           Integrated(t)' <=> Integrated(t),
           to \in Steps => job[t] \in Steps \/ Turn(t)
    PROVE  Delivered'
  <1>1. t \in Task /\ router.dep \in [Task -> SUBSET Task]
        /\ \A u \in Task : job'[u] = IF u = t THEN to ELSE job[u]
    BY RouterFacts DEF Sound, Shape
  <1>2. OneStep'
    <2>1. ASSUME NEW u \in Task, u # t, to \in Steps PROVE job[u] \notin Steps
      <3>1. CASE job[t] \in Steps
        BY <1>1, <2>1, <3>1 DEF Delivered, OneStep
      <3>2. CASE job[t] \notin Steps
        <4>1. \A v \in Required : job[v] \notin Steps
          BY <2>1, <3>2 DEF Turn
        <4> QED
          BY <4>1, <2>1 DEF Sound, Shape, Steps
      <3> QED
        BY <3>1, <3>2
    <2> QED
      BY <1>1, <2>1 DEF Delivered, OneStep
  <1>3. ASSUME NEW u \in Task \ {t}
        PROVE  /\ UnderWay(u)' => UnderWay(u)
               /\ Integrated(u)' <=> Integrated(u)
               /\ phase' # "off" /\ status'[u] = "integrated" => Integrated(u)
               /\ job'[u] \in Delivering => branch'[u] = work'[u].base
    BY <1>1, <1>3 DEF UnderWay, Integrated, LatestState, Delivered, Course
  <1> QED
    BY <1>1, <1>2, <1>3, StillStep

\* The same for a step that leaves events and branches alone.
LEMMA QuietTask ==
    ASSUME Sound, Delivered, NEW t \in Required, NEW to \in JobState,
           job' = [job EXCEPT ![t] = to],
           UNCHANGED <<router, stage, tree, mapping, phase, event, branch>>,
           DOMAIN work' = Task,
           \A u \in Task \ {t} :
              /\ verdict'[u] = verdict[u] /\ status'[u] = status[u] /\ work'[u] = work[u],
           UnderWay(t)' => UnderWay(t),
           to \in Early => job[t] \in Early,
           status'[t] = "integrated" => status[t] = "integrated",
           to \notin Delivering,
           to \in Steps => job[t] \in Steps \/ Turn(t)
    PROVE  Delivered'
  <1>1. DOMAIN branch' = Task
    BY DEF Delivered, GitShape
  <1>2. Integrated(t)' <=> Integrated(t)
    BY DEF Integrated, LatestState
  <1>3. t \in Task
    BY RouterFacts DEF Sound, Shape
  <1>4. phase # "off" /\ status'[t] = "integrated" => Integrated(t)
    BY <1>3 DEF Delivered, Course
  <1> QED
    BY <1>1, <1>2, <1>3, <1>4, TaskStep DEF Delivering

-----------------------------------------------------------------------------
\* Every step of launch() preserves Delivered.
LEMMA LaunchDelivered ==
    ASSUME Sound, Delivered, NEW t \in Required, Launch(t) PROVE Delivered'
  <1>t. t \in Task /\ DOMAIN work = Task /\ DOMAIN branch = Task /\ event[t] \in EventForm
    BY RouterFacts DEF Sound, Shape, Delivered, GitShape
  <1>1. CASE EnterWorktree(t)
    <2>1. /\ job[t] = "launching" /\ job' = [job EXCEPT ![t] = "based"]
          /\ UNCHANGED <<router, stage, tree, mapping, phase, event, branch, verdict, status>>
          /\ DOMAIN work' = Task /\ \A u \in Task \ {t} : work'[u] = work[u]
      BY <1>1, <1>t DEF EnterWorktree, Step, fixedVars, prVars
    <2> QED
      BY <2>1, QuietTask DEF JobState, InFlight, Steps, Early, UnderWay, Delivering
  <1>2. CASE FailModel(t) \/ FailWorktree(t)
    <2>1. PICK s \in Refusal : Preflight(t, s)
      BY <1>2 DEF FailModel, FailWorktree, Refusal
    <2>2. /\ job[t] = "launching" /\ job' = [job EXCEPT ![t] = "ended"]
          /\ UNCHANGED <<router, stage, tree, mapping, phase, event, branch, status, work>>
          /\ verdict'[t] = s /\ \A u \in Task \ {t} : verdict'[u] = verdict[u]
      BY <2>1, <1>t DEF Preflight, Step, fixedVars, prVars, gitVars, Sound, Shape
    <2> QED
      BY <1>t, <2>2, QuietTask DEF JobState, InFlight, Steps, Early, UnderWay, Delivering, Refusal
  <1>3. CASE Announce(t) \/ FailAnnounce(t)
    <2>1. PICK to \in {"announced", "rejected"} :
             /\ job[t] = "based" /\ job' = [job EXCEPT ![t] = to]
             /\ UNCHANGED <<router, stage, tree, mapping, phase, branch, verdict, work>>
             /\ Post(t, D) \/ UNCHANGED event
             /\ status'[t] # "integrated" \/ UNCHANGED status
             /\ \A u \in Task \ {t} : status'[u] = status[u]
      BY <1>3, <1>t DEF Announce, FailAnnounce, Step, fixedVars, gitVars, D, Sound, Shape
    <2>2. event[t] = <<>>
      BY <1>t, <2>1 DEF Sound, JobFollowsEvents
    <2>3. event'[t] \in {<<>>, <<D>>} /\ \A u \in Task \ {t} : event'[u] = event[u]
      BY <1>t, <2>1, <2>2, PostEffect DEF Sound, Shape
    <2>4. ~ Integrated(t) /\ ~ Integrated(t)'
      BY <2>2, <2>3, LatestOfForm DEF Integrated, LatestState, EventForm
    <2>5. phase # "off" /\ status'[t] = "integrated" => Integrated(t)
      BY <1>t, <2>1 DEF Delivered, Course
    <2>6. /\ to \in JobState /\ to \in Early /\ job[t] \in Early
          /\ to \notin Delivering /\ to \notin Steps
          /\ UnderWay(t)
      BY <2>1 DEF JobState, InFlight, Steps, Early, UnderWay, Delivering
    <2> QED
      BY <1>t, <2>1, <2>2, <2>3, <2>4, <2>5, <2>6, TaskStep DEF Delivering
  <1>4. CASE StartWorker(t)
    <2>1. /\ job[t] = "announced" /\ job' = [job EXCEPT ![t] = "working"]
          /\ UNCHANGED <<router, stage, tree, mapping, phase, event, branch, verdict, status>>
          /\ DOMAIN work' = Task /\ \A u \in Task \ {t} : work'[u] = work[u]
      BY <1>4, <1>t DEF StartWorker, Step, fixedVars, prVars
    <2> QED
      BY <2>1, QuietTask DEF JobState, InFlight, Steps, Early, UnderWay, Delivering
  <1>5. CASE EndWorker(t)
    <2>1. /\ job[t] = "working" /\ job' = [job EXCEPT ![t] = "ended"]
          /\ UNCHANGED <<router, stage, tree, mapping, phase, event, branch, status, work>>
          /\ \A u \in Task \ {t} : verdict'[u] = verdict[u]
      BY <1>5, <1>t DEF EndWorker, Step, fixedVars, prVars, gitVars, Sound, Shape
    <2> QED
      BY <1>t, <2>1, QuietTask DEF JobState, InFlight, Steps, Early, UnderWay, Delivering
  <1> QED
    BY <1>1, <1>2, <1>3, <1>4, <1>5 DEF Launch

\* An error that leaves run() preserves Delivered.
LEMMA ThrowDelivered ==
    ASSUME Sound, Delivered, phase # "off", Throw,
           UNCHANGED <<router, stage, tree, mapping, branch, work, status, verdict>>,
           \A t \in Task : /\ event[t] # <<>> => event'[t] # <<>>
                           /\ Integrated(t)' <=> Integrated(t)
    PROVE  Delivered'
  <1>1. /\ \A t \in Task : job'[t] = job[t] \/ job'[t] = "idle"
        /\ router.dep \in [Task -> SUBSET Task]
        /\ "idle" \notin Steps \cup Early \cup Delivering
        /\ DOMAIN branch = Task /\ DOMAIN work = Task
    BY RouterFacts DEF Throw, Sound, Shape, Steps, Early, InFlight, Delivering, Delivered, GitShape
  <1>2. OneStep'
    BY <1>1 DEF Delivered, OneStep
  <1>3. ASSUME NEW t \in Task
        PROVE  /\ UnderWay(t)' => UnderWay(t)
               /\ job'[t] \in Early => job[t] \in Early
               /\ phase' # "off" /\ status'[t] = "integrated" => Integrated(t)
               /\ job'[t] \in {"picked", "staged"} => job'[t] = job[t]
               /\ job'[t] \in Delivering => branch'[t] = work'[t].base
    BY <1>1, <1>3 DEF UnderWay, InFlight, Steps, Early, Delivering, Delivered, Course
  <1> QED
    BY <1>1, <1>2, <1>3, StillStep

\* An event that refuses a task, written or not, integrates nothing and takes
\* nothing back.
LEMMA RefusalPosted ==
    ASSUME Sound, NEW t \in Task, NEW s \in Refusal, event[t] \in {<<>>, <<D>>},
           Post(t, s) \/ UNCHANGED event
    PROVE  /\ \A u \in Task \ {t} : event'[u] = event[u]
           /\ event'[t] \in {event[t], <<s>>, <<D, s>>}
           /\ \A u \in Task : /\ event[u] # <<>> => event'[u] # <<>>
                              /\ Integrated(u)' <=> Integrated(u)
           /\ Post(t, s) => event'[t] = IF event[t] = <<>> THEN <<s>> ELSE <<D, s>>
  <1>1. /\ \A u \in Task \ {t} : event'[u] = event[u]
        /\ event'[t] \in {event[t], <<s>>, <<D, s>>}
        /\ Post(t, s) => event'[t] = IF event[t] = <<>> THEN <<s>> ELSE <<D, s>>
    BY PostEffect DEF Sound, Shape, Refusal, End
  <1>2. event[t] \in EventForm /\ event'[t] \in EventForm
    BY <1>1 DEF EventForm, Refusal, End
  <1>3. ~ Integrated(t)
    BY <1>2, LatestOfForm DEF Integrated, LatestState
  <1>4. ~ Integrated(t)'
    <2>1. LatestOf(event'[t]) \in {"not_started", "dispatched", "blocked", "needs_decision"}
      BY <1>1, <1>2, LatestOfForm DEF Refusal
    <2> QED
      BY <2>1 DEF Integrated, LatestState
  <1> QED
    BY <1>1, <1>3, <1>4 DEF Integrated, LatestState

\* A check of processResult, passed or failed, preserves Delivered.
LEMMA CheckDelivered ==
    ASSUME Sound, Delivered, NEW t \in Required, Turn(t),
           UNCHANGED <<router, stage, tree, mapping, phase, event, status>>,
           NEW from \in {"batched", "accepted", "verified", "committed", "gated"},
           NEW to \in {"settling", "accepted", "verified", "committed", "gated", "approved"},
           job[t] = from, job' = [job EXCEPT ![t] = to],
           UNCHANGED branch, DOMAIN work' = Task,
           \A u \in Task \ {t} : verdict'[u] = verdict[u] /\ work'[u] = work[u],
           to # "settling" => UNCHANGED verdict,
           to = "settling" => verdict'[t] \in Refusal,
           from = "batched" /\ to # "settling" => verdict[t] = "ready"
    PROVE  Delivered'
  <1>1. t \in Task /\ job'[t] = to
    BY RouterFacts DEF Sound, Shape
  <1>2. UnderWay(t)' => UnderWay(t)
    BY <1>1 DEF UnderWay, Steps, InFlight, Refusal
  <1>3. to \in JobState /\ (to \in Early => job[t] \in Early) /\ to \notin Delivering
    BY DEF JobState, Steps, InFlight, Early, Delivering
  <1>4. /\ UNCHANGED <<router, stage, tree, mapping, phase, event, branch>>
        /\ \A u \in Task \ {t} :
              verdict'[u] = verdict[u] /\ status'[u] = status[u] /\ work'[u] = work[u]
        /\ status'[t] = status[t]
    OBVIOUS
  <1> QED
    BY <1>1, <1>2, <1>3, <1>4, QuietTask

\* The cherry-pick preserves Delivered: the task was not on the local Stage.
LEMMA PickDelivered ==
    ASSUME Sound, Delivered, NEW t \in Required, job[t] = "pushed",
           tree' = Append(tree, t), Step(t, "pushed", "picked"),
           UNCHANGED <<router, event, mapping, stage, branch, work, phase, status, verdict>>
    PROVE  Delivered'
  <1>1. /\ t \in Task /\ job' = [job EXCEPT ![t] = "picked"] /\ job'[t] = "picked"
        /\ tree \in Seq(Task) /\ Len(tree) \in Nat /\ Len(stage) \in Nat
        /\ Course(t) /\ event[t] = <<D>>
    BY RouterFacts DEF Sound, Shape, Step, Delivered, GitShape, JobFollowsEvents, Steps
  <1>2. /\ tree' \in Seq(Task) /\ Len(tree') = Len(tree) + 1 /\ tree'[Len(tree) + 1] = t
        /\ \A i \in 1 .. Len(tree) : tree'[i] = tree[i]
    BY <1>1
  <1>3. ~ OnTree(t)
    BY <1>1 DEF Course, Early
  <1>4. \A u \in Task : OnTree(u)' <=> OnTree(u) \/ u = t
    BY <1>1, <1>2 DEF OnTree
  <1>5. GitShape'
    <2>1. ASSUME NEW i \in 1 .. Len(tree'), NEW j \in 1 .. Len(tree'), tree'[i] = tree'[j]
          PROVE  i = j
      <3>1. CASE i \in 1 .. Len(tree) /\ j \in 1 .. Len(tree)
        BY <1>2, <2>1, <3>1 DEF Delivered, GitShape
      <3>2. CASE i = Len(tree) + 1 /\ j \in 1 .. Len(tree)
        BY <1>2, <1>3, <2>1, <3>2 DEF OnTree
      <3>3. CASE i \in 1 .. Len(tree) /\ j = Len(tree) + 1
        BY <1>2, <1>3, <2>1, <3>3 DEF OnTree
      <3>4. CASE i = Len(tree) + 1 /\ j = Len(tree) + 1
        BY <3>4
      <3> QED
        BY <1>1, <1>2, <3>1, <3>2, <3>3, <3>4
    <2> QED
      BY <1>1, <1>2, <2>1 DEF Delivered, GitShape
  <1>6. OneStep'
    BY <1>1 DEF Delivered, OneStep, Steps
  <1>7. Course(t)'
    <2>1. NeedsMet(t)' <=> NeedsMet(t)
      BY DEF NeedsMet, Integrated, LatestState
    <2>2. NeedsMet(t) /\ branch[t] = work[t].base
      BY <1>1 DEF Course, UnderWay, Steps, Delivering
    <2>3. (Integrated(t)' <=> Integrated(t)) /\ (Recorded(t)' <=> Recorded(t))
      BY DEF Integrated, LatestState, Recorded
    <2> QED
      BY <1>1, <1>2, <2>1, <2>2, <2>3 DEF Course, Early, InFlight
  <1>8. ASSUME NEW u \in Task, u # t PROVE Course(u)'
    <2>1. /\ job'[u] = job[u] /\ job[u] \notin Steps /\ Course(u)
          /\ OnTree(u)' <=> OnTree(u)
      BY <1>1, <1>4, <1>8 DEF Delivered, OneStep, Steps
    <2>2. /\ NeedsMet(u)' <=> NeedsMet(u)
          /\ Integrated(u)' <=> Integrated(u)
          /\ Recorded(u)' <=> Recorded(u)
      BY DEF NeedsMet, Integrated, LatestState, Recorded
    <2>3. UnderWay(u)' <=> UnderWay(u)
      BY <2>1 DEF UnderWay
    <2> QED
      BY <2>1, <2>2, <2>3 DEF Course, Steps
  <1> QED
    BY <1>5, <1>6, <1>7, <1>8 DEF Delivered

\* The push of the local Stage preserves Delivered, confirmed or not.
LEMMA ArriveDelivered ==
    ASSUME Sound, Delivered, NEW t \in Required, job[t] = "picked", stage' = tree,
           NEW to \in {"staged", "settling"}, job' = [job EXCEPT ![t] = to],
           to = "settling" => verdict'[t] \in Refusal,
           \A u \in Task \ {t} : verdict'[u] = verdict[u],
           UNCHANGED <<router, event, mapping, tree, branch, work, phase, status>>
    PROVE  Delivered'
  <1>1. /\ t \in Task /\ job'[t] = to /\ Course(t)
        /\ \A u \in Task \ {t} : job'[u] = job[u]
        /\ Len(tree) \in Nat /\ Len(stage) \in Nat /\ Len(stage) <= Len(tree)
        /\ \A i \in 1 .. Len(stage) : stage'[i] = stage[i]
    BY RouterFacts DEF Sound, Shape, Delivered, GitShape
  <1>2. GitShape'
    BY <1>1 DEF Delivered, GitShape
  <1>3. OneStep'
    BY <1>1 DEF Delivered, OneStep, Steps
  <1>4. ASSUME NEW u \in Task PROVE Recorded(u) => Recorded(u)'
    BY <1>1 DEF Recorded, Integrated, LatestState
  <1>5. ASSUME NEW u \in Task
        PROVE  /\ NeedsMet(u)' <=> NeedsMet(u)
               /\ Integrated(u)' <=> Integrated(u)
               /\ OnTree(u)' <=> OnTree(u)
    BY DEF NeedsMet, Integrated, LatestState, OnTree
  <1>6. Course(t)'
    BY <1>1, <1>4, <1>5 DEF Course, Early, InFlight, Delivering, UnderWay, Steps, Refusal
  <1>7. ASSUME NEW u \in Task, u # t PROVE Course(u)'
    <2>1. job'[u] = job[u] /\ job[u] \notin Steps /\ Course(u)
      BY <1>1, <1>7 DEF Delivered, OneStep, Steps
    <2>2. UnderWay(u)' <=> UnderWay(u)
      BY <1>7, <2>1 DEF UnderWay
    <2> QED
      BY <1>4, <1>5, <2>1, <2>2 DEF Course, Steps
  <1> QED
    BY <1>2, <1>3, <1>6, <1>7 DEF Delivered

\* The event of an integration preserves Delivered: what it records is in Git, and
\* behind what the task depends on.
LEMMA IntegrateDelivered ==
    ASSUME Sound, Delivered, NEW t \in Required, job[t] = "staged",
           Post(t, "task_integrated"),
           mapping' = [mapping EXCEPT ![t] = [source |-> work[t].base, at |-> Len(tree)]],
           \A u \in Task : job'[u] = job[u] \/ job'[u] = "idle", job'[t] = "idle",
           \A u \in Task \ {t} : status'[u] = status[u],
           phase # "off",
           UNCHANGED <<router, stage, tree, branch, work, verdict>>
    PROVE  Delivered'
  <1>1. /\ t \in Task /\ event[t] = <<D>> /\ Course(t)
        /\ router.dep \in [Task -> SUBSET Task]
        /\ "idle" \notin Steps \cup Early \cup Delivering
        /\ Len(tree) \in Nat /\ Len(stage) \in Nat
    BY RouterFacts DEF Sound, Shape, Delivered, GitShape, JobFollowsEvents, Steps, Early,
                       InFlight, Delivering
  <1>2. /\ event'[t] = <<D, "task_integrated">>
        /\ \A u \in Task \ {t} : event'[u] = event[u]
    <2>1. <<D>> # <<>> /\ "task_integrated" \in End
      BY DEF End
    <2>2. /\ event'[t] = IF event[t] = <<>> THEN <<"task_integrated">> ELSE <<D, "task_integrated">>
          /\ \A u \in Task \ {t} : event'[u] = event[u]
      BY <1>1, <2>1, PostEffect DEF Sound, Shape
    <2> QED
      BY <1>1, <2>1, <2>2
  <1>3. ~ Integrated(t) /\ Integrated(t)'
    BY <1>1, <1>2, LatestOfForm DEF Integrated, LatestState, EventForm, End
  <1>4. \A u \in Task \ {t} : Integrated(u)' <=> Integrated(u)
    BY <1>2 DEF Integrated, LatestState
  <1>5. /\ mapping'[t].source = work[t].base /\ mapping'[t].at = Len(tree)
        /\ \A u \in Task \ {t} : mapping'[u] = mapping[u]
        /\ DOMAIN mapping' = Task
    BY <1>1 DEF Delivered, GitShape
  <1>6. /\ NeedsMet(t) /\ branch[t] = work[t].base /\ Len(stage) = Len(tree)
        /\ Len(tree) > 0 /\ tree[Len(tree)] = t /\ OnTree(t)
    BY <1>1 DEF Course, UnderWay, Steps, Delivering, OnTree
  <1>7. stage[Len(stage)] = t
    BY <1>1, <1>6 DEF Delivered, GitShape
  <1>8. \A d \in router.dep[t] : d \in Task \ {t} /\ Integrated(d) /\ mapping[d].at < Len(tree)
    <2>1. ASSUME NEW d \in router.dep[t] PROVE d \in Task \ {t} /\ Integrated(d) /\ Recorded(d)
      BY <1>1, <1>3, <1>6, <2>1 DEF NeedsMet, Delivered, Course
    <2>2. ASSUME NEW d \in router.dep[t] PROVE mapping[d].at < Len(tree)
      <3>1. mapping[d].at \in 1 .. Len(stage) /\ stage[mapping[d].at] = d
        BY <2>1, <2>2 DEF Recorded
      <3>2. mapping[d].at # Len(stage)
        BY <1>7, <2>1, <2>2, <3>1
      <3> QED
        BY <1>1, <1>6, <3>1, <3>2
    <2> QED
      BY <2>1, <2>2
  <1>9. Recorded(t)'
    BY <1>1, <1>4, <1>5, <1>6, <1>7, <1>8 DEF Recorded
  <1>10. ASSUME NEW u \in Task, u # t, Integrated(u) PROVE Recorded(u)'
    <2>1. Recorded(u) /\ \A d \in router.dep[u] : d \in Task \ {t}
      BY <1>1, <1>3, <1>10 DEF Delivered, Course, Recorded
    <2> QED
      BY <1>4, <1>5, <1>10, <2>1 DEF Recorded
  <1>11. ASSUME NEW u \in Task PROVE (NeedsMet(u) => NeedsMet(u)') /\ (OnTree(u)' <=> OnTree(u))
    BY <1>1, <1>3, <1>4 DEF NeedsMet, OnTree
  <1>12. Course(t)'
    BY <1>1, <1>2, <1>3, <1>6, <1>9, <1>11 DEF Course, UnderWay
  <1>13. ASSUME NEW u \in Task, u # t PROVE Course(u)'
    <2>1. Course(u) /\ (UnderWay(u)' => UnderWay(u))
      BY <1>1, <1>13 DEF Delivered, UnderWay, InFlight
    <2> QED
      BY <1>1, <1>2, <1>4, <1>10, <1>11, <1>13, <2>1 DEF Course
  <1>14. GitShape' /\ OneStep'
    BY <1>1, <1>5 DEF Delivered, GitShape, OneStep
  <1> QED
    BY <1>12, <1>13, <1>14 DEF Delivered

\* The comment that refuses a task preserves Delivered, written or not.
LEMMA RefusalDelivered ==
    ASSUME Sound, Delivered, NEW t \in Required, PublishRefusal(t) PROVE Delivered'
  <1>1. /\ t \in Task /\ job[t] = "settling" /\ phase # "off"
        /\ event[t] \in {<<>>, <<D>>} /\ verdict[t] \in Refusal
        /\ UNCHANGED <<router, stage, tree, mapping, branch, work, verdict>>
        /\ DOMAIN branch = Task /\ DOMAIN work = Task
    BY RouterFacts DEF PublishRefusal, Turn, Sound, Shape, JobFollowsEvents, fixedVars, gitVars,
                       Delivered, GitShape
  <1>2. Post(t, verdict[t]) \/ UNCHANGED event
    BY DEF PublishRefusal, PostFails
  <1>3. /\ \A u \in Task \ {t} : event'[u] = event[u]
        /\ \A u \in Task : /\ event[u] # <<>> => event'[u] # <<>>
                           /\ Integrated(u)' <=> Integrated(u)
    BY <1>1, <1>2, RefusalPosted
  <1>4. CASE Step(t, "settling", "idle") /\ status' = [status EXCEPT ![t] = verdict[t]]
                /\ UNCHANGED phase
    <2>1. /\ job' = [job EXCEPT ![t] = "idle"] /\ job'[t] = "idle"
          /\ status'[t] = verdict[t] /\ \A u \in Task \ {t} : status'[u] = status[u]
      BY <1>1, <1>4 DEF Step, Sound, Shape
    <2>2. ~ UnderWay(t)' /\ "idle" \in JobState
      BY <2>1 DEF UnderWay, InFlight, Steps, JobState
    <2> QED
      BY <1>1, <1>3, <1>4, <2>1, <2>2, TaskStep DEF Early, InFlight, Delivering, Steps, Refusal
  <1>5. CASE Throw /\ UNCHANGED status
    BY <1>1, <1>3, <1>5, ThrowDelivered
  <1> QED
    BY <1>4, <1>5 DEF PublishRefusal, PostFails

\* Every step of processResult() preserves Delivered.
LEMMA ProcessDelivered ==
    ASSUME Sound, Delivered, NEW t \in Required, Process(t) PROVE Delivered'
  <1>t. /\ t \in Task /\ DOMAIN work = Task /\ DOMAIN branch = Task /\ DOMAIN mapping = Task
        /\ job \in [Task -> JobState]
        /\ verdict \in [Task -> {"none", "ready", "blocked", "needs_decision", "uncertain"}]
        /\ Turn(t) => phase # "off"
    BY RouterFacts DEF Sound, Shape, Turn, Delivered, GitShape
  <1>1. CASE ThrowUncertain(t)
    BY <1>1, <1>t, ThrowDelivered
       DEF ThrowUncertain, fixedVars, prVars, gitVars, Integrated, LatestState
  <1>2. CASE Refuse(t)
    <2>1. /\ Turn(t) /\ job[t] = "batched" /\ job' = [job EXCEPT ![t] = "settling"]
          /\ verdict'[t] \in Refusal
          /\ UNCHANGED <<router, stage, tree, mapping, phase, event, status, branch, work, verdict>>
      BY <1>2 DEF Refuse, Step, fixedVars, prVars, gitVars, Refusal
    <2> QED
      BY <1>t, <2>1, CheckDelivered
  <1>c. ASSUME NEW from \in {"batched", "accepted", "verified", "committed", "gated"},
               NEW to \in {"accepted", "verified", "committed", "gated", "approved"},
               Check(t, from, to), from = "batched" => verdict[t] = "ready"
        PROVE  Delivered'
    <2>1. /\ Turn(t) /\ job[t] = from
          /\ UNCHANGED <<router, stage, tree, mapping, phase, event, status, branch, work>>
      BY <1>c DEF Check, fixedVars, prVars, gitVars
    <2>2. CASE Step(t, from, to) /\ UNCHANGED verdict
      BY <1>c, <1>t, <2>1, <2>2, CheckDelivered DEF Step
    <2>3. CASE Reject(t, "blocked")
      <3>1. /\ job' = [job EXCEPT ![t] = "settling"] /\ verdict'[t] = "blocked"
            /\ \A u \in Task \ {t} : verdict'[u] = verdict[u]
        BY <1>t, <2>3 DEF Reject
      <3> QED
        BY <1>c, <1>t, <2>1, <3>1, CheckDelivered DEF Refusal
    <2> QED
      BY <1>c, <2>2, <2>3 DEF Check
  <1>3. CASE AcceptResult(t)
    BY <1>3, <1>c DEF AcceptResult
  <1>4. CASE Verify(t)
    BY <1>4, <1>c DEF Verify
  <1>5. CASE CommitCandidate(t)
    <2>1. /\ Turn(t) /\ job[t] = "verified"
          /\ UNCHANGED <<router, stage, tree, mapping, phase, event, status, branch>>
          /\ DOMAIN work' = Task /\ \A u \in Task \ {t} : work'[u] = work[u]
      BY <1>5, <1>t DEF CommitCandidate, fixedVars, prVars
    <2>2. \/ job' = [job EXCEPT ![t] = "committed"] /\ UNCHANGED verdict
          \/ /\ job' = [job EXCEPT ![t] = "settling"] /\ verdict'[t] = "blocked"
             /\ \A u \in Task \ {t} : verdict'[u] = verdict[u]
      BY <1>5, <1>t DEF CommitCandidate, Step, Reject
    <2> QED
      BY <1>t, <2>1, <2>2, CheckDelivered DEF Refusal
  <1>6. CASE MechanicalGate(t)
    BY <1>6, <1>c DEF MechanicalGate
  <1>7. CASE Supervise(t)
    <2>1. /\ Turn(t) /\ job[t] = "gated"
          /\ UNCHANGED <<router, stage, tree, mapping, phase, event, status, branch, work>>
      BY <1>7 DEF Supervise, fixedVars, prVars, gitVars
    <2>2. \/ job' = [job EXCEPT ![t] = "approved"] /\ UNCHANGED verdict
          \/ /\ job' = [job EXCEPT ![t] = "settling"] /\ verdict'[t] \in Refusal
             /\ \A u \in Task \ {t} : verdict'[u] = verdict[u]
      BY <1>7, <1>t DEF Supervise, Step, Reject, Refusal
    <2> QED
      BY <1>t, <2>1, <2>2, CheckDelivered
  <1>8. CASE PushTask(t)
    <2>1. /\ Turn(t) /\ job[t] = "approved" /\ event[t] = <<D>> /\ Course(t)
          /\ UNCHANGED <<router, stage, tree, mapping, phase, event, status, work>>
          /\ DOMAIN branch' = Task /\ \A u \in Task \ {t} : branch'[u] = branch[u]
      BY <1>8, <1>t DEF PushTask, fixedVars, prVars, Sound, JobFollowsEvents, Steps, Delivered
    <2>2. /\ ~ Integrated(t) /\ ~ Integrated(t)'
      BY <2>1, LatestOfForm DEF Integrated, LatestState, EventForm
    <2>3. UnderWay(t) /\ job[t] \in Early
      BY <2>1 DEF UnderWay, Steps, Early
    <2>4. phase # "off" /\ status'[t] = "integrated" => Integrated(t)
      BY <2>1 DEF Course
    <2>5. CASE job' = [job EXCEPT ![t] = "pushed"] /\ branch'[t] = work[t].base /\ UNCHANGED verdict
      BY <1>t, <2>1, <2>2, <2>3, <2>4, <2>5, TaskStep DEF JobState, Steps
    <2>6. CASE job' = [job EXCEPT ![t] = "settling"]
               /\ \A u \in Task \ {t} : verdict'[u] = verdict[u]
      BY <1>t, <2>1, <2>2, <2>3, <2>4, <2>6, TaskStep
         DEF JobState, Steps, Early, Delivering, InFlight
    <2> QED
      BY <1>8, <1>t, <2>5, <2>6 DEF PushTask, Step, Reject
  <1>9. CASE CherryPick(t)
    <2>1. /\ Turn(t) /\ job[t] = "pushed"
          /\ UNCHANGED <<router, event, mapping, stage, branch, work, phase, status>>
      BY <1>9 DEF CherryPick, fixedVars, prVars
    <2>2. CASE tree' = Append(tree, t) /\ Step(t, "pushed", "picked") /\ UNCHANGED verdict
      BY <2>1, <2>2, PickDelivered
    <2>3. CASE UNCHANGED tree /\ Reject(t, "blocked")
      <3>1. /\ job' = [job EXCEPT ![t] = "settling"] /\ job'[t] = "settling"
            /\ verdict'[t] = "blocked" /\ \A u \in Task \ {t} : verdict'[u] = verdict[u]
        BY <1>t, <2>3 DEF Reject
      <3>2. ~ UnderWay(t)'
        BY <3>1 DEF UnderWay, InFlight, Steps
      <3> QED
        BY <1>t, <2>1, <2>3, <3>1, <3>2, QuietTask
           DEF JobState, Steps, Early, Delivering, InFlight
    <2> QED
      BY <1>9, <2>2, <2>3 DEF CherryPick
  <1>10. CASE PushStage(t)
    <2>1. /\ Turn(t) /\ job[t] = "picked"
          /\ UNCHANGED <<router, event, mapping, tree, branch, work, phase, status>>
      BY <1>10 DEF PushStage, fixedVars
    <2>2. \/ job' = [job EXCEPT ![t] = "staged"] /\ UNCHANGED verdict /\ stage' = tree
          \/ /\ job' = [job EXCEPT ![t] = "settling"] /\ verdict'[t] = "blocked"
             /\ \A u \in Task \ {t} : verdict'[u] = verdict[u]
             /\ stage' = tree \/ UNCHANGED stage
      BY <1>10, <1>t DEF PushStage, StageArrives, Step, Reject
    <2>3. CASE stage' = tree
      BY <2>1, <2>2, <2>3, ArriveDelivered DEF Refusal
    <2>4. CASE UNCHANGED stage /\ stage' # tree
      <3>1. /\ job' = [job EXCEPT ![t] = "settling"] /\ job'[t] = "settling"
            /\ verdict'[t] = "blocked" /\ \A u \in Task \ {t} : verdict'[u] = verdict[u]
        BY <1>t, <2>2, <2>4
      <3>2. ~ UnderWay(t)'
        BY <3>1 DEF UnderWay, InFlight, Steps
      <3> QED
        BY <1>t, <2>1, <2>4, <3>1, <3>2, QuietTask
           DEF JobState, Steps, Early, Delivering, InFlight
    <2> QED
      BY <2>2, <2>3, <2>4
  <1>11. CASE PublishIntegrated(t)
    <2>1. /\ Turn(t) /\ job[t] = "staged" /\ phase # "off" /\ event[t] = <<D>>
          /\ UNCHANGED <<router, stage, tree, branch, work, verdict>>
          /\ mapping' = IF event' = event THEN mapping
                        ELSE [mapping EXCEPT ![t] = [source |-> work[t].base, at |-> Len(tree)]]
      BY <1>11, <1>t DEF PublishIntegrated, fixedVars, gitVars, Sound, JobFollowsEvents, Steps
    <2>2. ASSUME Post(t, "task_integrated"), job'[t] = "idle",
                 \A u \in Task : job'[u] = job[u] \/ job'[u] = "idle",
                 \A u \in Task \ {t} : status'[u] = status[u]
          PROVE  Delivered'
      <3>1. event'[t] # event[t]
        <4>1. <<D>> # <<>> /\ "task_integrated" \in End /\ <<D, "task_integrated">> # <<D>>
          BY DEF End
        <4>2. event'[t] = IF event[t] = <<>> THEN <<"task_integrated">>
                          ELSE <<D, "task_integrated">>
          BY <1>t, <2>1, <2>2, <4>1, PostEffect DEF Sound, Shape
        <4> QED
          BY <2>1, <4>1, <4>2
      <3> QED
        BY <2>1, <2>2, <3>1, IntegrateDelivered
    <2>3. CASE Post(t, "task_integrated") /\ Step(t, "staged", "idle")
                  /\ status' = [status EXCEPT ![t] = "integrated"]
      <3>1. /\ job'[t] = "idle" /\ \A u \in Task : job'[u] = job[u] \/ job'[u] = "idle"
            /\ \A u \in Task \ {t} : status'[u] = status[u]
        BY <1>t, <2>3 DEF Step, Sound, Shape
      <3> QED
        BY <2>2, <2>3, <3>1
    <2>4. CASE Throw /\ UNCHANGED status
      <3>1. job'[t] = "idle" /\ \A u \in Task : job'[u] = job[u] \/ job'[u] = "idle"
        BY <1>t, <2>1, <2>4 DEF Throw, InFlight
      <3>2. CASE Post(t, "task_integrated")
        BY <2>2, <2>4, <3>1, <3>2
      <3>3. CASE UNCHANGED event
        BY <2>1, <2>4, <3>3, ThrowDelivered DEF Integrated, LatestState
      <3> QED
        BY <1>11, <2>1, <2>4, <3>2, <3>3 DEF PublishIntegrated, PostFails
    <2> QED
      BY <1>11, <2>3, <2>4 DEF PublishIntegrated, PostFails
  <1> QED
    BY <1>1, <1>2, <1>3, <1>4, <1>5, <1>6, <1>7, <1>8, <1>9, <1>10, <1>11, RefusalDelivered
       DEF Process

-----------------------------------------------------------------------------
\* load() preserves Delivered.
LEMMA LoadDelivered ==
    ASSUME Sound, Delivered, NEW m \in Mode, Load(m) PROVE Delivered'
  <1>1. /\ UNCHANGED <<router, stage, tree, mapping, branch, work, event>>
        /\ \A t \in Task : job'[t] = "idle" /\ status'[t] = LatestState(t)
        /\ router.dep \in [Task -> SUBSET Task]
    BY RouterFacts DEF Load, fixedVars, prVars, gitVars, Sound, Shape
  <1>2. OneStep'
    BY <1>1 DEF OneStep, Steps
  <1>3. \A t \in Task : Integrated(t)' <=> Integrated(t)
    BY <1>1 DEF Integrated, LatestState
  <1> QED
    BY <1>1, <1>2, <1>3, StillStep
       DEF UnderWay, InFlight, Steps, Early, Delivering, Integrated, Delivered, GitShape

\* The end of a process preserves Delivered.
LEMMA ExitDelivered ==
    ASSUME Sound, Delivered, Exit,
           UNCHANGED <<router, event, stage, tree, mapping, branch, work>>
    PROVE  Delivered'
  <1>1. /\ \A t \in Task : job'[t] = "idle" /\ status'[t] = "not_started"
        /\ router.dep \in [Task -> SUBSET Task]
    BY RouterFacts DEF Exit, Sound, Shape
  <1>2. OneStep'
    BY <1>1 DEF OneStep, Steps
  <1>3. \A t \in Task : Integrated(t)' <=> Integrated(t)
    BY DEF Integrated, LatestState
  <1> QED
    BY <1>1, <1>2, <1>3, StillStep
       DEF UnderWay, InFlight, Steps, Early, Delivering, Delivered, GitShape

\* Steps in which launches begin on what they need, go into a batch, or go on
\* unchanged preserve Delivered.
LEMMA JobsDelivered ==
    ASSUME Sound, Delivered, phase # "off",
           UNCHANGED <<router, event, stage, tree, mapping, branch, work, verdict>>,
           \A t \in Task :
              \/ job'[t] = job[t]
              \/ job'[t] = "batched" /\ job[t] = "ended"
              \/ job'[t] = "launching" /\ event[t] = <<>> /\ NeedsMet(t),
           \A t \in Task : status'[t] = "integrated" => status[t] = "integrated"
    PROVE  Delivered'
  <1>1. router.dep \in [Task -> SUBSET Task] /\ DOMAIN branch = Task /\ DOMAIN work = Task
    BY RouterFacts DEF Sound, Shape, Delivered, GitShape
  <1>2. OneStep'
    BY DEF Delivered, OneStep, Steps
  <1>3. ASSUME NEW t \in Task
        PROVE  /\ UnderWay(t)' => UnderWay(t) \/ NeedsMet(t)
               /\ job'[t] \in Early => job[t] \in Early \/ event[t] = <<>>
               /\ status'[t] = "integrated" => Integrated(t)
               /\ job'[t] \in {"picked", "staged"} => job'[t] = job[t]
               /\ job'[t] \in Delivering => branch[t] = work[t].base
               /\ Integrated(t)' <=> Integrated(t)
    BY <1>3 DEF UnderWay, InFlight, Steps, Early, Delivering, Delivered, Course, Integrated,
                LatestState
  <1> QED
    BY <1>1, <1>2, <1>3, StillStep

\* Both schedules preserve Delivered: the needs of a Ready Set are met.
LEMMA ScheduleDelivered ==
    ASSUME Sound, Delivered, ScheduleStart \/ ScheduleOnce PROVE Delivered'
  <1>1. /\ phase = "schedule"
        /\ UNCHANGED <<router, event, stage, tree, mapping, branch, work, verdict>>
        /\ job \in [Task -> JobState]
        /\ router.dep \in [Task -> SUBSET Task] /\ Required \subseteq Task
    BY RouterFacts DEF ScheduleStart, ScheduleOnce, fixedVars, prVars, gitVars, Sound, Shape
  <1>2. ASSUME NEW S, NEW R, IsReadySet(S, R)
        PROVE  \A t \in S : event[t] = <<>> /\ NeedsMet(t)
    <2>1. ASSUME NEW t \in S PROVE t \in Task /\ status[t] = "not_started"
                                   /\ \A d \in router.dep[t] : status[d] = "integrated"
      BY <1>1, <1>2, <2>1 DEF IsReadySet, Eligible
    <2>2. ASSUME NEW t \in S PROVE event[t] = <<>>
      BY <1>1, <2>1, <2>2 DEF Sound, PhaseOfJobs
    <2>3. ASSUME NEW t \in S PROVE NeedsMet(t)
      BY <1>1, <2>1, <2>3 DEF NeedsMet, Delivered, Course
    <2> QED
      BY <2>2, <2>3
  <1>3. \/ UNCHANGED <<job, status>>
        \/ \E S \in SUBSET Required :
              /\ \A t \in S : event[t] = <<>> /\ NeedsMet(t)
              /\ job' = [t \in Task |-> IF t \in S THEN "launching" ELSE job[t]]
              /\ \/ UNCHANGED status
                 \/ status' = [t \in Task |-> IF t \in S THEN "running" ELSE status[t]]
    BY <1>2 DEF ScheduleStart, ScheduleOnce
  <1> QED
    BY <1>1, <1>3, JobsDelivered

\* Every step of a run preserves Delivered.
LEMMA RunDelivered ==
    ASSUME Sound, Delivered, Run PROVE Delivered'
  <1>1. CASE Collect \/ CollectAll
    BY <1>1, JobsDelivered DEF Collect, CollectAll, Batch, fixedVars, prVars, gitVars
  <1>2. CASE ThrowRejected
    BY <1>2, ThrowDelivered DEF ThrowRejected, fixedVars, prVars, gitVars, Integrated, LatestState
  <1>3. CASE BatchDone
    BY <1>3, JobsDelivered DEF BatchDone, fixedVars, prVars, gitVars
  <1>4. CASE Finish \/ ProjectLabels \/ DispatchCandidate \/ ExitFailed
    <2>1. /\ phase # "off"
          /\ UNCHANGED <<router, event, stage, tree, mapping, branch, work>>
      BY <1>4 DEF Finish, ProjectLabels, DispatchCandidate, ExitFailed, Call, fixedVars, prVars,
                  gitVars
    <2>2. CASE Exit
      BY <2>1, <2>2, ExitDelivered
    <2>3. CASE UNCHANGED <<status, job, verdict>>
      BY <2>1, <2>3, JobsDelivered
    <2> QED
      BY <1>4, <2>2, <2>3 DEF Finish, ProjectLabels, DispatchCandidate, ExitFailed
  <1> QED
    BY <1>1, <1>2, <1>3, <1>4, ScheduleDelivered, LaunchDelivered, ProcessDelivered DEF Run

\* Bringing the integration worktree back to the Stage preserves Delivered.
LEMMA RepairDelivered ==
    ASSUME Sound, Delivered, RepairWorktree PROVE Delivered'
  <1>1. /\ tree' = stage /\ phase = "off"
        /\ UNCHANGED <<router, event, mapping, stage, branch, work, phase, job, status, verdict>>
        /\ \A t \in Task : job[t] = "idle"
        /\ Len(stage) \in Nat /\ Len(tree) \in Nat /\ stage \in Seq(Task)
    BY DEF RepairWorktree, fixedVars, prVars, runVars, Sound, PhaseOfJobs, Delivered, GitShape
  <1>2. \A i \in 1 .. Len(stage) : i \in 1 .. Len(tree) /\ tree[i] = stage[i]
    BY <1>1 DEF Delivered, GitShape
  <1>3. GitShape' /\ OneStep'
    BY <1>1, <1>2 DEF Delivered, GitShape, OneStep
  <1>4. ASSUME NEW t \in Task PROVE Course(t)'
    <2>1. Course(t) /\ (OnTree(t)' => OnTree(t))
      BY <1>1, <1>2, <1>4 DEF Delivered, OnTree
    <2>2. /\ NeedsMet(t)' <=> NeedsMet(t)
          /\ Integrated(t)' <=> Integrated(t)
          /\ Recorded(t)' <=> Recorded(t)
          /\ UnderWay(t)' <=> UnderWay(t)
      BY <1>1 DEF NeedsMet, Integrated, LatestState, Recorded, UnderWay
    <2> QED
      BY <1>1, <1>4, <2>1, <2>2 DEF Course, Early, InFlight, Delivering
  <1> QED
    BY <1>3, <1>4 DEF Delivered

\* Every step preserves Delivered.
LEMMA NextDelivered ==
    ASSUME Sound, Delivered, [Next]_vars PROVE Delivered'
  <1>1. CASE Crash
    BY <1>1, ExitDelivered DEF Crash, fixedVars, prVars
  <1>2. CASE UNCHANGED <<router, event, stage, tree, mapping, branch, work, phase, job, status,
                         verdict>>
    <2>1. router.dep \in [Task -> SUBSET Task] /\ DOMAIN branch = Task /\ DOMAIN work = Task
      BY RouterFacts DEF Sound, Shape, Delivered, GitShape
    <2>2. OneStep'
      BY <1>2 DEF Delivered, OneStep
    <2>3. ASSUME NEW t \in Task
          PROVE  /\ UnderWay(t)' <=> UnderWay(t)
                 /\ Integrated(t)' <=> Integrated(t)
                 /\ phase' # "off" /\ status'[t] = "integrated" => Integrated(t)
                 /\ job'[t] \in Delivering => branch'[t] = work'[t].base
      BY <1>2, <2>3 DEF UnderWay, Integrated, LatestState, Delivered, Course
    <2> QED
      BY <1>2, <2>1, <2>2, <2>3, StillStep
  <1>3. CASE Workflow \/ UNCHANGED vars \/ \E t \in Required : EndOrphan(t)
    BY <1>2, <1>3 DEF Workflow, AnswerPush, AnswerCandidate, EndOrphan, vars, fixedVars, prVars,
                      gitVars, runVars
  <1> QED
    BY <1>1, <1>3, LoadDelivered, RunDelivered, RepairDelivered DEF Next

\* Delivered holds at first.
LEMMA InitDelivered ==
    ASSUME Init PROVE Delivered
  <1>1. GitShape /\ OneStep
    BY DEF Init, GitShape, OneStep, Steps
  <1>2. ASSUME NEW t \in Task PROVE Course(t)
    <2>1. ~ OnTree(t) /\ job[t] = "idle" /\ status[t] = "not_started"
      BY <1>2 DEF Init, OnTree
    <2>2. ~ Integrated(t)
      BY <1>2 DEF Init, Integrated, LatestState, LatestOf
    <2> QED
      BY <2>1, <2>2 DEF Course, UnderWay, InFlight, Steps, Early, Delivering
  <1> QED
    BY <1>1, <1>2 DEF Delivered

\* In every reachable state Git is as far as the work of the run and the events on
\* the pull request say.
THEOREM DeliveredAlways == Spec => []Delivered
  BY InitDelivered, NextDelivered, SoundAlways, PTL DEF Spec

\* What revalidateRecoveredIntegration looks for is always there: a task recorded as
\* integrated is on its branch and on the Stage, behind what it depends on.
THEOREM IntegrationDeliveredAlways == Spec => []IntegrationIsDelivered
  <1>1. ASSUME Sound, Delivered PROVE IntegrationIsDelivered
    <2>1. ASSUME NEW t \in Required, LatestState(t) = "integrated"
          PROVE  /\ Recovered(t)
                 /\ \A d \in router.dep[t] :
                       LatestState(d) = "integrated" /\ mapping[d].at < mapping[t].at
      <3>1. Recorded(t) /\ DOMAIN stage = 1 .. Len(stage)
        BY <1>1, <2>1, RouterFacts DEF Sound, Shape, Delivered, GitShape, Course, Integrated
      <3> QED
        BY <3>1 DEF Recorded, Recovered, Integrated
    <2> QED
      BY <2>1 DEF IntegrationIsDelivered
  <1> QED
    BY <1>1, SoundAlways, DeliveredAlways, PTL

-----------------------------------------------------------------------------
(* The refinement: every step is a step of the ledger, or none. *)

\* An event posted while the Stage stands still is a step of the ledger, or none.
LEMMA PostKeepsLedger ==
    ASSUME Sound, Delivered, UNCHANGED <<router, stage>>, NEW t \in Required, NEW s,
           Post(t, s) \/ UNCHANGED event,
           \/ s = D /\ event[t] = <<>> /\ UnderWay(t)
           \/ s \in Refusal /\ event[t] \in {<<>>, <<D>>}
           \/ s = "task_integrated" /\ job[t] = "staged"
    PROVE  [Ledger!LedgerNext]_(Ledger!ledgerVars)
  <1> DEFINE led == [u \in Task |-> LatestState(u)]
  <1>1. /\ t \in Task /\ Course(t) /\ event \in [Task -> EventForm]
        /\ s = "task_integrated" => event[t] = <<D>>
    BY RouterFacts DEF Sound, Shape, Delivered, JobFollowsEvents, Steps, D, Refusal
  <1>2. CASE UNCHANGED event
    BY <1>2 DEF Ledger!ledgerVars, LatestState
  <1>3. CASE Post(t, s)
    <2>1. s = D \/ s \in End
      BY DEF Refusal, End
    <2>2. /\ event' \in [Task -> EventForm]
          /\ \A u \in Task \ {t} : event'[u] = event[u]
          /\ s = D => event'[t] = <<D>>
          /\ s \in End => event'[t] = IF event[t] = <<>> THEN <<s>> ELSE <<D, s>>
      BY <1>1, <1>3, <2>1, PostEffect
    <2>3. \A u \in Task \ {t} : led'[u] = led[u]
      BY <2>2 DEF LatestState
    <2>4. led[t] = LatestOf(event[t]) /\ led'[t] = LatestOf(event'[t])
      BY <1>1 DEF LatestState
    <2>5. led' = [led EXCEPT ![t] = LatestOf(event'[t])]
      BY <2>3, <2>4
    <2>6. CASE s = D
      <3>1. led[t] = "not_started" /\ led'[t] = "dispatched"
        BY <1>1, <2>2, <2>4, <2>6, LatestOfForm DEF D, Refusal
      <3>2. \A d \in router.dep[t] : d \in Task /\ led[d] = "integrated"
        <4>1. NeedsMet(t) /\ router.dep[t] \subseteq Task
          BY <1>1, <2>6, RouterFacts DEF Course, Sound, Shape, D, Refusal
        <4> QED
          BY <4>1 DEF NeedsMet, Integrated
      <3>3. Ledger!Dispatch(t)
        BY <2>4, <2>5, <3>1, <3>2 DEF Ledger!Dispatch, Ledger!NeedsIntegrated
      <3> QED
        BY <1>1, <3>3 DEF Ledger!LedgerNext
    <2>7. CASE s \in Refusal
      <3>1. led[t] \in {"not_started", "dispatched"} /\ led'[t] = s
        <4>1. event[t] \in {<<>>, <<D>>} /\ event'[t] \in {<<s>>, <<D, s>>}
          BY <2>2, <2>7 DEF Refusal, End, D
        <4> QED
          BY <1>1, <2>2, <2>4, <2>7, <4>1, LatestOfForm
      <3>2. Ledger!Refuse(t)
        BY <2>4, <2>5, <2>7, <3>1 DEF Ledger!Refuse, Refusal
      <3> QED
        BY <1>1, <3>2 DEF Ledger!LedgerNext
    <2>8. CASE s = "task_integrated"
      <3>1. event[t] = <<D>> /\ job[t] = "staged" /\ <<D>> # <<>>
        BY <1>1, <2>8 DEF Refusal, D
      <3>2. led[t] = "dispatched" /\ led'[t] = "integrated"
        <4>1. event'[t] = <<D, "task_integrated">>
          BY <2>2, <2>8, <3>1 DEF End
        <4> QED
          BY <1>1, <2>2, <2>4, <3>1, <4>1, LatestOfForm
      <3>3. t \in Ledger!OnStage(stage)
        <4>1. /\ stage \in Seq(Task) /\ tree \in Seq(Task)
              /\ Len(stage) = Len(tree) /\ Len(tree) > 0 /\ tree[Len(tree)] = t
          BY <1>1, <3>1 DEF Course, Delivered, GitShape
        <4>2. Len(tree) \in 1 .. Len(stage) /\ stage[Len(tree)] = t
          BY <4>1 DEF Delivered, GitShape
        <4> QED
          BY <4>1, <4>2 DEF Ledger!OnStage
      <3>4. Ledger!Integrate(t)
        BY <2>4, <2>5, <3>2, <3>3 DEF Ledger!Integrate
      <3> QED
        BY <1>1, <3>4 DEF Ledger!LedgerNext
    <2> QED
      BY <2>6, <2>7, <2>8
  <1> QED
    BY <1>2, <1>3

\* What a push of the local Stage brings to origin is a Push of the ledger, or
\* nothing.
LEMMA ArrivalKeepsLedger ==
    ASSUME Sound, Delivered, UNCHANGED <<router, event>>, stage' = tree
    PROVE  [Ledger!LedgerNext]_(Ledger!ledgerVars)
  <1>1. /\ stage \in Seq(Task) /\ tree \in Seq(Task)
        /\ Len(stage) \in Nat /\ Len(tree) \in Nat /\ Len(stage) <= Len(tree)
        /\ \A i \in 1 .. Len(stage) : tree[i] = stage[i]
        /\ router.dep \in [Task -> SUBSET Task]
        /\ event \in [Task -> EventForm]
    <2>1. stage \in Seq(Task) /\ tree \in Seq(Task) /\ Len(stage) <= Len(tree)
      BY DEF Delivered, GitShape
    <2>2. Len(stage) \in Nat /\ Len(tree) \in Nat
      BY <2>1
    <2>3. \A i \in 1 .. Len(stage) : tree[i] = stage[i]
      BY DEF Delivered, GitShape
    <2>4. router.dep \in [Task -> SUBSET Task] /\ event \in [Task -> EventForm]
      BY RouterFacts DEF Sound, Shape
    <2> QED
      BY <2>1, <2>2, <2>3, <2>4
  <1>2. CASE Len(tree) = Len(stage)
    <2>1. tree = stage
      BY <1>1, <1>2, SeqEqual
    <2> QED
      BY <2>1 DEF Ledger!ledgerVars, LatestState
  <1>3. CASE Len(tree) > Len(stage)
    <2>1. SubSeq(stage', 1, Len(stage)) = stage
      <3>1. /\ SubSeq(tree, 1, Len(stage)) \in Seq(Task)
            /\ Len(SubSeq(tree, 1, Len(stage))) = Len(stage)
            /\ \A i \in 1 .. Len(stage) : SubSeq(tree, 1, Len(stage))[i] = tree[i]
        BY <1>1
      <3> QED
        BY <1>1, <3>1, SeqEqual
    <2>2. ASSUME NEW i \in Len(stage) + 1 .. Len(stage')
          PROVE  /\ stage'[i] \in Task
                 /\ LatestState(stage'[i]) # "not_started"
                 /\ \A d \in router.dep[stage'[i]] : d \in Task /\ LatestState(d) = "integrated"
                 /\ \A j \in 1 .. i - 1 : stage'[j] # stage'[i]
      <3>1. i \in 1 .. Len(tree) /\ tree[i] \in Task /\ OnTree(tree[i])
        BY <1>1, <2>2 DEF OnTree
      <3>2. Course(tree[i])
        BY <3>1 DEF Delivered
      <3>3. NeedsMet(tree[i]) /\ event[tree[i]] # <<>> /\ event[tree[i]] \in EventForm
        BY <1>1, <3>1, <3>2 DEF Course
      <3>4. LatestState(tree[i]) # "not_started"
        BY <3>3, LatestOfForm DEF LatestState
      <3>5. \A j \in 1 .. i - 1 : j \in 1 .. Len(tree) /\ j # i
        BY <1>1, <3>1
      <3> QED
        BY <1>1, <3>1, <3>3, <3>4, <3>5 DEF NeedsMet, Integrated, Delivered, GitShape
    <2>3. Ledger!Push
      BY <1>1, <1>3, <2>1, <2>2 DEF Ledger!Push, Ledger!NeedsIntegrated, LatestState
    <2> QED
      BY <2>3 DEF Ledger!LedgerNext
  <1> QED
    BY <1>1, <1>2, <1>3

\* Every step of the Bridge is a step of the ledger, or none.
LEMMA NextKeepsLedger ==
    ASSUME Sound, Delivered, [Next]_vars
    PROVE  [Ledger!LedgerNext]_(Ledger!ledgerVars)
  <1>1. CASE UNCHANGED <<router, event, stage>>
    BY <1>1 DEF Ledger!ledgerVars, LatestState
  <1>2. ASSUME NEW t \in Required, Announce(t) \/ FailAnnounce(t)
        PROVE  [Ledger!LedgerNext]_(Ledger!ledgerVars)
    <2>1. /\ job[t] = "based"
          /\ Post(t, D) \/ UNCHANGED event
          /\ UNCHANGED <<router, stage>>
      BY <1>2 DEF Announce, FailAnnounce, Step, fixedVars, gitVars, D
    <2>2. event[t] = <<>> /\ UnderWay(t)
      BY <1>2, <2>1, RouterFacts DEF Sound, Shape, JobFollowsEvents, UnderWay, InFlight
    <2> QED
      BY <2>1, <2>2, PostKeepsLedger
  <1>3. ASSUME NEW t \in Required, PublishRefusal(t)
        PROVE  [Ledger!LedgerNext]_(Ledger!ledgerVars)
    <2>1. /\ job[t] = "settling"
          /\ Post(t, verdict[t]) \/ UNCHANGED event
          /\ UNCHANGED <<router, stage>>
      BY <1>3 DEF PublishRefusal, PostFails, Turn, fixedVars, gitVars
    <2>2. event[t] \in {<<>>, <<D>>} /\ verdict[t] \in Refusal
      BY <1>3, RouterFacts DEF PublishRefusal, Sound, Shape, JobFollowsEvents, Turn
    <2> QED
      BY <2>1, <2>2, PostKeepsLedger
  <1>4. ASSUME NEW t \in Required, PublishIntegrated(t)
        PROVE  [Ledger!LedgerNext]_(Ledger!ledgerVars)
    <2>1. /\ job[t] = "staged"
          /\ Post(t, "task_integrated") \/ UNCHANGED event
          /\ UNCHANGED <<router, stage>>
      BY <1>4 DEF PublishIntegrated, PostFails, fixedVars, gitVars
    <2> QED
      BY <1>4, <2>1, PostKeepsLedger
  <1>5. ASSUME NEW t \in Required, PushStage(t)
        PROVE  [Ledger!LedgerNext]_(Ledger!ledgerVars)
    BY <1>1, <1>5, ArrivalKeepsLedger DEF PushStage, StageArrives, fixedVars
  <1>6. ASSUME NEW t \in Required, Launch(t)
        PROVE  [Ledger!LedgerNext]_(Ledger!ledgerVars)
    BY <1>1, <1>2, <1>6 DEF Launch, EnterWorktree, FailModel, FailWorktree, Preflight, StartWorker,
       EndWorker, fixedVars, prVars, gitVars
  <1>7. ASSUME NEW t \in Required, Process(t)
        PROVE  [Ledger!LedgerNext]_(Ledger!ledgerVars)
    BY <1>1, <1>3, <1>4, <1>5, <1>7 DEF Process, ThrowUncertain, Refuse, AcceptResult, Verify,
       CommitCandidate, MechanicalGate, Supervise, PushTask, CherryPick, Check, fixedVars, prVars,
       gitVars
  <1>8. CASE Run
    BY <1>1, <1>6, <1>7, <1>8 DEF Run, ScheduleStart, ScheduleOnce, Collect, CollectAll,
       ThrowRejected, BatchDone, Finish, ProjectLabels, DispatchCandidate, Call, ExitFailed,
       fixedVars, prVars, gitVars
  <1> QED
    BY <1>1, <1>8 DEF Next, Load, Crash, RepairWorktree, EndOrphan, Workflow, AnswerPush,
       AnswerCandidate, vars, fixedVars, prVars, gitVars

\* The ledger is empty at first.
LEMMA InitKeepsLedger ==
    ASSUME Init PROVE Ledger!LedgerInit
  <1>1. router.dep \in [Task -> SUBSET Task]
    BY RouterFacts DEF Init
  <1>2. \A t \in Task : LatestState(t) = "not_started"
    BY DEF Init, LatestState, LatestOf
  <1> QED
    BY <1>1, <1>2 DEF Init, Ledger!LedgerInit

\* The Bridge implements StageLedger: over all runs, crashes and restarts its events
\* and its Stage are a ledger of tasks dispatched once, on what they need, that end
\* once and are on the Stage when they are recorded there.
THEOREM KeepsLedgerAlways == Spec => KeepsLedger
  <1>1. Init => Ledger!LedgerInit
    BY InitKeepsLedger
  <1>2. Sound /\ Delivered /\ [Next]_vars => [Ledger!LedgerNext]_(Ledger!ledgerVars)
    BY NextKeepsLedger
  <1> QED
    BY <1>1, <1>2, SoundAlways, DeliveredAlways, PTL DEF Spec, KeepsLedger, Ledger!LedgerSpec

-----------------------------------------------------------------------------
(* The announcement of the Stage. *)

\* All tasks are integrated.
Complete == \A t \in Required : Integrated(t)

\* The inductive invariant of the announcement: what is announced is the Stage with
\* all its tasks, and the call goes out from the run that announced it first.
Announcement ==
    /\ \A head \in candidate : head = Len(stage) /\ Complete
    /\ phase \in {"commented", "refound", "labelled", "relabelled"} => candidate # {}
    /\ sent \in Nat
    /\ sent > 0 => sent = 1 /\ candidate # {} /\ phase \notin {"commented", "labelled"}

\* When all tasks are integrated, the local Stage holds them and nothing more than
\* the Stage on origin.
LEMMA CompleteStage ==
    ASSUME Sound, Delivered, Complete
    PROVE  Len(tree) = Len(stage) /\ \A t \in Required : t \in Range(stage)
  <1>1. /\ stage \in Seq(Task) /\ tree \in Seq(Task) /\ Len(stage) <= Len(tree)
        /\ \A i \in 1 .. Len(stage) : tree[i] = stage[i]
        /\ \A i, j \in 1 .. Len(tree) : tree[i] = tree[j] => i = j
    BY DEF Delivered, GitShape
  <1>2. ASSUME NEW t \in Required
        PROVE  mapping[t].at \in 1 .. Len(stage) /\ stage[mapping[t].at] = t
    BY <1>2, RouterFacts DEF Complete, Delivered, Course, Recorded, Sound, Shape
  <1>3. ASSUME Len(tree) > Len(stage) PROVE FALSE
    <2> DEFINE n == Len(stage) + 1
    <2>1. n \in 1 .. Len(tree) /\ tree[n] \in Task /\ OnTree(tree[n])
      BY <1>1, <1>3 DEF OnTree
    <2>2. tree[n] \in Required
      BY <2>1 DEF Delivered, Course, Sound, Shape
    <2>3. mapping[tree[n]].at \in 1 .. Len(stage) /\ tree[mapping[tree[n]].at] = tree[n]
      BY <1>1, <1>2, <2>2
    <2> QED
      BY <1>1, <2>1, <2>3
  <1>4. \A t \in Required : t \in Range(stage)
    BY <1>1, <1>2 DEF Range
  <1> QED
    BY <1>1, <1>3, <1>4

\* When all tasks are integrated, nothing changes the events or the Stage any more.
LEMMA CompleteIsFinal ==
    ASSUME Sound, Delivered, Complete, [Next]_vars
    PROVE  UNCHANGED <<router, event, stage>>
  <1>1. ASSUME NEW t \in Required PROVE event[t] \notin {<<>>, <<D>>}
    <2>1. t \in Task /\ event[t] \in EventForm /\ LatestOf(event[t]) = "integrated"
      BY <1>1, RouterFacts DEF Sound, Shape, Complete, Integrated, LatestState
    <2> QED
      BY <2>1, LatestOfForm
  <1>2. ASSUME NEW t \in Required PROVE job[t] \notin {"based", "settling", "staged", "picked"}
    BY <1>1, <1>2, RouterFacts DEF Sound, Shape, JobFollowsEvents, Steps
  <1>3. ASSUME NEW t \in Required, Launch(t) PROVE UNCHANGED <<router, event, stage>>
    BY <1>2, <1>3 DEF Launch, EnterWorktree, FailModel, FailWorktree, Preflight, Announce,
       FailAnnounce, StartWorker, EndWorker, Step, fixedVars, prVars, gitVars
  <1>4. ASSUME NEW t \in Required, Process(t) PROVE UNCHANGED <<router, event, stage>>
    <2>1. CASE PublishIntegrated(t)
      BY <1>2, <2>1 DEF PublishIntegrated, PostFails, Step, Turn
    <2>2. CASE PublishRefusal(t)
      BY <1>2, <2>2 DEF PublishRefusal, PostFails, Step, Turn
    <2> QED
      BY <1>2, <1>4, <2>1, <2>2 DEF Process, ThrowUncertain, Refuse, AcceptResult, Verify,
         CommitCandidate, MechanicalGate, Supervise, PushTask, CherryPick, PushStage, Check,
         fixedVars, prVars, gitVars
  <1>5. CASE Run
    BY <1>3, <1>4, <1>5 DEF Run, ScheduleStart, ScheduleOnce, Collect, CollectAll, ThrowRejected,
       BatchDone, Finish, ProjectLabels, DispatchCandidate, Call, ExitFailed, fixedVars, prVars,
       gitVars
  <1> QED
    BY <1>5 DEF Next, Load, Crash, RepairWorktree, EndOrphan, Workflow, AnswerPush,
       AnswerCandidate, vars, fixedVars, prVars, gitVars

\* Every step preserves Announcement.
LEMMA NextAnnounces ==
    ASSUME Sound, Delivered, Announcement, [Next]_vars PROVE Announcement'
  <1>1. Complete => Complete' /\ stage' = stage
    BY CompleteIsFinal DEF Complete, Required, Integrated, LatestState
  <1>2. CASE Finish
    <2>1. CASE Exit /\ UNCHANGED candidate
      BY <1>1, <1>2, <2>1 DEF Finish, Exit, Announcement
    <2>2. CASE AllIntegrated
      <3>1. Complete
        BY <1>2, <2>2, RouterFacts
           DEF AllIntegrated, Complete, Finish, Delivered, Course, Sound, Shape
      <3>2. Len(tree) = Len(stage) /\ stage' = stage
        BY <1>1, <3>1, CompleteStage
      <3>3. candidate' \in {candidate, candidate \cup {Len(tree)}} /\ sent' = sent
        BY <1>2 DEF Finish
      <3>4. Len(tree) \notin candidate => candidate = {} /\ sent = 0
        BY <3>2 DEF Announcement
      <3>5. \/ phase' = "off"
            \/ phase' = "refound" /\ Len(tree) \in candidate
            \/ phase' = "commented" /\ Len(tree) \notin candidate
                  /\ candidate' = candidate \cup {Len(tree)}
        BY <1>2, <2>2 DEF Finish, Exit
      <3> QED
        BY <1>1, <3>1, <3>2, <3>3, <3>4, <3>5 DEF Announcement
    <2> QED
      BY <1>2, <2>1, <2>2 DEF Finish
  <1>3. CASE ProjectLabels
    <2>1. /\ phase \in {"commented", "refound"} /\ UNCHANGED <<candidate, sent>>
          /\ \/ phase' = "off"
             \/ phase' = IF phase = "commented" THEN "labelled" ELSE "relabelled"
      BY <1>3 DEF ProjectLabels, Exit
    <2> QED
      BY <1>1, <2>1 DEF Announcement
  <1>4. CASE DispatchCandidate
    <2>1. /\ phase \in {"labelled", "relabelled"} /\ candidate' = candidate /\ phase' = "off"
          /\ sent' = sent \/ (phase = "labelled" /\ sent' = sent + 1)
      BY <1>4 DEF DispatchCandidate, Call, Exit
    <2> QED
      BY <1>1, <2>1 DEF Announcement
  <1>5. CASE UNCHANGED <<candidate, sent>>
             /\ (phase' \in {"commented", "refound", "labelled", "relabelled"} => phase' = phase)
    BY <1>1, <1>5 DEF Announcement
  <1>6. ASSUME NEW t \in Required, Launch(t) \/ Process(t) PROVE Announcement'
    <2>1. UNCHANGED <<candidate, sent>> /\ (phase' = phase \/ phase' = "failing")
      BY <1>6 DEF Launch, EnterWorktree, FailModel, FailWorktree, Preflight, Announce,
         FailAnnounce, StartWorker, EndWorker, Process, ThrowUncertain, Refuse, AcceptResult,
         Verify, CommitCandidate, MechanicalGate, Supervise, PushTask, CherryPick, PushStage,
         PublishIntegrated, PublishRefusal, PostFails, Throw, Check, fixedVars, prVars
    <2> QED
      BY <1>5, <2>1
  <1>7. CASE \/ ScheduleStart \/ ScheduleOnce \/ Collect \/ CollectAll \/ ThrowRejected
             \/ BatchDone \/ ExitFailed
    <2>1. UNCHANGED <<candidate, sent>>
          /\ phase' \notin {"commented", "refound", "labelled", "relabelled"}
      BY <1>7 DEF ScheduleStart, ScheduleOnce, Collect, CollectAll, ThrowRejected, BatchDone,
         ExitFailed, Throw, Exit, prVars
    <2> QED
      BY <1>5, <2>1
  <1>8. CASE Run
    BY <1>2, <1>3, <1>4, <1>6, <1>7, <1>8 DEF Run
  <1>9. ASSUME \/ \E m \in Mode : Load(m)
               \/ Crash \/ RepairWorktree \/ Workflow \/ UNCHANGED vars
               \/ \E t \in Required : EndOrphan(t)
        PROVE  Announcement'
    <2>1. UNCHANGED <<candidate, sent>> /\ (phase' = phase \/ phase' \in {"schedule", "off"})
      BY <1>9 DEF Load, Crash, RepairWorktree, EndOrphan, Workflow, AnswerPush, AnswerCandidate,
         Exit, vars, prVars, runVars
    <2> QED
      BY <1>5, <2>1
  <1> QED
    BY <1>8, <1>9 DEF Next

\* Announcement holds in every reachable state.
THEOREM AnnouncementAlways == Spec => []Announcement
  <1>1. Init => Announcement
    BY DEF Init, Announcement
  <1> QED
    BY <1>1, NextAnnounces, SoundAlways, DeliveredAlways, PTL DEF Spec

\* publishCandidate announces a Stage only when all its tasks are on it, and as it is
\* on origin.
THEOREM CandidateWholeAlways == Spec => []CandidateIsWhole
  <1>1. ASSUME Sound, Delivered, Announcement PROVE CandidateIsWhole
    <2>1. ASSUME NEW head \in candidate
          PROVE  head = Len(stage) /\ Complete /\ \A t \in Required : t \in Range(stage)
      BY <1>1, <2>1, CompleteStage DEF Announcement
    <2> QED
      BY <2>1 DEF CandidateIsWhole, Complete, Integrated
  <1> QED
    BY <1>1, SoundAlways, DeliveredAlways, AnnouncementAlways, PTL

\* The repository_dispatch of a candidate is sent at most once, over all runs.
THEOREM CandidateSentOnceAlways == Spec => []CandidateSentOnce
  <1>1. Announcement => CandidateSentOnce
    BY DEF Announcement, CandidateSentOnce
  <1> QED
    BY <1>1, AnnouncementAlways, PTL

\* publishCandidate announces the whole Stage, and once, for every instance.
THEOREM AnnouncedOnceAlways == Spec => []AnnouncedOnce
  <1>1. CandidateIsWhole /\ CandidateSentOnce => AnnouncedOnce
    BY DEF AnnouncedOnce
  <1> QED
    BY <1>1, CandidateWholeAlways, CandidateSentOnceAlways, PTL

-----------------------------------------------------------------------------
(* The base of a task under run-once. *)

\* The Stage SHA t starts from holds what t depends on.
OnBase(t) ==
    /\ work[t].base \in Nat
    /\ \A d \in router.dep[t] : \E i \in 1 .. Len(stage) : i <= work[t].base /\ stage[i] = d

\* t has a worktree of this run and may still be integrated.
Entered(t) ==
    \/ job[t] \in {"based", "announced", "working"} \cup (Steps \ {"settling"})
    \/ job[t] \in {"ended", "batched"} /\ verdict[t] = "ready"

\* Under run-once the Stage stands still from load() to the last launch.
Prepared(t) ==
    /\ mode = "run-once" /\ (phase = "schedule" \/ job[t] = "launching") => base = Len(stage)
    /\ Entered(t) => "base" \in DOMAIN work[t]
    /\ mode = "run-once" /\ job[t] \in {"based", "announced"} => OnBase(t)
    /\ "run-once" \in Range(started[t]) => OnBase(t)

\* The inductive invariant of the bases under run-once.
AllPrepared == \A t \in Task : Prepared(t)

\* A task whose worktree keeps its base stays prepared when the Stage grows.
LEMMA StillPrepared ==
    ASSUME Sound, Delivered, AllPrepared, router' = router,
           stage' = stage \/ stage' = tree,
           NEW t \in Task,
           work'[t] = work[t], started'[t] = started[t],
           Entered(t)' => Entered(t),
           mode' = "run-once" /\ job'[t] \in {"based", "announced"} =>
               mode = "run-once" /\ job[t] \in {"based", "announced"},
           mode' = "run-once" /\ (phase' = "schedule" \/ job'[t] = "launching") =>
               base' = Len(stage')
    PROVE  Prepared(t)'
  <1>1. /\ Len(stage') \in Nat /\ Len(stage) \in Nat /\ Len(stage) <= Len(stage')
        /\ \A i \in 1 .. Len(stage) : stage'[i] = stage[i]
    BY DEF Delivered, GitShape
  <1>2. Prepared(t)
    BY DEF AllPrepared
  <1>3. ASSUME OnBase(t) PROVE OnBase(t)'
    <2>1. ASSUME NEW d \in router.dep[t]
          PROVE  \E i \in 1 .. Len(stage') : i <= work[t].base /\ stage'[i] = d
      <3>1. PICK i \in 1 .. Len(stage) : i <= work[t].base /\ stage[i] = d
        BY <1>3, <2>1 DEF OnBase
      <3> QED
        BY <1>1, <3>1
    <2> QED
      BY <1>3, <2>1 DEF OnBase
  <1> QED
    BY <1>2, <1>3 DEF Prepared

\* A worktree made under run-once has what its task depends on: those tasks are
\* integrated, and the base is the whole Stage.
LEMMA EnterPrepared ==
    ASSUME Sound, Delivered, AllPrepared, NEW t \in Required, EnterWorktree(t) PROVE Prepared(t)'
  <1>1. /\ t \in Task /\ job[t] = "launching" /\ job'[t] = "based" /\ DOMAIN work = Task
        /\ UNCHANGED <<router, mode, phase, base, stage, started, event, mapping>>
        /\ work' = [work EXCEPT ![t] = [base |-> base, state |-> "clean"]]
        /\ stage \in Seq(Task)
    BY RouterFacts DEF EnterWorktree, Step, fixedVars, prVars, Sound, Shape, Delivered, GitShape
  <1>2. work'[t].base = base /\ "base" \in DOMAIN work'[t]
    BY <1>1
  <1>3. "run-once" \notin Range(started'[t])
    <2>1. event[t] = <<>>
      BY <1>1 DEF Sound, JobFollowsEvents
    <2>2. Range(<<>>) = {}
      BY DEF Range
    <2> QED
      BY <1>1, <2>1, <2>2 DEF Sound, JobFollowsEvents
  <1>4. ASSUME mode = "run-once" PROVE OnBase(t)'
    <2>1. base = Len(stage)
      BY <1>1, <1>4 DEF AllPrepared, Prepared
    <2>2. ASSUME NEW d \in router.dep[t]
          PROVE  mapping[d].at \in 1 .. Len(stage) /\ stage[mapping[d].at] = d
      <3>1. d \in Task /\ Integrated(d)
        BY <1>1, <2>2, RouterFacts
           DEF Sound, Shape, Delivered, Course, UnderWay, InFlight, NeedsMet
      <3> QED
        BY <3>1 DEF Delivered, Course, Recorded
    <2>3. Len(stage) \in Nat
      BY <1>1
    <2> QED
      BY <1>1, <1>2, <2>1, <2>2, <2>3 DEF OnBase
  <1> QED
    BY <1>1, <1>2, <1>3, <1>4 DEF Prepared, Steps, AllPrepared

\* The start of a Worker leaves the base of its worktree as it was.
LEMMA StartPrepared ==
    ASSUME Sound, Delivered, AllPrepared, NEW t \in Required, StartWorker(t) PROVE Prepared(t)'
  <1>1. /\ t \in Task /\ job[t] = "announced" /\ job'[t] = "working" /\ DOMAIN work = Task
        /\ UNCHANGED <<router, mode, phase, base, stage>>
        /\ work' = [work EXCEPT ![t] = [@ EXCEPT !.state = "given"]]
        /\ started' = [started EXCEPT ![t] = Append(@, mode)]
        /\ started[t] = <<>>
    BY RouterFacts DEF StartWorker, Step, fixedVars, prVars, Sound, Shape, Delivered, GitShape,
                       JobFollowsEvents
  <1>2. "base" \in DOMAIN work[t]
    BY <1>1 DEF AllPrepared, Prepared, Entered
  <1>3. work'[t].base = work[t].base /\ DOMAIN work'[t] = DOMAIN work[t]
    BY <1>1, <1>2
  <1>4. Range(started'[t]) = {mode}
    <2>1. mode \in Mode /\ started \in [Task -> Seq(Mode)]
      BY <1>1 DEF Sound, Shape, PhaseOfJobs
    <2>2. started'[t] = <<mode>>
      BY <1>1, <2>1
    <2> QED
      BY <2>2 DEF Range
  <1>5. mode = "run-once" => OnBase(t)'
    BY <1>1, <1>3 DEF AllPrepared, Prepared, OnBase
  <1> QED
    BY <1>1, <1>2, <1>3, <1>4, <1>5 DEF Prepared, AllPrepared

\* The candidate commit leaves the base of its worktree as it was.
LEMMA CommitPrepared ==
    ASSUME Sound, Delivered, AllPrepared, NEW t \in Required, CommitCandidate(t)
    PROVE  Prepared(t)'
  <1>1. /\ t \in Task /\ job[t] = "verified" /\ job'[t] \in {"committed", "settling"}
        /\ DOMAIN work = Task /\ UNCHANGED <<router, mode, phase, base, stage, started>>
        /\ work' \in {work, [work EXCEPT ![t] = [@ EXCEPT !.state = "committed"]]}
    BY RouterFacts DEF CommitCandidate, Step, Reject, fixedVars, prVars, Sound, Shape, Delivered,
                       GitShape
  <1>2. Prepared(t) /\ "base" \in DOMAIN work[t]
    BY <1>1 DEF AllPrepared, Prepared, Entered, Steps
  <1>3. work'[t].base = work[t].base /\ DOMAIN work'[t] = DOMAIN work[t]
    BY <1>1, <1>2
  <1>4. OnBase(t)' <=> OnBase(t)
    BY <1>1, <1>3 DEF OnBase
  <1> QED
    BY <1>1, <1>2, <1>3, <1>4 DEF Prepared

\* Every step of the work on a task preserves AllPrepared: under run-once nothing is
\* pushed while a launch is on its way.
LEMMA TaskPrepared ==
    ASSUME Sound, Delivered, AllPrepared, NEW t \in Required, Launch(t) \/ Process(t)
    PROVE  AllPrepared'
  <1>t. /\ t \in Task /\ job \in [Task -> JobState] /\ started \in [Task -> Seq(Mode)]
        /\ verdict \in [Task -> {"none", "ready", "blocked", "needs_decision", "uncertain"}]
        /\ DOMAIN work = Task
    BY RouterFacts DEF Sound, Shape, Delivered, GitShape
  <1>1. /\ router' = router /\ UNCHANGED <<mode, base>> /\ phase' \in {phase, "failing"}
        /\ \/ stage' = stage
           \/ stage' = tree /\ job[t] = "picked" /\ Turn(t)
        /\ \A u \in Task \ {t} :
              /\ job'[u] = job[u] \/ job'[u] = "idle"
              /\ verdict'[u] = verdict[u] /\ work'[u] = work[u] /\ started'[u] = started[u]
    <2>1. CASE Launch(t)
      BY <1>t, <2>1 DEF Launch, EnterWorktree, FailModel, FailWorktree, Preflight, Announce,
         FailAnnounce, StartWorker, EndWorker, Step, fixedVars, prVars, gitVars
    <2>2. CASE PushStage(t)
      BY <1>t, <2>2 DEF PushStage, StageArrives, Step, Reject, fixedVars
    <2>3. CASE PublishIntegrated(t) \/ PublishRefusal(t)
      BY <1>t, <2>3
         DEF PublishIntegrated, PublishRefusal, PostFails, Throw, Step, fixedVars, gitVars
    <2>4. CASE ThrowUncertain(t) \/ Refuse(t) \/ AcceptResult(t) \/ Verify(t) \/ CommitCandidate(t)
               \/ MechanicalGate(t) \/ Supervise(t) \/ PushTask(t) \/ CherryPick(t)
      BY <1>t, <2>4 DEF ThrowUncertain, Refuse, AcceptResult, Verify, CommitCandidate,
         MechanicalGate, Supervise, PushTask, CherryPick, Check, Throw, Reject, Step, fixedVars,
         prVars, gitVars
    <2> QED
      BY <2>1, <2>2, <2>3, <2>4 DEF Process
  <1>2. ASSUME NEW u \in Task,
               mode = "run-once" /\ (phase = "schedule" \/ job[u] = "launching")
        PROVE  base = Len(stage')
    <2>1. base = Len(stage)
      BY <1>2 DEF AllPrepared, Prepared
    <2>2. stage' = stage
      BY <1>1, <1>2 DEF Turn, Sound, PhaseOfJobs, Steps
    <2> QED
      BY <2>1, <2>2
  <1>3. ASSUME NEW u \in Task, u # t PROVE Prepared(u)'
    <2>1. Entered(u)' => Entered(u)
      BY <1>1, <1>3 DEF Entered, Steps
    <2> QED
      BY <1>1, <1>2, <1>3, <2>1, StillPrepared
  <1>4. ASSUME work'[t] = work[t], started'[t] = started[t], Entered(t)' => Entered(t),
               job'[t] \in {"launching", "based"} => job'[t] = job[t],
               job'[t] = "announced" => job[t] \in {"based", "announced"}
        PROVE  Prepared(t)'
    BY <1>t, <1>1, <1>2, <1>4, StillPrepared
  <1>5. ASSUME Launch(t) PROVE Prepared(t)'
    <2>1. CASE FailModel(t) \/ FailWorktree(t)
      BY <1>t, <1>4, <2>1 DEF FailModel, FailWorktree, Preflight, Step, Entered, Steps, gitVars
    <2>2. CASE Announce(t) \/ FailAnnounce(t)
      BY <1>t, <1>4, <2>2 DEF Announce, FailAnnounce, Step, Entered, Steps, gitVars
    <2>3. CASE EndWorker(t)
      BY <1>t, <1>4, <2>3 DEF EndWorker, Step, Entered, Steps, gitVars
    <2> QED
      BY <1>5, <2>1, <2>2, <2>3, EnterPrepared, StartPrepared DEF Launch
  <1>6. ASSUME Process(t) PROVE Prepared(t)'
    <2>1. CASE CommitCandidate(t)
      BY <2>1, CommitPrepared
    <2>2. CASE ThrowUncertain(t) \/ PublishIntegrated(t) \/ PublishRefusal(t)
      <3>1. job'[t] = "idle" /\ work' = work /\ started' = started
        BY <1>t, <2>2
           DEF ThrowUncertain, PublishIntegrated, PublishRefusal, PostFails, Throw, Step,
           InFlight, gitVars
      <3> QED
        BY <1>4, <3>1 DEF Entered, Steps
    <2>3. CASE Refuse(t) \/ AcceptResult(t) \/ Verify(t) \/ MechanicalGate(t) \/ Supervise(t)
               \/ PushTask(t) \/ CherryPick(t) \/ PushStage(t)
      <3>1. /\ work' = work /\ started' = started
            /\ job'[t] \in Steps
            /\ job'[t] # "settling" => Entered(t)
        BY <1>t, <2>3 DEF Refuse, AcceptResult, Verify, MechanicalGate, Supervise, PushTask,
           CherryPick, PushStage, Check, Reject, Step, Steps, Entered, gitVars
      <3> QED
        BY <1>4, <3>1 DEF Entered, Steps
    <2> QED
      BY <1>6, <2>1, <2>2, <2>3 DEF Process
  <1> QED
    BY <1>3, <1>5, <1>6 DEF AllPrepared

\* A step after which t is not more entered, or more on its way, than before.
Calm(t) ==
    /\ Entered(t)' => Entered(t)
    /\ mode' = "run-once" /\ job'[t] \in {"based", "announced"} =>
           mode = "run-once" /\ job[t] \in {"based", "announced"}
    /\ mode' = "run-once" /\ (phase' = "schedule" \/ job'[t] = "launching") =>
           \/ base' = Len(stage)
           \/ base' = base /\ mode = "run-once" /\ (phase = "schedule" \/ job[t] = "launching")

\* Such a step preserves AllPrepared.
LEMMA CalmPrepared ==
    ASSUME Sound, Delivered, AllPrepared, UNCHANGED <<router, stage, work, started>>,
           \A t \in Task : Calm(t)
    PROVE  AllPrepared'
  <1> SUFFICES ASSUME NEW t \in Task PROVE Prepared(t)'
    BY DEF AllPrepared
  <1>1. Calm(t) /\ Prepared(t)
    BY DEF AllPrepared
  <1>2. mode' = "run-once" /\ (phase' = "schedule" \/ job'[t] = "launching") => base' = Len(stage')
    BY <1>1 DEF Calm, Prepared
  <1> QED
    BY <1>1, <1>2, StillPrepared DEF Calm

\* Every step preserves AllPrepared.
LEMMA NextPrepared ==
    ASSUME Sound, Delivered, AllPrepared, [Next]_vars PROVE AllPrepared'
  <1>1. ASSUME NEW m \in Mode, Load(m) PROVE AllPrepared'
    <2>1. /\ UNCHANGED <<router, stage, work, started>> /\ base' = Len(stage)
          /\ \A t \in Task : job'[t] = "idle"
      BY <1>1 DEF Load, Loadable, HandoffIsCurrent, fixedVars, gitVars
    <2>2. \A t \in Task : Calm(t)
      BY <2>1 DEF Calm, Entered, Steps
    <2> QED
      BY <2>1, <2>2, CalmPrepared
  <1>2. CASE ScheduleStart \/ ScheduleOnce
    <2>1. /\ UNCHANGED <<router, stage, work, started, mode, base, verdict>>
          /\ phase = "schedule" /\ phase' # "schedule"
          /\ \A t \in Task : job'[t] \in {job[t], "launching"}
      BY <1>2 DEF ScheduleStart, ScheduleOnce, fixedVars, gitVars, Sound, Shape
    <2>2. \A t \in Task : Calm(t)
      BY <2>1 DEF Calm, Entered, Steps
    <2> QED
      BY <2>1, <2>2, CalmPrepared
  <1>3. CASE Collect \/ CollectAll \/ ThrowRejected \/ BatchDone
    <2>1. /\ UNCHANGED <<router, stage, work, started, mode, base, verdict>>
          /\ \A t \in Task : \/ job'[t] \in {job[t], "idle"}
                             \/ job'[t] = "batched" /\ job[t] = "ended"
          /\ phase' = "schedule" => phase = "process"
      BY <1>3 DEF Collect, CollectAll, ThrowRejected, BatchDone, Batch, Throw, fixedVars, gitVars
    <2>2. \A t \in Task : phase = "process" => mode # "run-once"
      BY DEF Sound, PhaseOfJobs
    <2>3. \A t \in Task : Calm(t)
      BY <2>1, <2>2 DEF Calm, Entered, Steps
    <2> QED
      BY <2>1, <2>3, CalmPrepared
  <1>4. CASE Finish \/ ProjectLabels \/ DispatchCandidate \/ ExitFailed \/ Crash
    <2>1. UNCHANGED <<router, stage, work, started>>
      BY <1>4 DEF Finish, ProjectLabels, DispatchCandidate, ExitFailed, Crash, Call, fixedVars,
                  gitVars
    <2>2. \/ mode' = "none" /\ \A t \in Task : job'[t] = "idle"
          \/ UNCHANGED <<mode, base, job, verdict>> /\ phase' # "schedule"
      <3>1. CASE Exit
        BY <3>1 DEF Exit
      <3>2. CASE ~ Exit
        BY <1>4, <3>2 DEF Finish, ProjectLabels, DispatchCandidate, ExitFailed, Crash
      <3> QED
        BY <3>1, <3>2
    <2>3. \A t \in Task : Calm(t)
      BY <2>1, <2>2 DEF Calm, Entered, Steps
    <2> QED
      BY <2>1, <2>3, CalmPrepared
  <1>5. CASE Run
    BY <1>2, <1>3, <1>4, <1>5, TaskPrepared DEF Run
  <1>6. ASSUME RepairWorktree \/ Workflow \/ UNCHANGED vars \/ \E t \in Required : EndOrphan(t)
        PROVE  AllPrepared'
    <2>1. UNCHANGED <<router, stage, work, started, mode, base, job, verdict, phase>>
      BY <1>6
         DEF RepairWorktree, Workflow, AnswerPush, AnswerCandidate, EndOrphan, vars, fixedVars,
                  gitVars, runVars
    <2>2. \A t \in Task : Calm(t)
      BY <2>1 DEF Calm, Entered
    <2> QED
      BY <2>1, <2>2, CalmPrepared
  <1> QED
    BY <1>1, <1>4, <1>5, <1>6 DEF Next

\* Under run-once no Worker is started from a Stage that lacks a prerequisite of its
\* task.
THEOREM RunOnceAlways == Spec => []RunOnceHasPrerequisites
  <1>1. Init => AllPrepared
    <2>1. Range(<<>>) = {}
      BY DEF Range
    <2> QED
      BY <2>1 DEF Init, AllPrepared, Prepared, Entered, Steps
  <1>2. Spec => []AllPrepared
    BY <1>1, NextPrepared, SoundAlways, DeliveredAlways, PTL DEF Spec
  <1>3. ASSUME Sound, Delivered, AllPrepared PROVE RunOnceHasPrerequisites
    <2>1. ASSUME NEW t \in Required, "run-once" \in Range(started[t]), NEW d \in router.dep[t]
          PROVE  d \in Range(SubSeq(stage, 1, work[t].base))
      <3>1. OnBase(t)
        BY <1>3, <2>1, RouterFacts DEF AllPrepared, Prepared, Sound, Shape
      <3>2. PICK i \in 1 .. Len(stage) : i <= work[t].base /\ stage[i] = d
        BY <2>1, <3>1 DEF OnBase
      <3>3. /\ i \in 1 .. work[t].base
            /\ SubSeq(stage, 1, work[t].base) = [j \in 1 .. work[t].base |-> stage[j]]
        BY <3>1, <3>2 DEF OnBase
      <3> QED
        BY <3>2, <3>3 DEF Range
    <2> QED
      BY <2>1 DEF RunOnceHasPrerequisites
  <1> QED
    BY <1>2, <1>3, SoundAlways, DeliveredAlways, PTL

-----------------------------------------------------------------------------
(* Types. *)

LabelName == {"codex-dispatch-ready", "codex-stage-candidate", "chat-review"}

WorkRecord == [base : StageSha, state : {"clean", "given", "committed"}]

Entry == [kind : {"push", "candidate"}, head : StageSha, checked : BOOLEAN]

\* What others see of the Stage, besides its commits.
SeenTypes ==
    /\ handoff \in StageSha /\ label \subseteq LabelName
    /\ candidate \subseteq StageSha /\ verified \subseteq StageSha
    /\ sent \in Nat
    /\ workflow \in Seq(Entry) /\ Len(workflow) <= 2

\* What there is of each task.
WorkTypes ==
    /\ mapping \in [Task -> [source : StageSha, at : StageSha] \cup {None}]
    /\ branch \in [Task -> StageSha \cup {None}]
    /\ work \in [Task -> WorkRecord \cup {None}]

\* What a run remembers; a task it has loaded is not dispatched.
RunTypes ==
    /\ trouble \in Fault /\ clean \in BOOLEAN
    /\ mode \in Mode \cup {"none"} /\ base \in StageSha
    /\ status \in [Task -> {"not_started", "running", "integrated", "blocked", "needs_decision"}]
    /\ runs \in 0 .. MaxRun

\* The work on t has got past the check of its worktree.
Based(t) ==
    \/ job[t] \in {"based", "announced", "working"} \cup (Steps \ {"settling"})
    \/ job[t] \in {"ended", "batched"} /\ verdict[t] = "ready"

\* It has a worktree then.
BasedHasWork == \A t \in Task : Based(t) => work[t] \in WorkRecord

Typed == SeenTypes /\ WorkTypes /\ RunTypes /\ BasedHasWork

\* A Stage without a task in it twice is not longer than there are tasks.
LEMMA ShaOfStage ==
    ASSUME NEW s \in Seq(Task), \A i, j \in 1 .. Len(s) : s[i] = s[j] => i = j
    PROVE  Len(s) \in StageSha
  <1>1. Len(s) \in Nat /\ s \in [1 .. Len(s) -> Task]
    OBVIOUS
  <1>2. s \in Injection(1 .. Len(s), Task)
    BY <1>1 DEF Injection, IsInjective
  <1>3. Cardinality(1 .. Len(s)) <= Cardinality(Task)
    BY <1>2, FS_Injection, BoundAssumption
  <1>4. Cardinality(1 .. Len(s)) = Len(s)
    BY <1>1, FS_Interval
  <1>5. Cardinality(Task) \in Nat
    BY FS_CardinalityType, BoundAssumption
  <1> QED
    BY <1>1, <1>3, <1>4, <1>5 DEF StageSha

LEMMA ShaOfBranches ==
    ASSUME NEW s \in Seq(Task), NEW whole \in Seq(Task), Len(s) <= Len(whole),
           \A i \in 1 .. Len(s) : whole[i] = s[i],
           \A i, j \in 1 .. Len(whole) : whole[i] = whole[j] => i = j
    PROVE  Len(s) \in StageSha /\ Len(whole) \in StageSha
  <1>1. \A i, j \in 1 .. Len(s) : s[i] = s[j] => i = j
    OBVIOUS
  <1> QED
    BY <1>1, ShaOfStage

\* The concurrency group keeps two events.
LEMMA EnqueueType ==
    ASSUME workflow \in Seq(Entry), Len(workflow) <= 2, NEW kind \in {"push", "candidate"},
           Len(stage') \in StageSha, Enqueue(kind)
    PROVE  workflow' \in Seq(Entry) /\ Len(workflow') <= 2
  <1> DEFINE new == [kind |-> kind, head |-> Len(stage'), checked |-> FALSE]
  <1>1. new \in Entry
    BY DEF Entry
  <1>2. workflow' = IF Len(workflow) < 2 THEN Append(workflow, new) ELSE <<workflow[1], new>>
    BY DEF Enqueue
  <1> HIDE DEF new
  <1>3. CASE Len(workflow) < 2
    BY <1>1, <1>2, <1>3
  <1>4. CASE ~ (Len(workflow) < 2)
    <2>1. workflow[1] \in Entry
      BY <1>4
    <2> QED
      BY <1>1, <1>2, <1>4, <2>1
  <1> QED
    BY <1>3, <1>4

LEMMA SeenStep ==
    ASSUME Delivered, Delivered', SeenTypes, [Next]_vars PROVE SeenTypes'
  <1>s. /\ Len(stage) \in StageSha /\ Len(tree) \in StageSha
        /\ Len(stage') \in StageSha /\ Len(tree') \in StageSha
    BY ShaOfBranches DEF Delivered, GitShape
  <1>1. CASE UNCHANGED <<handoff, label, candidate, verified, sent, workflow>>
    BY <1>1 DEF SeenTypes
  <1>2. ASSUME NEW t \in Required, PushStage(t) PROVE SeenTypes'
    <2>1. UNCHANGED <<handoff, label, candidate, verified, sent>>
      BY <1>2 DEF PushStage
    <2>2. UNCHANGED workflow \/ Enqueue("push")
      BY <1>2 DEF PushStage, StageArrives
    <2> QED
      BY <1>s, <2>1, <2>2, EnqueueType DEF SeenTypes
  <1>3. CASE Finish
    <2>1. UNCHANGED <<handoff, label, verified, sent, workflow>>
          /\ candidate' \in {candidate, candidate \cup {Len(tree)}}
      BY <1>3 DEF Finish
    <2> QED
      BY <1>s, <2>1 DEF SeenTypes
  <1>4. CASE ProjectLabels
    <2>1. UNCHANGED <<handoff, candidate, verified, sent, workflow>>
          /\ label' \in {label, CandidateLabels}
      BY <1>4 DEF ProjectLabels
    <2> QED
      BY <2>1 DEF SeenTypes, CandidateLabels, LabelName
  <1>5. CASE DispatchCandidate
    <2>1. UNCHANGED <<handoff, label, candidate, verified>>
          /\ (UNCHANGED <<sent, workflow>> \/ (sent' = sent + 1 /\ Enqueue("candidate")))
      BY <1>5 DEF DispatchCandidate, Call
    <2> QED
      BY <1>s, <2>1, EnqueueType DEF SeenTypes
  <1>6. CASE AnswerPush
    <2>1. PICK run \in Entry : run = workflow[1] /\ workflow # <<>>
      BY <1>6 DEF AnswerPush, SeenTypes
    <2>2. UNCHANGED <<candidate, verified, sent>>
          /\ (handoff' = handoff \/ handoff' = run.head)
          /\ label' \subseteq label \cup {"codex-dispatch-ready"}
          /\ (workflow' = Tail(workflow) \/ workflow' = [workflow EXCEPT ![1].checked = TRUE])
      BY <1>6, <2>1 DEF AnswerPush
    <2>3. workflow' \in Seq(Entry) /\ Len(workflow') <= 2
      <3>1. CASE workflow' = Tail(workflow)
        BY <2>1, <3>1 DEF SeenTypes
      <3>2. CASE workflow' = [workflow EXCEPT ![1].checked = TRUE]
        <4>1. [run EXCEPT !.checked = TRUE] \in Entry
          BY DEF Entry
        <4>2. workflow' = [workflow EXCEPT ![1] = [run EXCEPT !.checked = TRUE]]
          BY <2>1, <3>2
        <4> QED
          BY <4>1, <4>2, <2>1 DEF SeenTypes
      <3> QED
        BY <2>2, <3>1, <3>2
    <2>4. run.head \in StageSha
      BY <2>1 DEF Entry
    <2> QED
      BY <2>2, <2>3, <2>4 DEF SeenTypes, LabelName
  <1>7. CASE AnswerCandidate
    <2>0. PICK run \in Entry : run = workflow[1] /\ workflow # <<>>
      BY <1>7 DEF AnswerCandidate, SeenTypes
    <2>1. /\ workflow' = Tail(workflow) /\ run.head \in StageSha
          /\ UNCHANGED <<handoff, candidate, sent>>
          /\ verified' \in {verified, verified \cup {run.head}}
          /\ label' \subseteq label \cup {"chat-review"}
      BY <1>7, <2>0 DEF AnswerCandidate, Entry
    <2>2. workflow' \in Seq(Entry) /\ Len(workflow') <= 2
      BY <2>0, <2>1 DEF SeenTypes
    <2>3. verified' \subseteq StageSha /\ label' \subseteq LabelName
      BY <2>1 DEF SeenTypes, LabelName
    <2> QED
      BY <2>1, <2>2, <2>3 DEF SeenTypes
  <1>8. ASSUME NEW t \in Required, Launch(t) \/ Process(t) PROVE SeenTypes'
    <2>1. CASE PushStage(t)
      BY <1>2, <2>1
    <2>2. CASE ~ PushStage(t)
      BY <1>1, <1>8, <2>2
      DEF Launch, EnterWorktree, FailModel, FailWorktree, Preflight, Announce,
          FailAnnounce, StartWorker, EndWorker, Process, ThrowUncertain, Refuse, AcceptResult,
          Verify, CommitCandidate, MechanicalGate, Supervise, PushTask, CherryPick,
          PublishIntegrated, PublishRefusal, Check, prVars
    <2> QED
      BY <2>1, <2>2
  <1>9. CASE Run
    BY <1>1, <1>3, <1>4, <1>5, <1>8, <1>9
    DEF Run, ScheduleStart, ScheduleOnce, Collect, CollectAll, ThrowRejected, BatchDone,
        ExitFailed, prVars
  <1> QED
    BY <1>1, <1>6, <1>7, <1>9
    DEF Next, Load, Crash, RepairWorktree, EndOrphan, Workflow, vars, prVars

\* The work on a task gets past the check of its worktree by that check alone.
LEMMA BasedStep ==
    ASSUME Sound, [Next]_vars, NEW t \in Task, Based(t)', ~ Based(t)
    PROVE  t \in Required /\ EnterWorktree(t)
  <1>t. job \in [Task -> JobState] /\ Required \subseteq Task /\ DOMAIN verdict = Task
    BY RouterFacts DEF Sound, Shape
  <1>1. CASE job'[t] = "idle" \/ job'[t] = "launching" \/ (job'[t] = job[t] /\ verdict' = verdict)
             \/ (job[t] = "ended" /\ job'[t] = "batched" /\ verdict' = verdict)
    BY <1>1 DEF Based, Steps
  <1>2. ASSUME NEW u \in Required, Launch(u) \/ Process(u), u # t
        PROVE  job'[t] = "idle" \/ (job'[t] = job[t] /\ verdict'[t] = verdict[t])
    BY <1>2, <1>t DEF Launch, EnterWorktree, FailModel, FailWorktree, Preflight, Announce,
          FailAnnounce, StartWorker, EndWorker, Process, ThrowUncertain, Refuse, AcceptResult,
          Verify, CommitCandidate, MechanicalGate, Supervise, PushTask, CherryPick, PushStage,
          PublishIntegrated, PublishRefusal, Check, Step, Reject, Throw, PostFails
  <1>3. CASE t \in Required /\ Launch(t)
    BY <1>3, <1>t DEF Launch, FailModel, FailWorktree, Preflight, Announce,
          FailAnnounce, StartWorker, EndWorker, Step, Based, Steps
  <1>4. CASE t \in Required /\ Process(t)
    BY <1>4, <1>t DEF Process, ThrowUncertain, Refuse, AcceptResult,
          Verify, CommitCandidate, MechanicalGate, Supervise, PushTask, CherryPick, PushStage,
          PublishIntegrated, PublishRefusal, Check, Step, Reject, Throw, PostFails, Based, Steps
  <1>5. CASE \E u \in Required : Launch(u) \/ Process(u)
    BY <1>2, <1>3, <1>4, <1>5 DEF Based, Steps
  <1>s. ScheduleStart \/ ScheduleOnce =>
           verdict' = verdict /\ (job'[t] = "launching" \/ job'[t] = job[t])
    BY <1>t DEF ScheduleStart, ScheduleOnce
  <1>6. CASE Run
    BY <1>1, <1>5, <1>6, <1>s, <1>t
    DEF Run, Collect, CollectAll, Batch, ThrowRejected, Throw,
        BatchDone, ExitFailed, Exit, Finish, ProjectLabels, DispatchCandidate
  <1> QED
    BY <1>1, <1>6
    DEF Next, Load, Crash, Exit, RepairWorktree, EndOrphan, Workflow, AnswerPush, AnswerCandidate,
        vars, runVars

\* A worktree stays one.
LEMMA WorkStep ==
    ASSUME Sound, Delivered, Delivered', Typed, [Next]_vars
    PROVE  /\ work' \in [Task -> WorkRecord \cup {None}]
           /\ \A t \in Task : work[t] \in WorkRecord => work'[t] \in WorkRecord
           /\ \A t \in Required : EnterWorktree(t) => work'[t] \in WorkRecord
  <1>t. work \in [Task -> WorkRecord \cup {None}] /\ base \in StageSha /\ Required \subseteq Task
    BY RouterFacts DEF Sound, Shape, Typed, WorkTypes, RunTypes
  <1>1. ASSUME NEW t \in Required, EnterWorktree(t)
        PROVE  work' = [work EXCEPT ![t] = [base |-> base, state |-> "clean"]]
               /\ [base |-> base, state |-> "clean"] \in WorkRecord
    BY <1>1, <1>t DEF EnterWorktree, WorkRecord
  <1>2. ASSUME NEW t \in Required, StartWorker(t) \/ CommitCandidate(t)
        PROVE  work' = work \/ \E r \in WorkRecord : work' = [work EXCEPT ![t] = r]
    <2>1. work[t] \in WorkRecord
      BY <1>2, <1>t DEF Typed, BasedHasWork, Based, StartWorker, CommitCandidate, Step, Steps
    <2>2. [work[t] EXCEPT !.state = "given"] \in WorkRecord
          /\ [work[t] EXCEPT !.state = "committed"] \in WorkRecord
      BY <2>1 DEF WorkRecord
    <2>3. \/ work' = work
          \/ work' = [work EXCEPT ![t] = [work[t] EXCEPT !.state = "given"]]
          \/ work' = [work EXCEPT ![t] = [work[t] EXCEPT !.state = "committed"]]
      BY <1>2 DEF StartWorker, CommitCandidate
    <2> QED
      BY <2>2, <2>3
  <1>3. \/ work' = work
        \/ \E t \in Required : EnterWorktree(t) \/ StartWorker(t) \/ CommitCandidate(t)
    BY DEF Next, Run, Launch, FailModel, FailWorktree, Preflight, Announce,
          FailAnnounce, EndWorker, Process, ThrowUncertain, Refuse, AcceptResult,
          Verify, MechanicalGate, Supervise, PushTask, CherryPick, PushStage,
          PublishIntegrated, PublishRefusal, Check, ScheduleStart, ScheduleOnce, Collect,
          CollectAll, ThrowRejected, BatchDone, ExitFailed, Finish, ProjectLabels,
          DispatchCandidate, Load, Crash, RepairWorktree, EndOrphan, Workflow, AnswerPush,
          AnswerCandidate, vars, gitVars
  <1>4. work' = work \/ \E t \in Required, r \in WorkRecord : work' = [work EXCEPT ![t] = r]
    BY <1>1, <1>2, <1>3
  <1>5. /\ work' \in [Task -> WorkRecord \cup {None}]
        /\ \A t \in Task : work[t] \in WorkRecord => work'[t] \in WorkRecord
    BY <1>4, <1>t
  <1> QED
    BY <1>1, <1>5, <1>t

\* What is recorded of a task, and where its branch points, is where its work starts.
LEMMA WorkTypesStep ==
    ASSUME Sound, Delivered, Delivered', Typed, [Next]_vars
    PROVE  WorkTypes' /\ BasedHasWork'
  <1>t. /\ mapping \in [Task -> [source : StageSha, at : StageSha] \cup {None}]
        /\ branch \in [Task -> StageSha \cup {None}]
        /\ Required \subseteq Task
    BY RouterFacts DEF Sound, Shape, Typed, WorkTypes
  <1>s. Len(tree) \in StageSha
    BY ShaOfBranches DEF Delivered, GitShape
  <1>w. ASSUME NEW t \in Required, job[t] \in {"approved", "staged"} PROVE work[t].base \in StageSha
    BY <1>w, <1>t DEF Typed, BasedHasWork, Based, Steps, WorkRecord
  <1>1. branch' \in [Task -> StageSha \cup {None}]
    <2>1. ASSUME NEW t \in Required, PushTask(t) PROVE branch' \in [Task -> StageSha \cup {None}]
      <3>1. job[t] = "approved"
            /\ (branch' = branch \/ branch' = [branch EXCEPT ![t] = work[t].base])
        BY <2>1 DEF PushTask
      <3> QED
        BY <1>t, <1>w, <3>1
    <2>2. branch' = branch \/ \E t \in Required : PushTask(t)
      BY DEF Next, Run, Launch, EnterWorktree, FailModel, FailWorktree, Preflight, Announce,
          FailAnnounce, StartWorker, EndWorker, Process, ThrowUncertain, Refuse, AcceptResult,
          Verify, CommitCandidate, MechanicalGate, Supervise, CherryPick, PushStage,
          PublishIntegrated, PublishRefusal, Check, ScheduleStart, ScheduleOnce, Collect,
          CollectAll, ThrowRejected, BatchDone, ExitFailed, Finish, ProjectLabels,
          DispatchCandidate, Load, Crash, RepairWorktree, EndOrphan, Workflow, AnswerPush,
          AnswerCandidate, vars, gitVars
    <2> QED
      BY <1>t, <2>1, <2>2
  <1>2. mapping' \in [Task -> [source : StageSha, at : StageSha] \cup {None}]
    <2>1. ASSUME NEW t \in Required, PublishIntegrated(t)
          PROVE  mapping' \in [Task -> [source : StageSha, at : StageSha] \cup {None}]
      <3>1. /\ job[t] = "staged"
            /\ \/ mapping' = mapping
               \/ mapping' = [mapping EXCEPT ![t] = [source |-> work[t].base, at |-> Len(tree)]]
        BY <2>1 DEF PublishIntegrated
      <3> QED
        BY <1>s, <1>t, <1>w, <3>1
    <2>2. mapping' = mapping \/ \E t \in Required : PublishIntegrated(t)
      BY DEF Next, Run, Launch, EnterWorktree, FailModel, FailWorktree, Preflight, Announce,
          FailAnnounce, StartWorker, EndWorker, Process, ThrowUncertain, Refuse, AcceptResult,
          Verify, CommitCandidate, MechanicalGate, Supervise, PushTask, CherryPick, PushStage,
          PublishRefusal, Check, ScheduleStart, ScheduleOnce, Collect,
          CollectAll, ThrowRejected, BatchDone, ExitFailed, Finish, ProjectLabels,
          DispatchCandidate, Load, Crash, RepairWorktree, EndOrphan, Workflow, AnswerPush,
          AnswerCandidate, vars, prVars
    <2> QED
      BY <1>t, <2>1, <2>2
  <1>3. BasedHasWork'
    BY WorkStep, BasedStep DEF Typed, BasedHasWork
  <1> QED
    BY <1>1, <1>2, <1>3, WorkStep DEF WorkTypes

LEMMA RunTypesStep ==
    ASSUME Sound, Delivered, Typed, [Next]_vars PROVE RunTypes'
  <1> DEFINE Known == {"not_started", "running", "integrated", "blocked", "needs_decision"}
  <1>t. /\ trouble \in Fault /\ clean \in BOOLEAN
        /\ mode \in Mode \cup {"none"} /\ base \in StageSha
        /\ status \in [Task -> Known]
        /\ runs \in 0 .. MaxRun /\ handoff \in StageSha /\ 0 \in StageSha
    BY FS_CardinalityType, BoundAssumption DEF Typed, RunTypes, SeenTypes, StageSha
  <1>1. ASSUME NEW m \in Mode, Load(m) PROVE RunTypes'
    <2>1. \A t \in Task : event[t] \in EventForm /\ LatestState(t) # "dispatched"
      BY <1>1, LatestOfForm DEF Load, Loadable, LatestState, Sound, Shape, EventForm
    <2>2. \A t \in Task : LatestState(t) \in Known
      BY <2>1, LatestOfForm DEF LatestState
    <2>3. status' \in [Task -> Known]
      BY <1>1, <2>2 DEF Load
    <2> QED
      BY <1>1, <1>t, <2>3, BoundAssumption DEF Load, RunTypes, fixedVars, gitVars
  <1>2. trouble' = trouble
    BY DEF Next, Run, Launch, EnterWorktree, FailModel, FailWorktree, Preflight, Announce,
          FailAnnounce, StartWorker, EndWorker, Process, ThrowUncertain, Refuse, AcceptResult,
          Verify, CommitCandidate, MechanicalGate, Supervise, PushTask, CherryPick, PushStage,
          PublishIntegrated, PublishRefusal, Check, ScheduleStart, ScheduleOnce, Collect,
          CollectAll, ThrowRejected, BatchDone, ExitFailed, Finish, ProjectLabels,
          DispatchCandidate, Load, Crash, RepairWorktree, EndOrphan, Workflow, AnswerPush,
          AnswerCandidate, vars, fixedVars
  <1>3. clean' \in BOOLEAN
    BY <1>t DEF Next, Run, Launch, EnterWorktree, FailModel, FailWorktree, Preflight, Announce,
          FailAnnounce, StartWorker, EndWorker, Process, ThrowUncertain, Refuse, AcceptResult,
          Verify, CommitCandidate, MechanicalGate, Supervise, PushTask, CherryPick, PushStage,
          PublishIntegrated, PublishRefusal, Check, ScheduleStart, ScheduleOnce, Collect,
          CollectAll, ThrowRejected, BatchDone, ExitFailed, Finish, ProjectLabels,
          DispatchCandidate, Load, Crash, RepairWorktree, EndOrphan, Workflow, AnswerPush,
          AnswerCandidate, vars, gitVars
  <1>4. ASSUME ~ (\E m \in Mode : Load(m))
        PROVE  runs' = runs /\ (UNCHANGED <<mode, base>> \/ (mode' = "none" /\ base' = 0))
    BY <1>4 DEF Next, Run, Launch, EnterWorktree, FailModel, FailWorktree, Preflight, Announce,
          FailAnnounce, StartWorker, EndWorker, Process, ThrowUncertain, Refuse, AcceptResult,
          Verify, CommitCandidate, MechanicalGate, Supervise, PushTask, CherryPick, PushStage,
          PublishIntegrated, PublishRefusal, Check, ScheduleStart, ScheduleOnce, Collect,
          CollectAll, ThrowRejected, BatchDone, ExitFailed, Finish, ProjectLabels,
          DispatchCandidate, Crash, RepairWorktree, EndOrphan, Workflow, AnswerPush,
          AnswerCandidate, vars, runVars, Exit
  <1>5. ASSUME NEW t \in Required, Launch(t) \/ Process(t)
        PROVE  status' = status \/ \E s \in Known : status' = [status EXCEPT ![t] = s]
    <2>1. CASE PublishRefusal(t)
      <3>1. verdict[t] \in Refusal \/ job[t] # "settling"
        BY RouterFacts DEF Sound, Shape, JobFollowsEvents
      <3> QED
        BY <2>1, <3>1 DEF PublishRefusal, Step, PostFails, Refusal
    <2>2. CASE ~ PublishRefusal(t)
      BY <1>5, <2>2 DEF Launch, EnterWorktree, FailModel, FailWorktree, Preflight, Announce,
          FailAnnounce, StartWorker, EndWorker, Process, ThrowUncertain, Refuse, AcceptResult,
          Verify, CommitCandidate, MechanicalGate, Supervise, PushTask, CherryPick, PushStage,
          PublishIntegrated, Check
    <2> QED
      BY <2>1, <2>2
  <1>7. ASSUME ~ (\E m \in Mode : Load(m)), ~ (\E t \in Required : Launch(t) \/ Process(t))
        PROVE  status' \in [Task -> Known]
    <2>1. ScheduleStart => status' \in [Task -> Known]
      BY <1>t DEF ScheduleStart
    <2> QED
      BY <1>7, <1>t, <2>1 DEF Next, Run, ScheduleOnce, Collect,
          CollectAll, ThrowRejected, BatchDone, ExitFailed, Finish, ProjectLabels,
          DispatchCandidate, Crash, RepairWorktree, EndOrphan, Workflow, AnswerPush,
          AnswerCandidate, vars, runVars, Exit
  <1>8. CASE ~ (\E m \in Mode : Load(m))
    <2>1. status' \in [Task -> Known]
      BY <1>t, <1>5, <1>7, <1>8
    <2> QED
      BY <1>t, <1>2, <1>3, <1>4, <1>8, <2>1 DEF RunTypes
  <1> QED
    BY <1>1, <1>8

\* The types hold in every reachable state; that a Stage SHA stays below the number of
\* tasks is that no task is cherry-picked twice.
THEOREM TypedAlways == Spec => []Typed
<1>1. Init => Typed
  <2> SUFFICES ASSUME Init PROVE Typed
    OBVIOUS
  <2>1. 0 \in StageSha
    BY FS_CardinalityType, BoundAssumption DEF StageSha
  <2> QED
    BY <2>1, BoundAssumption
    DEF Init, Typed, SeenTypes, WorkTypes, RunTypes, BasedHasWork, Based, LabelName, Steps
<1>2. Sound /\ Delivered /\ Delivered' /\ Typed /\ [Next]_vars => Typed'
  BY SeenStep, WorkTypesStep, RunTypesStep DEF Typed
<1>3. QED
  BY <1>1, <1>2, SoundAlways, DeliveredAlways, PTL DEF Spec

\* Every variable has its type, for every set of tasks: a task has at most two events,
\* and the Stage no more commits than tasks.
THEOREM TypesAlways == Spec => []BridgeTypeOK
<1>1. Sound /\ Delivered /\ Typed => BridgeTypeOK
  <2> SUFFICES ASSUME Sound, Delivered, Typed PROVE BridgeTypeOK
    OBVIOUS
  <2>1. ASSUME NEW t \in Task PROVE event[t] \in Seq(EventStatus) /\ Len(event[t]) <= 2
    <3>1. event[t] \in EventForm
      BY DEF Sound, Shape
    <3>2. PICK s \in End : event[t] \in {<<>>, <<D>>, <<s>>, <<D, s>>}
      BY <3>1 DEF EventForm, End
    <3>3. s \in EventStatus /\ D \in EventStatus
      BY DEF End, EventStatus, D
    <3>4. /\ <<>> \in Seq(EventStatus) /\ Len(<<>>) <= 2
          /\ <<D>> \in Seq(EventStatus) /\ Len(<<D>>) <= 2
          /\ <<s>> \in Seq(EventStatus) /\ Len(<<s>>) <= 2
          /\ <<D, s>> \in Seq(EventStatus) /\ Len(<<D, s>>) <= 2
      BY <3>3
    <3>5. \A e \in {<<>>, <<D>>, <<s>>, <<D, s>>} : e \in Seq(EventStatus) /\ Len(e) <= 2
      BY <3>4, Zenon
    <3> QED
      BY <3>2, <3>5, Zenon
  <2>2. \A i \in DOMAIN workflow : workflow[i] \in Entry
    BY DEF Typed, SeenTypes
  <2>3. alive \subseteq Task
    BY RouterFacts DEF Sound, Shape
  <2> QED
    BY <2>1, <2>2, <2>3
    DEF BridgeTypeOK, Sound, Shape, Delivered, GitShape, Typed, SeenTypes, WorkTypes, RunTypes,
        LabelName, WorkRecord, Entry, JobState, PhaseName
<1>2. QED
  BY <1>1, SoundAlways, DeliveredAlways, TypedAlways, PTL
=============================================================================
