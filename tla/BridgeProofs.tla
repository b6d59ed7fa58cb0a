----------------------------- MODULE BridgeProofs -----------------------------
(***************************************************************************)
(* Proofs about the Local Codex Bridge, for every set of tasks, every      *)
(* Router Contract, every set of troubles and any number of runs: one      *)
(* Worker for each dispatch, never two Workers on a common path, and no    *)
(* task dispatched and forgotten by a run that gets to its end.            *)
(*                                                                         *)
(* The inductive invariant is Sound.  None of the three properties is      *)
(* inductive: that a task is dispatched at most once rests on what the     *)
(* run at hand remembers of it (its job) agreeing with what the pull       *)
(* request says (its events), at every point where the run can stop.       *)
(***************************************************************************)
EXTENDS Bridge, SequenceTheorems, TLAPS

\* The event that precedes a Worker.
D == "task_dispatched"

\* The events a task ends in.
End == {"task_integrated", "blocked", "needs_decision"}

\* The events of a task that is not integrated, which are also verdicts.
Refusal == {"blocked", "needs_decision"}

\* Where the work of a run on a task may stand.
JobState == InFlight \cup Steps \cup {"idle", "ended", "rejected", "batched"}

\* Where run() may stand.
PhaseName == {"off", "schedule", "wait", "process", "drain", "settle", "finish",
              "commented", "refound", "labelled", "relabelled", "failing"}

\* The events of a task: at most its dispatch and its end, in this order.
EventForm == {<<>>, <<D>>} \cup {<<s>> : s \in End} \cup {<<D, s>> : s \in End}

\* Types, as far as the proofs need them; a task the Stage does not ask for is left
\* alone.
Shape ==
    /\ router \in Router
    /\ event \in [Task -> EventForm]
    /\ job \in [Task -> JobState]
    /\ verdict \in [Task -> {"none", "ready", "blocked", "needs_decision", "uncertain"}]
    /\ status \in [Task -> {"not_started", "running", "dispatched", "integrated", "blocked",
                            "needs_decision"}]
    /\ started \in [Task -> Seq(Mode)]
    /\ phase # "off" => mode \in Mode
    /\ alive \subseteq Required
    /\ phase \in PhaseName
    /\ \A t \in Task : t \notin Required => job[t] = "idle" /\ event[t] = <<>>

\* Tasks with a Worker, or with a launch that has not been looked at.
Attended == InFlight \cup {"ended", "rejected"}

\* What the work on a task means for its events: there is none before Announce,
\* the dispatch and nothing else while the task is worked on, and a Worker was
\* started at most once and only for a dispatch.  A Worker that is alive is the
\* one of its run, or has outlived it.
JobFollowsEvents(t) ==
    /\ job[t] \in {"launching", "based"} => event[t] = <<>>
    /\ job[t] = "announced" => event[t] = <<D>> /\ started[t] = <<>>
    /\ job[t] \in {"working"} \cup (Steps \ {"settling"}) => event[t] = <<D>>
    /\ job[t] \in {"ended", "batched"} =>
          event[t] = <<D>> \/ (event[t] = <<>> /\ verdict[t] \in Refusal)
    /\ job[t] = "settling" => event[t] \in {<<>>, <<D>>} /\ verdict[t] \in Refusal
    /\ job[t] = "rejected" => event[t] \in {<<>>, <<D>>}
    /\ started[t] # <<>> => Len(started[t]) = 1 /\ D \in Range(event[t])
    /\ t \in alive => event[t] = <<D>> /\ (job[t] = "working" \/ phase = "off")

\* What the work on a task means for run(): a task that has not started is
\* untouched, a dispatched one is in the hands of the run as long as no error has
\* left it, and nothing is under way where everything was awaited.
PhaseOfJobs(t) ==
    /\ phase = "off" => job[t] = "idle"
    /\ phase \in {"schedule", "wait", "process"} /\ status[t] = "not_started" =>
          event[t] = <<>> /\ job[t] = "idle"
    /\ phase = "schedule" /\ mode = "run-once" => job[t] = "idle"
    /\ phase \in {"wait", "process"} => mode # "run-once"
    /\ event[t] = <<D>> /\ phase \notin {"off", "failing"} =>
          job[t] \notin {"idle", "launching", "based"}
    /\ phase \in {"finish", "commented", "refound", "labelled", "relabelled"} =>
          job[t] = "idle"
    /\ phase \in {"schedule", "wait", "drain"} => job[t] \notin Steps \cup {"batched"}
    /\ phase = "settle" => job[t] \in Steps \cup {"idle", "batched"}

\* Attended tasks do not overlap, and neither do the Workers that are alive.
Apart ==
    /\ \A t, u \in Task : t # u /\ job[t] \in Attended /\ job[u] \in Attended => ~ Overlap(t, u)
    /\ OverlapIsSerial

\* The inductive invariant.
Sound ==
    /\ Shape
    /\ \A t \in Task : JobFollowsEvents(t) /\ PhaseOfJobs(t)
    /\ Apart

-----------------------------------------------------------------------------
\* What normalization guarantees of the Router Contract at hand.
LEMMA RouterFacts ==
    ASSUME router \in Router
    PROVE  /\ Required \subseteq Task /\ Required \subseteq Nat
           /\ router.dep \in [Task -> SUBSET Task]
           /\ \A t \in Required : router.dep[t] \subseteq Required
           /\ \A t, u : Overlap(t, u) => t \in Required /\ u \in Required /\ Overlap(u, t)
  BY RouterAssumption DEF Normalized, Required, Overlap

\* latestTaskStates tells the possible events of a task apart.
LEMMA LatestOfForm ==
    ASSUME NEW e \in EventForm
    PROVE  /\ e = <<>> <=> LatestOf(e) = "not_started"
           /\ e = <<D>> <=> LatestOf(e) = "dispatched"
           /\ e \in {<<"task_integrated">>, <<D, "task_integrated">>}
                 <=> LatestOf(e) = "integrated"
           /\ LatestOf(e) \in {"not_started", "dispatched", "integrated", "blocked",
                              "needs_decision"}
           /\ \A s \in Refusal : e \in {<<s>>, <<D, s>>} <=> LatestOf(e) = s
  <1>1. CASE e = <<>>
    BY <1>1 DEF LatestOf, D, Refusal
  <1>2. CASE e = <<D>>
    BY <1>2 DEF LatestOf, D, Refusal
  <1>3. ASSUME NEW s \in End, e = <<s>>
        PROVE  LatestOf(e) = IF s = "task_integrated" THEN "integrated" ELSE s
    BY <1>3 DEF LatestOf, End
  <1>4. ASSUME NEW s \in End, e = <<D, s>>
        PROVE  LatestOf(e) = IF s = "task_integrated" THEN "integrated" ELSE s
    BY <1>4 DEF LatestOf, End, D
  <1> QED
    BY <1>1, <1>2, <1>3, <1>4 DEF EventForm, End, D, Refusal

\* What publishEvent does to the events of a task whose end is not published: it
\* adds the event, or finds the dispatch there already.
LEMMA PostEffect ==
    ASSUME NEW t \in Task, NEW s, Post(t, s), event \in [Task -> EventForm],
           \/ s = D /\ event[t] \in {<<>>, <<D>>}
           \/ s \in End /\ event[t] \in {<<>>, <<D>>}
    PROVE  /\ event' \in [Task -> EventForm]
           /\ \A u \in Task \ {t} : event'[u] = event[u]
           /\ s = D => event'[t] = <<D>>
           /\ s \in End => event'[t] = IF event[t] = <<>> THEN <<s>> ELSE <<D, s>>
           /\ \A u \in Task : Range(event[u]) \subseteq Range(event'[u])
  <1>1. event' = IF s \in Range(event[t]) THEN event ELSE [event EXCEPT ![t] = Append(@, s)]
    BY DEF Post
  <1>2. CASE event[t] = <<>>
    <2>1. Range(event[t]) = {}
      BY <1>2 DEF Range
    <2>2. event' = [event EXCEPT ![t] = <<s>>]
      BY <1>1, <1>2, <2>1
    <2> QED
      BY <2>1, <2>2, <1>2 DEF EventForm
  <1>3. CASE event[t] = <<D>> /\ s = D
    <2>1. D \in Range(event[t])
      BY <1>3 DEF Range
    <2> QED
      BY <1>1, <1>3, <2>1 DEF EventForm, End, D
  <1>4. CASE event[t] = <<D>> /\ s \in End
    <2>1. Range(event[t]) = {D}
      BY <1>4 DEF Range
    <2>2. event' = [event EXCEPT ![t] = <<D, s>>]
      <3>1. s \notin Range(event[t])
        BY <1>4, <2>1 DEF End, D
      <3>2. Append(event[t], s) = <<D, s>>
        <4>1. event[t] \in Seq({D, s})
          BY <1>4
        <4>2. Append(event[t], s) \in Seq({D, s}) /\ Len(Append(event[t], s)) = 2
          BY <1>4, <4>1
        <4>3. Append(event[t], s)[1] = D /\ Append(event[t], s)[2] = s
          BY <1>4, <4>1
        <4>4. <<D, s>> \in Seq({D, s}) /\ Len(<<D, s>>) = 2
          OBVIOUS
        <4>5. <<D, s>>[1] = D /\ <<D, s>>[2] = s
          OBVIOUS
        <4>6. \A i \in 1 .. 2 : i = 1 \/ i = 2
          OBVIOUS
        <4> QED
          BY <4>2, <4>3, <4>4, <4>5, <4>6, SeqEqual
      <3> QED
        BY <1>1, <3>1, <3>2
    <2>3. D \in Range(<<D, s>>)
      BY DEF Range
    <2>4. event'[t] = <<D, s>> /\ \A u \in Task \ {t} : event'[u] = event[u]
      BY <2>2
    <2> QED
      BY <1>4, <2>1, <2>2, <2>3, <2>4 DEF EventForm, End, D
  <1> QED
    BY <1>2, <1>3, <1>4 DEF End, D

-----------------------------------------------------------------------------
(* Steps that touch neither the jobs nor what they rest on, and the ends of a run. *)

\* What Sound is about.
soundVars == <<router, event, job, verdict, status, started, mode, alive, phase>>

\* A step that changes none of it preserves Sound.
LEMMA IdleStep ==
    ASSUME Sound, UNCHANGED soundVars
    PROVE  Sound'
  BY DEF Sound, soundVars, Shape, JobFollowsEvents, PhaseOfJobs, Apart, OverlapIsSerial, Overlap,
         Required

\* The end of a process preserves Sound: no work is remembered, the Workers that
\* outlive it are those of dispatched tasks.
LEMMA ExitStep ==
    ASSUME Sound, Exit, UNCHANGED <<router, event, started, alive>>
    PROVE  Sound'
  <1>1. /\ phase' = "off" /\ mode' = "none"
        /\ status' = [t \in Task |-> "not_started"]
        /\ job' = [t \in Task |-> "idle"]
        /\ verdict' = [t \in Task |-> "none"]
    BY DEF Exit
  <1>2. Shape'
    BY <1>1 DEF Sound, Shape, PhaseName, JobState, Required
  <1>3. ASSUME NEW t \in Task PROVE JobFollowsEvents(t)' /\ PhaseOfJobs(t)'
    BY <1>1 DEF Sound, JobFollowsEvents, PhaseOfJobs, InFlight, Steps, Range
  <1>4. Apart'
    BY <1>1 DEF Sound, Apart, OverlapIsSerial, Overlap, Attended, InFlight
  <1> QED
    BY <1>2, <1>3, <1>4 DEF Sound

\* An error that leaves run() preserves Sound, after the event of a task that no
\* Worker and no launch attends may have been written.
LEMMA ThrowStep ==
    ASSUME Sound, phase # "off", Throw, UNCHANGED <<router, mode, status, verdict, started, alive>>,
           event' \in [Task -> EventForm],
           \A t \in Task : \/ event'[t] = event[t]
                           \/ /\ t \in Required /\ job[t] \notin Attended
                              /\ Range(event[t]) \subseteq Range(event'[t])
    PROVE  Sound'
  <1>1. /\ phase' = "failing"
        /\ job' = [t \in Task |-> IF job[t] \in InFlight THEN job[t] ELSE "idle"]
    BY DEF Throw
  <1>2. Shape'
    BY <1>1 DEF Sound, Shape, PhaseName, JobState, Required
  <1>3. ASSUME NEW t \in Task PROVE JobFollowsEvents(t)' /\ PhaseOfJobs(t)'
    BY <1>1 DEF Sound, JobFollowsEvents, PhaseOfJobs, InFlight, Steps, Attended, Shape
  <1>4. Apart'
    BY <1>1 DEF Sound, Apart, OverlapIsSerial, Overlap, Attended, InFlight
  <1> QED
    BY <1>2, <1>3, <1>4 DEF Sound

\* A step of the work on one task preserves Sound when the parts about this task
\* hold after it, and the task was attended before if it is attended after.
LEMMA MoveStep ==
    ASSUME Sound, NEW t \in Required, NEW to \in JobState, job' = [job EXCEPT ![t] = to],
           phase # "off", UNCHANGED <<router, mode, phase>>,
           Shape',
           \A u \in Task \ {t} :
              /\ event'[u] = event[u] /\ verdict'[u] = verdict[u] /\ status'[u] = status[u]
              /\ started'[u] = started[u] /\ (u \in alive' => u \in alive),
           JobFollowsEvents(t)', PhaseOfJobs(t)',
           to \in Attended \/ t \in alive' => job[t] \in Attended
    PROVE  Sound'
  <1>1. t \in Task /\ \A u \in Task : job'[u] = IF u = t THEN to ELSE job[u]
    BY RouterFacts DEF Sound, Shape
  <1>2. ASSUME NEW u \in Task PROVE JobFollowsEvents(u)' /\ PhaseOfJobs(u)'
    <2>1. CASE u = t
      BY <2>1
    <2>2. CASE u # t
      BY <1>1, <2>2 DEF Sound, JobFollowsEvents, PhaseOfJobs
    <2> QED
      BY <2>1, <2>2
  <1>3. \A u, v \in Task : u # v /\ job'[u] \in Attended /\ job'[v] \in Attended => ~ Overlap(u, v)'
    BY <1>1 DEF Sound, Apart, Overlap
  <1>4. \A u \in alive : u \in Task /\ job[u] \in Attended
    BY RouterFacts DEF Sound, Shape, JobFollowsEvents, Attended, InFlight
  <1>5. \A u \in alive' : u \in Task /\ job[u] \in Attended
    <2>1. alive' \subseteq Required
      BY DEF Shape, Required
    <2> QED
      BY <1>4, <2>1, RouterFacts DEF Sound, Shape
  <1>6. OverlapIsSerial'
    BY <1>5 DEF Sound, Apart, OverlapIsSerial, Overlap
  <1> QED
    BY <1>2, <1>3, <1>6 DEF Sound, Apart

-----------------------------------------------------------------------------
(* The work on one task: launch and processResult. *)

\* A step that changes nothing but the job and the verdict of its task, along one of
\* the moves of launch() and processResult(), preserves Sound.
LEMMA QuietMove ==
    ASSUME Sound, NEW t \in Required, NEW from \in JobState, NEW to \in JobState,
           NEW v \in {"none", "ready", "blocked", "needs_decision", "uncertain"},
           Step(t, from, to), verdict' = [verdict EXCEPT ![t] = v],
           UNCHANGED <<router, mode, phase, event, status, started, alive>>,
           from # "idle", to # "idle",
           \/ from = "launching" /\ to = "based"
           \/ from = "launching" /\ to = "ended" /\ v \in Refusal
           \/ from = "batched" /\ to = "settling" /\ v = verdict[t] /\ v \in Refusal
           \/ from = "batched" /\ to \in Steps \ {"settling"} /\ v = "ready" /\ v = verdict[t]
           \/ from = "batched" /\ to = "settling" /\ verdict[t] = "ready" /\ v \in Refusal
           \/ from \in Steps \ {"settling"} /\ to \in Steps \ {"settling"}
           \/ from \in Steps \ {"settling"} /\ to = "settling" /\ v \in Refusal,
           to \in Steps => phase \in {"process", "settle"}
    PROVE  Sound'
  <1>1. t \in Task /\ job[t] = from /\ job' = [job EXCEPT ![t] = to] /\ job'[t] = to
        /\ verdict'[t] = v
    BY RouterFacts DEF Sound, Shape, Step
  <1>2. phase # "off"
    BY <1>1 DEF Sound, PhaseOfJobs
  <1>3. Shape'
    BY <1>1, RouterFacts DEF Sound, Shape, Required
  <1>4. JobFollowsEvents(t)'
    BY <1>1 DEF Sound, JobFollowsEvents, InFlight, Steps, Refusal
  <1>5. PhaseOfJobs(t)'
    BY <1>1, <1>2 DEF Sound, PhaseOfJobs, JobFollowsEvents, InFlight, Steps
  <1>6. to \in Attended \/ t \in alive' => job[t] \in Attended
    BY <1>1, <1>2 DEF Sound, JobFollowsEvents, Attended, InFlight, Steps
  <1>7. \A u \in Task \ {t} :
           /\ event'[u] = event[u] /\ verdict'[u] = verdict[u] /\ status'[u] = status[u]
           /\ started'[u] = started[u] /\ (u \in alive' => u \in alive)
    BY <1>1 DEF Sound, Shape
  <1> QED
    BY <1>1, <1>2, <1>3, <1>4, <1>5, <1>6, <1>7, MoveStep

\* The dispatch event preserves Sound: the task had none.
LEMMA AnnounceSound ==
    ASSUME Sound, NEW t \in Required, Announce(t) PROVE Sound'
  <1>1. /\ t \in Task /\ job[t] = "based" /\ job' = [job EXCEPT ![t] = "announced"]
        /\ event[t] = <<>> /\ phase # "off" /\ job'[t] = "announced"
    BY RouterFacts DEF Sound, Shape, Announce, Step, JobFollowsEvents, PhaseOfJobs
  <1>2. /\ event' \in [Task -> EventForm] /\ event'[t] = <<D>>
        /\ \A u \in Task \ {t} : event'[u] = event[u]
    BY <1>1, PostEffect DEF Announce, Sound, Shape, D
  <1>3. UNCHANGED <<router, mode, phase, verdict, started, alive>>
        /\ status' = [status EXCEPT ![t] = "running"]
    BY DEF Announce, fixedVars
  <1>4. Shape'
    BY <1>1, <1>2, <1>3 DEF Sound, Shape, JobState, InFlight, Required
  <1>5. started[t] = <<>> /\ t \notin alive
    BY <1>1, RouterFacts DEF Sound, JobFollowsEvents, Range
  <1>6. JobFollowsEvents(t)' /\ PhaseOfJobs(t)'
    BY <1>1, <1>2, <1>3, <1>5 DEF Sound, JobFollowsEvents, PhaseOfJobs, InFlight, Steps, Shape
  <1> QED
    BY <1>1, <1>2, <1>3, <1>4, <1>5, <1>6, MoveStep DEF Attended, InFlight, JobState, Sound, Shape

\* A dispatch event that fails, written or not, preserves Sound: the launch is
\* rejected and has started no Worker.
LEMMA FailAnnounceSound ==
    ASSUME Sound, NEW t \in Required, FailAnnounce(t) PROVE Sound'
  <1>1. /\ t \in Task /\ job[t] = "based" /\ job' = [job EXCEPT ![t] = "rejected"]
        /\ event[t] = <<>> /\ phase # "off" /\ job'[t] = "rejected"
    BY RouterFacts DEF Sound, Shape, FailAnnounce, Step, JobFollowsEvents, PhaseOfJobs
  <1>2. /\ event' \in [Task -> EventForm] /\ event'[t] \in {<<>>, <<D>>}
        /\ \A u \in Task \ {t} : event'[u] = event[u]
    BY <1>1, PostEffect DEF FailAnnounce, Sound, Shape, D
  <1>3. UNCHANGED <<router, mode, phase, verdict, status, started, alive>>
    BY DEF FailAnnounce, fixedVars
  <1>4. Shape'
    BY <1>1, <1>2, <1>3 DEF Sound, Shape, JobState, InFlight, Required
  <1>5. started[t] = <<>> /\ t \notin alive
    BY <1>1, RouterFacts DEF Sound, JobFollowsEvents, Range
  <1>6. JobFollowsEvents(t)' /\ PhaseOfJobs(t)'
    BY <1>1, <1>2, <1>3, <1>5 DEF Sound, JobFollowsEvents, PhaseOfJobs, InFlight, Steps, Shape
  <1> QED
    BY <1>1, <1>2, <1>3, <1>4, <1>5, <1>6, MoveStep DEF Attended, InFlight, JobState, Sound, Shape

\* The start of a Worker preserves Sound: it is the first of its task.
LEMMA StartWorkerSound ==
    ASSUME Sound, NEW t \in Required, StartWorker(t) PROVE Sound'
  <1>1. /\ t \in Task /\ job[t] = "announced" /\ job' = [job EXCEPT ![t] = "working"]
        /\ event[t] = <<D>> /\ started[t] = <<>> /\ phase # "off" /\ job'[t] = "working"
    BY RouterFacts DEF Sound, Shape, StartWorker, Step, JobFollowsEvents, PhaseOfJobs
  <1>2. /\ UNCHANGED <<router, mode, phase, event, verdict, status>>
        /\ alive' = alive \cup {t}
        /\ started' = [started EXCEPT ![t] = Append(started[t], mode)]
    BY DEF StartWorker, fixedVars, prVars
  <1>3. mode \in Mode
    BY <1>1 DEF Sound, Shape, PhaseOfJobs
  <1>4. started'[t] = <<mode>>
    BY <1>1, <1>2, <1>3 DEF Sound, Shape
  <1>5. Shape'
    BY <1>1, <1>2, <1>3 DEF Sound, Shape, JobState, InFlight, Required
  <1>6. D \in Range(event'[t])
    BY <1>1, <1>2 DEF Range
  <1>7. JobFollowsEvents(t)' /\ PhaseOfJobs(t)'
    BY <1>1, <1>2, <1>4, <1>6 DEF Sound, JobFollowsEvents, PhaseOfJobs, InFlight, Steps, Shape
  <1> QED
    BY <1>1, <1>2, <1>5, <1>7, MoveStep DEF Attended, InFlight, JobState, Sound, Shape

\* The end of a Worker preserves Sound: its task stays dispatched, in hand.
LEMMA EndWorkerSound ==
    ASSUME Sound, NEW t \in Required, EndWorker(t) PROVE Sound'
  <1>1. /\ t \in Task /\ job[t] = "working" /\ job' = [job EXCEPT ![t] = "ended"]
        /\ event[t] = <<D>> /\ phase # "off" /\ job'[t] = "ended"
    BY RouterFacts
       DEF Sound, Shape, EndWorker, Step, JobFollowsEvents, PhaseOfJobs, InFlight, Steps
  <1>2. /\ UNCHANGED <<router, mode, phase, event, status, started>>
        /\ alive' = alive \ {t}
        /\ \A u \in Task \ {t} : verdict'[u] = verdict[u]
        /\ verdict' \in [Task -> {"none", "ready", "blocked", "needs_decision", "uncertain"}]
    BY <1>1 DEF EndWorker, fixedVars, prVars, Sound, Shape
  <1>3. Shape'
    BY <1>1, <1>2 DEF Sound, Shape, JobState, InFlight, Required
  <1>4. JobFollowsEvents(t)' /\ PhaseOfJobs(t)'
    BY <1>1, <1>2 DEF Sound, JobFollowsEvents, PhaseOfJobs, InFlight, Steps, Shape
  <1> QED
    BY <1>1, <1>2, <1>3, <1>4, MoveStep DEF Attended, InFlight, JobState, Sound, Shape

\* Every step of launch() preserves Sound.
LEMMA LaunchSound ==
    ASSUME Sound, NEW t \in Required, Launch(t) PROVE Sound'
  <1>t. t \in Task /\ verdict[t] \in {"none", "ready", "blocked", "needs_decision", "uncertain"}
        /\ verdict = [verdict EXCEPT ![t] = verdict[t]]
    BY RouterFacts DEF Sound, Shape
  <1>1. CASE EnterWorktree(t)
    BY <1>1, <1>t, QuietMove DEF EnterWorktree, fixedVars, prVars, JobState, InFlight, Steps
  <1>2. CASE FailModel(t)
    BY <1>2, QuietMove
       DEF FailModel, Preflight, fixedVars, prVars, JobState, InFlight, Steps, Refusal
  <1>3. CASE FailWorktree(t)
    BY <1>3, QuietMove
       DEF FailWorktree, Preflight, fixedVars, prVars, JobState, InFlight, Steps, Refusal
  <1> QED
    BY <1>1, <1>2, <1>3, AnnounceSound, FailAnnounceSound, StartWorkerSound, EndWorkerSound
       DEF Launch

\* The failure of a comment that ends a task, written or not, preserves Sound.
LEMMA PostFailsSound ==
    ASSUME Sound, NEW t \in Required, NEW s \in End, PostFails(t, s), phase # "off",
           job[t] \in {"staged", "settling"},
           UNCHANGED <<router, mode, status, verdict, started, alive>>
    PROVE  Sound'
  <1>1. t \in Task /\ event[t] \in {<<>>, <<D>>} /\ job[t] \notin Attended
    BY RouterFacts DEF Sound, Shape, JobFollowsEvents, Attended, InFlight, Steps
  <1>2. CASE Post(t, s)
    <2>1. /\ event' \in [Task -> EventForm]
          /\ \A u \in Task : event'[u] = event[u] \/ u = t
          /\ \A u \in Task : Range(event[u]) \subseteq Range(event'[u])
      BY <1>1, <1>2, PostEffect DEF Sound, Shape
    <2> QED
      BY <1>1, <2>1, ThrowStep DEF PostFails
  <1>3. CASE UNCHANGED event
    BY <1>3, ThrowStep DEF PostFails, Sound, Shape
  <1> QED
    BY <1>2, <1>3 DEF PostFails

\* The comment that ends a task preserves Sound: the work on it ends with it.
LEMMA PublishSound ==
    ASSUME Sound, NEW t \in Required, NEW s \in End, NEW from \in {"staged", "settling"},
           Turn(t), Step(t, from, "idle"), Post(t, s),
           NEW st \in {"integrated", "blocked", "needs_decision"},
           status' = [status EXCEPT ![t] = st],
           UNCHANGED <<router, mode, phase, verdict, started, alive>>
    PROVE  Sound'
  <1>1. /\ t \in Task /\ job[t] = from /\ job' = [job EXCEPT ![t] = "idle"] /\ job'[t] = "idle"
        /\ event[t] \in {<<>>, <<D>>} /\ phase \in {"process", "settle"}
    BY RouterFacts DEF Sound, Shape, JobFollowsEvents, Step, Steps, Turn
  <1>2. /\ event' \in [Task -> EventForm]
        /\ event'[t] \in {<<s>>, <<D, s>>} /\ Range(event[t]) \subseteq Range(event'[t])
        /\ \A u \in Task \ {t} : event'[u] = event[u]
    BY <1>1, PostEffect DEF Sound, Shape
  <1>3. Shape'
    BY <1>1, <1>2 DEF Sound, Shape, JobState, Required
  <1>4. event'[t] # <<D>>
    BY <1>2 DEF End, D
  <1>5. t \notin alive /\ status'[t] # "not_started"
    BY <1>1 DEF Sound, Shape, JobFollowsEvents
  <1>6. JobFollowsEvents(t)' /\ PhaseOfJobs(t)'
    BY <1>1, <1>2, <1>4, <1>5 DEF Sound, JobFollowsEvents, PhaseOfJobs, InFlight, Steps
  <1>7. \A u \in Task \ {t} : status'[u] = status[u]
    BY DEF Sound, Shape
  <1> QED
    BY <1>1, <1>2, <1>3, <1>5, <1>6, <1>7, MoveStep DEF Attended, InFlight, JobState

\* Every step of processResult() preserves Sound.
LEMMA ProcessSound ==
    ASSUME Sound, NEW t \in Required, Process(t) PROVE Sound'
  <1>t. /\ t \in Task /\ verdict[t] \in {"none", "ready", "blocked", "needs_decision", "uncertain"}
        /\ verdict = [verdict EXCEPT ![t] = verdict[t]]
        /\ Turn(t) => phase # "off" /\ phase \in {"process", "settle"}
    BY RouterFacts DEF Sound, Shape, Turn
  <1>r. ASSUME Turn(t), NEW s \in Refusal, Reject(t, s),
               \/ job[t] \in Steps \ {"settling"}
               \/ job[t] = "batched" /\ verdict[t] = "ready",
               UNCHANGED <<router, mode, phase, event, status, started, alive>>
        PROVE  Sound'
    BY <1>r, <1>t, QuietMove DEF Reject, Step, JobState, InFlight, Steps, Refusal
  <1>c. ASSUME NEW from \in Steps \ {"settling"}, NEW to \in Steps \ {"settling"},
               Check(t, from, to)
        PROVE  Sound'
    <2>1. CASE Step(t, from, to) /\ UNCHANGED verdict
      BY <1>c, <1>t, <2>1, QuietMove DEF Check, fixedVars, prVars, JobState, Steps
    <2>2. CASE Reject(t, "blocked")
      BY <1>c, <1>t, <1>r, <2>2 DEF Check, fixedVars, prVars, Refusal
    <2> QED
      BY <1>c, <2>1, <2>2 DEF Check
  <1>1. CASE ThrowUncertain(t)
    BY <1>1, <1>t, ThrowStep DEF ThrowUncertain, fixedVars, prVars, Sound, Shape
  <1>2. CASE Refuse(t)
    BY <1>2, <1>t, QuietMove DEF Refuse, fixedVars, prVars, JobState, Steps, Refusal
  <1>3. CASE AcceptResult(t)
    <2>1. CASE Step(t, "batched", "accepted") /\ UNCHANGED verdict
      BY <1>3, <1>t, <2>1, QuietMove DEF AcceptResult, Check, fixedVars, prVars, JobState, Steps
    <2>2. CASE Reject(t, "blocked")
      BY <1>3, <1>t, <1>r, <2>2 DEF AcceptResult, Check, fixedVars, prVars, Refusal
    <2> QED
      BY <1>3, <2>1, <2>2 DEF AcceptResult, Check
  <1>4. CASE Verify(t)
    BY <1>4, <1>c DEF Verify, Steps
  <1>5. CASE CommitCandidate(t)
    <2>1. CASE Step(t, "verified", "committed") /\ UNCHANGED verdict
      BY <1>5, <1>t, <2>1, QuietMove DEF CommitCandidate, fixedVars, prVars, JobState, Steps
    <2>2. CASE Reject(t, "blocked")
      BY <1>5, <1>t, <1>r, <2>2 DEF CommitCandidate, fixedVars, prVars, Refusal, Steps
    <2> QED
      BY <1>5, <2>1, <2>2 DEF CommitCandidate
  <1>6. CASE MechanicalGate(t)
    BY <1>6, <1>c DEF MechanicalGate, Steps
  <1>7. CASE Supervise(t)
    <2>1. CASE Step(t, "gated", "approved") /\ UNCHANGED verdict
      BY <1>7, <1>t, <2>1, QuietMove DEF Supervise, fixedVars, prVars, JobState, Steps
    <2>2. ASSUME NEW s \in Refusal, Reject(t, s) PROVE Sound'
      BY <1>7, <1>t, <1>r, <2>2 DEF Supervise, fixedVars, prVars, Steps
    <2> QED
      BY <1>7, <2>1, <2>2 DEF Supervise, Refusal
  <1>8. CASE PushTask(t)
    <2>1. CASE Step(t, "approved", "pushed") /\ UNCHANGED verdict
      BY <1>8, <1>t, <2>1, QuietMove DEF PushTask, fixedVars, prVars, JobState, Steps
    <2>2. CASE Reject(t, "blocked")
      BY <1>8, <1>t, <1>r, <2>2 DEF PushTask, fixedVars, prVars, Refusal, Steps
    <2> QED
      BY <1>8, <2>1, <2>2 DEF PushTask
  <1>9. CASE CherryPick(t)
    <2>1. CASE Step(t, "pushed", "picked") /\ UNCHANGED verdict
      BY <1>9, <1>t, <2>1, QuietMove DEF CherryPick, fixedVars, prVars, JobState, Steps
    <2>2. CASE Reject(t, "blocked")
      BY <1>9, <1>t, <1>r, <2>2 DEF CherryPick, fixedVars, prVars, Refusal, Steps
    <2> QED
      BY <1>9, <2>1, <2>2 DEF CherryPick
  <1>10. CASE PushStage(t)
    <2>1. CASE Step(t, "picked", "staged") /\ UNCHANGED verdict
      BY <1>10, <1>t, <2>1, QuietMove DEF PushStage, fixedVars, JobState, Steps
    <2>2. CASE Reject(t, "blocked")
      BY <1>10, <1>t, <1>r, <2>2 DEF PushStage, fixedVars, Refusal, Steps
    <2> QED
      BY <1>10, <2>1, <2>2 DEF PushStage
  <1>11. CASE PublishIntegrated(t)
    <2>1. CASE Post(t, "task_integrated") /\ Step(t, "staged", "idle")
                 /\ status' = [status EXCEPT ![t] = "integrated"] /\ UNCHANGED phase
      BY <1>11, <2>1, PublishSound DEF PublishIntegrated, fixedVars, End
    <2>2. CASE PostFails(t, "task_integrated") /\ UNCHANGED status
      BY <1>11, <1>t, <2>2, PostFailsSound DEF PublishIntegrated, fixedVars, End
    <2> QED
      BY <1>11, <2>1, <2>2 DEF PublishIntegrated
  <1>12. CASE PublishRefusal(t)
    <2>1. verdict[t] \in Refusal
      BY <1>12, <1>t DEF PublishRefusal, Sound, JobFollowsEvents
    <2>2. CASE Post(t, verdict[t]) /\ Step(t, "settling", "idle")
                 /\ status' = [status EXCEPT ![t] = verdict[t]] /\ UNCHANGED phase
      BY <1>12, <2>1, <2>2, PublishSound DEF PublishRefusal, fixedVars, End, Refusal
    <2>3. CASE PostFails(t, verdict[t]) /\ UNCHANGED status
      BY <1>12, <1>t, <2>1, <2>3, PostFailsSound DEF PublishRefusal, fixedVars, End, Refusal
    <2> QED
      BY <1>12, <2>2, <2>3 DEF PublishRefusal
  <1> QED
    BY <1>1, <1>2, <1>3, <1>4, <1>5, <1>6, <1>7, <1>8, <1>9, <1>10, <1>11, <1>12 DEF Process

-----------------------------------------------------------------------------
(* Loading and scheduling. *)

\* load() preserves Sound.  No Worker has outlived its run when a run can load: its
\* task would be dispatched without an end.
LEMMA LoadSound ==
    ASSUME Sound, NEW m \in Mode, Load(m) PROVE Sound'
  <1>1. /\ phase = "off" /\ phase' = "schedule" /\ mode' = m
        /\ status' = [t \in Task |-> LatestState(t)]
        /\ job' = [t \in Task |-> "idle"]
        /\ verdict' = [t \in Task |-> "none"]
        /\ UNCHANGED <<router, event, alive, started>>
        /\ \A t \in Required : LatestState(t) # "dispatched"
    BY DEF Load, Loadable, fixedVars, prVars
  <1>2. \A t \in Task : /\ event[t] = <<>> <=> LatestState(t) = "not_started"
                        /\ event[t] = <<D>> <=> LatestState(t) = "dispatched"
                        /\ LatestState(t) \in {"not_started", "dispatched", "integrated",
                                               "blocked", "needs_decision"}
    BY LatestOfForm DEF Sound, Shape, LatestState
  <1>3. alive = {}
    BY <1>1, <1>2, RouterFacts DEF Sound, Shape, JobFollowsEvents
  <1>4. Shape'
    BY <1>1, <1>2, <1>3 DEF Sound, Shape, JobState, PhaseName, Required
  <1>5. ASSUME NEW t \in Task PROVE JobFollowsEvents(t)' /\ PhaseOfJobs(t)'
    <2>1. event[t] # <<D>>
      BY <1>1, <1>2 DEF Sound, Shape
    <2> QED
      BY <1>1, <1>2, <1>3, <2>1 DEF Sound, JobFollowsEvents, PhaseOfJobs, InFlight, Steps
  <1>6. Apart'
    BY <1>1, <1>3 DEF Apart, OverlapIsSerial, Attended, InFlight
  <1> QED
    BY <1>4, <1>5, <1>6 DEF Sound

\* A Ready Set launched beside what is attended preserves Sound: its tasks overlap
\* neither that nor each other, and none of them has an event.
LEMMA ScheduleStep ==
    ASSUME Sound, NEW S, NEW R, IsReadySet(S, R), phase = "schedule",
           \A t \in Required : job[t] \in Attended => t \in R,
           job' = [t \in Task |-> IF t \in S THEN "launching" ELSE job[t]],
           Shape', phase' \in {"drain", "wait"},
           phase' = "wait" => mode # "run-once",
           phase' = "wait" => status' = [t \in Task |-> IF t \in S THEN "running" ELSE status[t]],
           UNCHANGED <<router, event, verdict, mode, alive, started>>
    PROVE  Sound'
  <1>1. /\ S \subseteq Required /\ S \subseteq Task /\ S \subseteq Nat
        /\ \A t \in S : /\ status[t] = "not_started"
                        /\ \A r \in R : ~ Overlap(t, r)
                        /\ \A u \in S : u < t => ~ Overlap(t, u)
    BY RouterFacts DEF IsReadySet, Eligible, Sound, Shape
  <1>2. \A t \in S : event[t] = <<>> /\ job[t] = "idle" /\ t \notin alive
    BY <1>1, RouterFacts DEF Sound, Shape, PhaseOfJobs, JobFollowsEvents
  <1>3. ASSUME NEW t \in Task PROVE JobFollowsEvents(t)' /\ PhaseOfJobs(t)'
    <2>1. CASE t \in S
      BY <1>1, <1>2, <2>1 DEF Sound, JobFollowsEvents, PhaseOfJobs, InFlight, Steps
    <2>2. CASE t \notin S
      BY <1>1, <1>2, <2>2 DEF Sound, JobFollowsEvents, PhaseOfJobs, InFlight, Steps, Shape
    <2> QED
      BY <2>1, <2>2
  <1>4. ASSUME NEW t \in Task, NEW u \in Task, t # u, job'[t] \in Attended, job'[u] \in Attended
        PROVE  ~ Overlap(t, u)'
    <2>0. Overlap(t, u)' = Overlap(t, u) /\ (Overlap(t, u) => Overlap(u, t))
      BY RouterFacts DEF Overlap, Sound, Shape
    <2>1. CASE t \in S /\ u \in S
      <3>1. t < u \/ u < t
        BY <1>1, <1>4, <2>1
      <3>2. (u < t => ~ Overlap(t, u)) /\ (t < u => ~ Overlap(u, t))
        BY <1>1, <2>1
      <3> QED
        BY <2>0, <3>1, <3>2
    <2>2. CASE t \in S /\ u \notin S
      BY <1>1, <1>4, <2>2, RouterFacts DEF Overlap, Sound, Shape, Attended
    <2>3. CASE t \notin S /\ u \in S
      BY <1>1, <1>4, <2>3, RouterFacts DEF Overlap, Sound, Shape, Attended
    <2>4. CASE t \notin S /\ u \notin S
      BY <1>4, <2>4 DEF Overlap, Sound, Apart
    <2> QED
      BY <2>1, <2>2, <2>3, <2>4
  <1>5. Apart'
    BY <1>4 DEF Sound, Apart, OverlapIsSerial, Overlap
  <1> QED
    BY <1>3, <1>5 DEF Sound

\* Both schedules preserve Sound.
LEMMA ScheduleSound ==
    ASSUME Sound, ScheduleStart \/ ScheduleOnce PROVE Sound'
  <1>1. CASE ScheduleStart
    <2>0. /\ phase = "schedule" /\ mode = "start"
          /\ UNCHANGED <<router, event, verdict, mode, alive, started>>
      BY <1>1 DEF ScheduleStart, fixedVars, prVars
    <2>1. CASE Terminal /\ phase' = "drain" /\ UNCHANGED <<status, job>>
      <3>1. Shape'
        BY <2>0, <2>1 DEF Sound, Shape, PhaseName, Required
      <3>2. \A t \in Task : JobFollowsEvents(t)' /\ PhaseOfJobs(t)'
        BY <2>0, <2>1 DEF Sound, JobFollowsEvents, PhaseOfJobs
      <3> QED
        BY <2>0, <2>1, <3>1, <3>2 DEF Sound, Apart, OverlapIsSerial, Overlap
    <2>2. ASSUME NEW S \in SUBSET Required, IsReadySet(S, Running),
                 status' = [t \in Task |-> IF t \in S THEN "running" ELSE status[t]],
                 job' = [t \in Task |-> IF t \in S THEN "launching" ELSE job[t]],
                 phase' = IF Running \cup S = {} THEN "finish" ELSE "wait"
          PROVE  Sound'
      <3>1. Shape'
        BY <2>0, <2>2, RouterFacts DEF Sound, Shape, PhaseName, JobState, InFlight, Required
      <3>2. \A t \in Required : job[t] \in Attended => t \in Running
        BY DEF Running, Attended
      <3>3. CASE phase' = "wait"
        BY <2>0, <2>2, <3>1, <3>2, <3>3, ScheduleStep
      <3>4. CASE Running \cup S = {}
        <4>1. UNCHANGED <<job, status>> /\ phase' = "finish"
          BY <2>2, <3>4 DEF Sound, Shape
        <4>2. \A t \in Task : job[t] = "idle"
          BY <2>0, <3>2, <3>4 DEF Sound, Shape, JobState, PhaseOfJobs, Attended
        <4>3. \A t \in Task : JobFollowsEvents(t)' /\ PhaseOfJobs(t)'
          BY <2>0, <4>1, <4>2 DEF Sound, JobFollowsEvents, PhaseOfJobs, Steps
        <4> QED
          BY <2>0, <4>1, <3>1, <4>3 DEF Sound, Apart, OverlapIsSerial, Overlap
      <3> QED
        BY <2>2, <3>3, <3>4
    <2> QED
      BY <1>1, <2>1, <2>2 DEF ScheduleStart
  <1>2. CASE ScheduleOnce
    <2>1. PICK S \in SUBSET Required :
             /\ IsReadySet(S, {})
             /\ job' = [t \in Task |-> IF t \in S THEN "launching" ELSE job[t]]
      BY <1>2 DEF ScheduleOnce
    <2>2. /\ phase = "schedule" /\ mode = "run-once" /\ phase' = "drain"
          /\ UNCHANGED <<router, event, verdict, status, mode, alive, started>>
      BY <1>2 DEF ScheduleOnce, fixedVars, prVars
    <2>3. \A t \in Required : job[t] \notin Attended
      BY <2>2, RouterFacts DEF Sound, Shape, PhaseOfJobs, Attended, InFlight
    <2>4. Shape'
      BY <2>1, <2>2, RouterFacts DEF Sound, Shape, PhaseName, JobState, InFlight, Required
    <2> QED
      BY <2>1, <2>2, <2>3, <2>4, ScheduleStep
  <1> QED
    BY <1>1, <1>2

\* A batch taken from the launches that have ended preserves Sound.
LEMMA BatchStep ==
    ASSUME Sound, job' = Batch, UNCHANGED <<router, event, verdict, status, mode, alive, started>>,
           \/ phase = "wait" /\ phase' = "process"
           \/ phase = "drain" /\ phase' = "settle"
                 /\ Running = {t \in Required : job[t] = "ended"}
    PROVE  Sound'
  <1>1. \A t \in Task : job'[t] = IF job[t] = "ended" THEN "batched" ELSE job[t]
    BY DEF Batch
  <1>2. Shape'
    BY <1>1 DEF Sound, Shape, PhaseName, JobState, Required, Batch
  <1>3. ASSUME NEW t \in Task PROVE JobFollowsEvents(t)'
    BY <1>1 DEF Sound, JobFollowsEvents, PhaseOfJobs, InFlight, Steps
  <1>4. ASSUME NEW t \in Task, phase = "drain" PROVE job'[t] \in {"idle", "batched"}
    BY <1>1, <1>4 DEF Sound, Shape, PhaseOfJobs, Running, JobState
  <1>5. ASSUME NEW t \in Task PROVE PhaseOfJobs(t)'
    <2>1. CASE phase = "wait"
      BY <1>1, <2>1 DEF Sound, PhaseOfJobs
    <2>2. CASE phase = "drain"
      BY <1>1, <1>4, <2>2 DEF Sound, PhaseOfJobs
    <2> QED
      BY <2>1, <2>2
  <1>6. Apart'
    BY <1>1 DEF Sound, Apart, OverlapIsSerial, Overlap, Attended, InFlight
  <1> QED
    BY <1>2, <1>3, <1>5, <1>6 DEF Sound

\* The end of a batch preserves Sound.
LEMMA BatchDoneSound ==
    ASSUME Sound, BatchDone PROVE Sound'
  <1>1. /\ phase \in {"process", "settle"}
        /\ \A t \in Required : job[t] # "batched" /\ job[t] \notin Steps
        /\ phase' = IF phase = "process" THEN "schedule" ELSE "finish"
        /\ UNCHANGED <<router, event, verdict, status, mode, alive, started, job>>
    BY DEF BatchDone, fixedVars, prVars
  <1>2. Shape'
    BY <1>1 DEF Sound, Shape, PhaseName, Required
  <1>3. ASSUME NEW t \in Task PROVE JobFollowsEvents(t)'
    BY <1>1 DEF Sound, JobFollowsEvents
  <1>4. ASSUME NEW t \in Task PROVE job[t] # "batched" /\ job[t] \notin Steps
    BY <1>1 DEF Sound, Shape, Steps
  <1>5. ASSUME NEW t \in Task PROVE PhaseOfJobs(t)'
    <2>1. CASE phase = "process"
      BY <1>1, <1>4, <2>1 DEF Sound, PhaseOfJobs
    <2>2. CASE phase = "settle"
      BY <1>1, <1>4, <2>2 DEF Sound, PhaseOfJobs
    <2> QED
      BY <1>1, <2>1, <2>2
  <1> QED
    BY <1>1, <1>2, <1>3, <1>5 DEF Sound, Apart, OverlapIsSerial, Overlap

-----------------------------------------------------------------------------
(* The rest of a run, and the specification. *)

\* The announcement of the Stage preserves Sound: nothing is under way any more.
LEMMA FinalSound ==
    ASSUME Sound, Finish \/ ProjectLabels \/ DispatchCandidate PROVE Sound'
  <1>1. CASE Exit
    BY <1>1, ExitStep DEF Finish, ProjectLabels, DispatchCandidate, fixedVars
  <1>2. CASE ~ Exit
    <2>1. /\ phase \in {"finish", "commented", "refound"}
          /\ phase' \in {"commented", "refound", "labelled", "relabelled"}
          /\ UNCHANGED <<router, event, mode, status, job, verdict, alive, started>>
      BY <1>2 DEF Finish, ProjectLabels, DispatchCandidate, fixedVars
    <2>2. Shape'
      BY <2>1 DEF Sound, Shape, PhaseName, Required
    <2>3. \A t \in Task : job[t] = "idle"
      BY <2>1 DEF Sound, PhaseOfJobs
    <2>4. \A t \in Task : JobFollowsEvents(t)' /\ PhaseOfJobs(t)'
      BY <2>1, <2>3 DEF Sound, JobFollowsEvents, PhaseOfJobs, Steps
    <2> QED
      BY <2>1, <2>2, <2>4 DEF Sound, Apart, OverlapIsSerial, Overlap
  <1> QED
    BY <1>1, <1>2

\* Every step of a run preserves Sound.
LEMMA RunSound ==
    ASSUME Sound, Run PROVE Sound'
  <1>1. CASE Collect
    BY <1>1, BatchStep DEF Collect, fixedVars, prVars
  <1>2. CASE CollectAll
    BY <1>2, BatchStep DEF CollectAll, fixedVars, prVars
  <1>3. CASE ThrowRejected
    BY <1>3, ThrowStep DEF ThrowRejected, fixedVars, prVars, Sound, Shape
  <1>4. CASE ExitFailed
    BY <1>4, ExitStep DEF ExitFailed, fixedVars, prVars
  <1> QED
    BY <1>1, <1>2, <1>3, <1>4, ScheduleSound, BatchDoneSound, FinalSound, LaunchSound,
       ProcessSound DEF Run

\* The end of a Worker that outlived its run preserves Sound.
LEMMA EndOrphanSound ==
    ASSUME Sound, NEW t \in Required, EndOrphan(t) PROVE Sound'
  <1>1. /\ alive' = alive \ {t}
        /\ UNCHANGED <<router, event, job, verdict, status, started, mode, phase>>
    BY DEF EndOrphan, fixedVars, prVars, runVars
  <1>2. Shape'
    BY <1>1 DEF Sound, Shape, Required
  <1>3. \A u \in Task : JobFollowsEvents(u)' /\ PhaseOfJobs(u)'
    BY <1>1 DEF Sound, JobFollowsEvents, PhaseOfJobs
  <1> QED
    BY <1>1, <1>2, <1>3 DEF Sound, Apart, OverlapIsSerial, Overlap

\* Every step preserves Sound, crashes, repairs and the workflow included.
LEMMA NextSound ==
    ASSUME Sound, [Next]_vars PROVE Sound'
  <1>1. CASE Crash
    BY <1>1, ExitStep DEF Crash, fixedVars, prVars
  <1>2. CASE RepairWorktree
    BY <1>2, IdleStep DEF RepairWorktree, fixedVars, prVars, runVars, soundVars
  <1>3. CASE Workflow
    BY <1>3, IdleStep DEF Workflow, AnswerPush, AnswerCandidate, fixedVars, gitVars, runVars,
                          soundVars
  <1>4. CASE UNCHANGED vars
    BY <1>4, IdleStep DEF vars, fixedVars, prVars, runVars, soundVars
  <1> QED
    BY <1>1, <1>2, <1>3, <1>4, LoadSound, RunSound, EndOrphanSound DEF Next

\* Sound holds at first.
LEMMA InitSound ==
    ASSUME Init PROVE Sound
  <1>1. Shape
    BY DEF Init, Shape, PhaseName, JobState, EventForm
  <1>2. \A t \in Task : JobFollowsEvents(t) /\ PhaseOfJobs(t)
    BY DEF Init, JobFollowsEvents, PhaseOfJobs, InFlight, Steps
  <1>3. Apart
    BY DEF Init, Apart, OverlapIsSerial, Attended, InFlight
  <1> QED
    BY <1>1, <1>2, <1>3 DEF Sound

\* In every reachable state the work of a run agrees with the events on the pull
\* request, and what is attended does not overlap.
THEOREM SoundAlways == Spec => []Sound
  BY InitSound, NextSound, PTL DEF Spec

\* Whatever crashes, answers are lost and runs are begun again, BridgeController.launch
\* starts at most one Worker for a task, and none without a task_dispatched event.
THEOREM OneWorkerAlways == Spec => []OneWorkerPerDispatch
  <1>1. ASSUME Sound PROVE OneWorkerPerDispatch
    <2>1. ASSUME NEW t \in Task
          PROVE  Len(started[t]) <= 1 /\ (started[t] # <<>> => D \in Range(event[t]))
      <3>1. CASE started[t] = <<>>
        <4>1. Len(<<>>) = 0
          OBVIOUS
        <4>2. Len(started[t]) = 0
          BY <3>1, <4>1
        <4> QED
          BY <3>1, <4>2
      <3>2. CASE started[t] # <<>>
        <4>1. JobFollowsEvents(t)
          BY <1>1, <2>1 DEF Sound
        <4>2. Len(started[t]) = 1 /\ D \in Range(event[t])
          BY <3>2, <4>1 DEF JobFollowsEvents
        <4>3. Len(started[t]) <= 1
          BY <4>2
        <4> QED
          BY <4>2, <4>3
      <3> QED
        BY <3>1, <3>2
    <2> QED
      BY <2>1 DEF OneWorkerPerDispatch, D
  <1> QED
    BY <1>1, SoundAlways, PTL

\* computeReadySet never lets two tasks that own a common path have Workers at the
\* same time, across crashes of the Bridge.
THEOREM OverlapSerialAlways == Spec => []OverlapIsSerial
  <1>1. ASSUME Sound PROVE OverlapIsSerial
    BY <1>1 DEF Sound, Apart
  <1> QED
    BY <1>1, SoundAlways, PTL

\* A run that gets to finishIfComplete leaves no task dispatched and not ended.
THEOREM RunSettlesAlways == Spec => []RunSettlesItsTasks
  <1>1. ASSUME Sound PROVE RunSettlesItsTasks
    <2>1. ASSUME phase = "finish", NEW t \in Required PROVE LatestState(t) # "dispatched"
      <3>1. t \in Task /\ event[t] \in EventForm
        BY <1>1, RouterFacts DEF Sound, Shape
      <3>2. job[t] = "idle" /\ event[t] # <<D>>
        BY <1>1, <2>1, <3>1 DEF Sound, PhaseOfJobs
      <3> QED
        BY <3>1, <3>2, LatestOfForm DEF LatestState
    <2> QED
      BY <2>1 DEF RunSettlesItsTasks
  <1> QED
    BY <1>1, SoundAlways, PTL

\* No two Workers meet, on one task or in one path, for every instance.
THEOREM WorkersApartAlways == Spec => []WorkersApart
  <1>1. OneWorkerPerDispatch /\ OverlapIsSerial => WorkersApart
    BY DEF WorkersApart
  <1> QED
    BY <1>1, OneWorkerAlways, OverlapSerialAlways, PTL
=============================================================================
