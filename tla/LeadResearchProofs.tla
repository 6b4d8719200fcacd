------------------------- MODULE LeadResearchProofs -------------------------
(***************************************************************************)
(* Proofs about LeadResearch for any number of tasks, branches, turns and  *)
(* restarts: its type invariant, that work is done once and on accepted    *)
(* papers, what a handoff to review guarantees, and that an execution      *)
(* failure ends the Lead; then its schedule: a task whose dependencies     *)
(* are not done never blocks the plan, a superstep stays within the        *)
(* parallelism, and every step spends some of a bounded budget.            *)
(***************************************************************************)
EXTENDS LeadResearch, FiniteSetTheorems, WellFoundedInduction, TLAPS

LEMMA Capacity ==
    /\ MaxTasks \in Nat /\ MaxParallel \in Nat /\ MaxTurns \in Nat
    /\ MaxRestarts \in Nat /\ MaxParallel <= MaxTasks
BY CapacityAssumption

-----------------------------------------------------------------------------
(* The inductive invariant.                                                *)

\* Only a superstep has workers, and only an unfinished run can be restarted.
Phased ==
    /\ at # "specialist" => sent = {} /\ \A t \in Ids : finished[t] = "none"
    /\ errored => at # "end"
    /\ phase = "research_ready_for_review" => at = "end"

\* Rows the Lead has seen hold no execution failure unless it has ended, and
\* between supersteps it has seen all of them.
Seen ==
    /\ at \notin {"collect", "end"} => active = Attempted
    /\ at # "end" =>
          \A t \in active : \A k \in DOMAIN results[t] :
              results[t][k] # "execution_failure"

Disjoint == TaskIds(tasks) \cap SeedIds = {}

LInv ==
    /\ TypeOK /\ Disjoint /\ Phased /\ Seen
    /\ NoRepeatedWork /\ RunsOnPapers /\ ReviewIsComplete

\* What an accepted delegation adds: new ids with well-formed tasks.
LEMMA AdditionsType ==
    ASSUME TypeOK, NEW new \in Additions
    PROVE  /\ DOMAIN new \subseteq Ids \ Known
           /\ new \in [DOMAIN new -> Task]
<1>1. PICK S \in SUBSET (Ids \ Known) :
         /\ Cardinality(TaskIds(tasks)) + Cardinality(S) <= MaxTasks
         /\ new \in Lists(S, Cardinality(TaskIds(tasks)), Known)
  BY DEF Additions
<1>2. Cardinality(TaskIds(tasks)) \in Nat /\ Cardinality(S) \in Nat
  <2>1. IsFiniteSet(TaskIds(tasks)) /\ IsFiniteSet(S)
    BY FiniteAssumption, FS_Subset DEF TaskIds
  <2> QED BY <2>1, FS_CardinalityType
<1> DEFINE n == Cardinality(TaskIds(tasks))
<1>3. PICK b \in [S -> Branches], d \in [S -> SUBSET (Known \cup S)],
           p \in [S -> (n + 1)..(n + Cardinality(S))] :
         new = [t \in S |-> [branch |-> b[t], deps |-> d[t], place |-> p[t]]]
  BY <1>1, SMTT(30) DEF Lists, Orders
<1>4. Known \subseteq Ids
  BY DEF Known, SeedIds, TaskIds
<1>5. \A t \in S : new[t] \in Task
  <2> TAKE t \in S
  <2>1. p[t] \in 1..MaxTasks
    BY Capacity, <1>1, <1>2
  <2>2. d[t] \in SUBSET Ids
    BY <1>4
  <2> QED BY <1>3, <2>1, <2>2 DEF Task
<1> QED BY <1>3, <1>5

\* An accepted delegation leaves the tasks that were there alone.
LEMMA ExtendedType ==
    ASSUME TypeOK, Disjoint, NEW new \in Additions
    PROVE  /\ Extended(tasks, new) \in [Ids -> Task \cup {None}]
           /\ \A t \in TaskIds(tasks) : Extended(tasks, new)[t] = tasks[t]
           /\ TaskIds(tasks) \subseteq TaskIds(Extended(tasks, new))
           /\ TaskIds(Extended(tasks, new)) \cap SeedIds = {}
<1>1. DOMAIN new \subseteq Ids \ Known /\ new \in [DOMAIN new -> Task]
  BY AdditionsType
<1>2. \A t \in DOMAIN new : t \notin TaskIds(tasks) /\ t \notin SeedIds
  BY <1>1 DEF Known
<1>3. Extended(tasks, new) \in [Ids -> Task \cup {None}]
  BY <1>1 DEF Extended, TypeOK
<1>4. \A t \in TaskIds(tasks) : Extended(tasks, new)[t] = tasks[t]
  BY <1>2 DEF Extended, TaskIds
<1>5. TaskIds(tasks) \subseteq TaskIds(Extended(tasks, new))
  BY <1>4 DEF TaskIds
<1>6. TaskIds(Extended(tasks, new)) \cap SeedIds = {}
  <2> SUFFICES ASSUME NEW t \in TaskIds(Extended(tasks, new)), t \in SeedIds PROVE FALSE
    OBVIOUS
  <2>1. t \notin DOMAIN new
    BY <1>2
  <2>2. tasks[t] # None
    BY <2>1 DEF TaskIds, Extended
  <2> QED BY <2>2 DEF Disjoint, TaskIds
<1> QED BY <1>3, <1>4, <1>5, <1>6

\* Tasks that can run are unattempted, and have their papers.
LEMMA ReadyTasks ==
    ASSUME NEW ts, NEW t \in Ready(ts)
    PROVE  /\ t \in TaskIds(ts) /\ t \in Ids
           /\ t \notin Attempted
           /\ ts[t].deps \subseteq Completed
  BY DEF Ready, Runnable, TaskIds

\* A dispatch after scheduling starts ready tasks; any other starts nothing.
LEMMA DispatchCases ==
    ASSUME NEW ts, NEW p, Dispatch(ts, p)
    PROVE  /\ at' \in Nodes /\ at' # "collect" /\ sent' \in SUBSET Ids
           /\ sent' \subseteq Ready(ts)
           /\ at' # "specialist" => sent' = {}
           /\ p # "schedule_ready_tasks" => at' # "specialist"
           /\ at' = "end" <=> p \in {"research_ready_for_review",
                                    "research_needs_attention"}
<1>1. Ready(ts) \subseteq Ids
  BY ReadyTasks
<1>2. CASE p = "schedule_ready_tasks"
  <2>1. at' = "specialist" /\ sent' = Ready(ts)
    BY <1>2 DEF Dispatch
  <2> QED BY <1>1, <1>2, <2>1 DEF Nodes
<1>3. CASE p # "schedule_ready_tasks"
  <2>1. /\ at' = IF p \in {"research_ready_for_review", "research_needs_attention"}
                 THEN "end" ELSE "lead"
        /\ sent' = {}
    BY <1>3 DEF Dispatch
  <2> QED BY <1>1, <1>3, <2>1 DEF Nodes
<1> QED BY <1>2, <1>3

-----------------------------------------------------------------------------
\* Every reachable state is well-typed.
LEMMA TypeInit == Init => TypeOK
<1> SUFFICES ASSUME Init PROVE TypeOK
  OBVIOUS
<1>1. tasks \in [Ids -> Task \cup {None}]
  <2>1. PICK S \in SUBSET (Ids \ SeedIds) :
           /\ Cardinality(S) <= MaxTasks
           /\ \E new \in Lists(S, 0, SeedIds) :
                 tasks = Extended([t \in Ids |-> None], new)
    BY DEF Init
  <2>2. PICK new \in Lists(S, 0, SeedIds) :
           tasks = Extended([t \in Ids |-> None], new)
    BY <2>1
  <2>3. PICK b \in [S -> Branches], d \in [S -> SUBSET (SeedIds \cup S)],
             p \in Orders(S, 0) :
           new = [t \in S |-> [branch |-> b[t], deps |-> d[t], place |-> p[t]]]
    BY <2>2 DEF Lists
  <2>4. Cardinality(S) \in Nat
    <3>1. IsFiniteSet(S)
      BY FiniteAssumption, FS_Subset
    <3> QED BY <3>1, FS_CardinalityType
  <2>5. \A t \in S : new[t] \in Task
    <3> TAKE t \in S
    <3>1. p[t] \in 1..MaxTasks
      BY Capacity, <2>1, <2>4 DEF Orders
    <3>2. d[t] \in SUBSET Ids
      BY DEF SeedIds
    <3> QED BY <2>3, <3>1, <3>2 DEF Task
  <2> QED BY <2>2, <2>3, <2>5 DEF Extended
<1>2. results \in [Ids -> Seq(Statuses)]
  <2>1. << >> \in Seq(Statuses)
    BY ONLY SMT
  <2>2. results = [t \in Ids |-> << >>]
    BY DEF Init
  <2> QED BY <2>1, <2>2
<1>3. seeds \in [Ids -> Branches \cup {None}] /\ bounded \in BOOLEAN /\ requireAll \in BOOLEAN
  BY DEF Init
<1>4. turns \in 0..MaxTurns /\ restarts \in 0..MaxRestarts
  <2>1. turns = 0 /\ restarts = 0
    BY DEF Init
  <2> QED BY Capacity, <2>1
<1>5. finished \in [Ids -> Statuses \cup {"none"}]
  BY DEF Init
<1>6. /\ phase \in Phases /\ handoff = None /\ stop = "" /\ active = {} /\ sent = {}
      /\ at \in Nodes /\ errored \in BOOLEAN
  BY DEF Init, Phases, Nodes
<1> QED BY <1>1, <1>2, <1>3, <1>4, <1>5, <1>6 DEF TypeOK

LEMMA TypeStep == TypeOK /\ Disjoint /\ [Next]_vars => TypeOK'
<1> SUFFICES ASSUME TypeOK, Disjoint, [Next]_vars PROVE TypeOK'
  OBVIOUS
<1> USE DEF TypeOK, config, board, superstep
<1>1. CASE Initialize
  <2>1. at' \in Nodes /\ sent' \in SUBSET Ids
    BY <1>1, DispatchCases DEF Initialize
  <2> QED BY <1>1, <2>1 DEF Initialize, Phases
<1>2. CASE Decide
  <2>1. turns' \in 0..MaxTurns
    <3>1. turns' = turns \/ (turns' = turns + 1 /\ ~(turns >= MaxTurns))
      BY <1>2 DEF Decide
    <3>2. turns \in 0..MaxTurns
      OBVIOUS
    <3> QED BY ONLY Capacity, <3>1, <3>2
  <2>2. /\ phase' \in Phases /\ at' \in Nodes
        /\ stop' \in {"", "lead_turn_ceiling", "execution_failure"}
    BY <1>2 DEF Decide, Phases, Nodes
  <2> QED BY <1>2, <2>1, <2>2 DEF Decide
<1>3. CASE Feedback
  <2>1. at' \in Nodes /\ sent' \in SUBSET Ids
    BY <1>3, DispatchCases DEF Feedback
  <2> QED BY <1>3, <2>1 DEF Feedback, Phases
<1>4. CASE Delegate
  <2>1. PICK new \in Additions :
           /\ tasks' = Extended(tasks, new)
           /\ phase' = "schedule_ready_tasks"
           /\ Dispatch(Extended(tasks, new), phase')
    BY <1>4 DEF Delegate
  <2>2. tasks' \in [Ids -> Task \cup {None}]
    BY <2>1, ExtendedType
  <2>3. at' \in Nodes /\ sent' \in SUBSET Ids
    BY <2>1, DispatchCases
  <2> QED BY <1>4, <2>1, <2>2, <2>3 DEF Delegate, Phases
<1>5. CASE Continue
  <2>1. at' \in Nodes /\ sent' \in SUBSET Ids
    BY <1>5, DispatchCases DEF Continue
  <2> QED BY <1>5, <2>1 DEF Continue, Phases
<1>6. CASE Submit
  <2>1. at' \in Nodes /\ sent' \in SUBSET Ids
    BY <1>6, DispatchCases DEF Submit
  <2> QED BY <1>6, <2>1 DEF Submit, Phases
<1>7. CASE \E t \in Ids, status \in Statuses : Worker(t, status)
  <2>1. PICK t \in Ids, status \in Statuses : Worker(t, status)
    BY <1>7
  <2> QED BY <2>1 DEF Worker
<1>8. CASE Join
  <2>1. results' \in [Ids -> Seq(Statuses)]
    <3>1. results' = [t \in Ids |-> IF finished[t] = "none" THEN results[t]
                                    ELSE Append(results[t], finished[t])]
      BY <1>8 DEF Join
    <3>2. \A t \in Ids : (IF finished[t] = "none" THEN results[t]
                          ELSE Append(results[t], finished[t])) \in Seq(Statuses)
      <4> TAKE t \in Ids
      <4>1. CASE finished[t] = "none"
        BY <4>1
      <4>2. CASE finished[t] # "none"
        <5>1. finished[t] \in Statuses /\ results[t] \in Seq(Statuses)
          BY <4>2
        <5>2. Append(results[t], finished[t]) \in Seq(Statuses)
          BY ONLY <5>1
        <5> QED BY <4>2, <5>2
      <4> QED BY <4>1, <4>2
    <3> QED BY <3>1, <3>2
  <2>2. finished' \in [Ids -> Statuses \cup {"none"}]
    BY <1>8 DEF Join
  <2> QED BY <1>8, <2>1, <2>2 DEF Join, Nodes
<1>9. CASE Collect
  BY <1>9 DEF Collect, Attempted, Phases, Nodes
<1>10. CASE Raise
  BY <1>10 DEF Raise
<1>11. CASE Restart
  <2>1. restarts' \in 0..MaxRestarts
    <3>1. restarts' = restarts + 1 /\ restarts < MaxRestarts
      BY <1>11 DEF Restart
    <3>2. restarts \in 0..MaxRestarts
      OBVIOUS
    <3> QED BY ONLY Capacity, <3>1, <3>2
  <2> QED BY <1>11, <2>1 DEF Restart
<1>12. CASE UNCHANGED vars
  BY <1>12 DEF vars
<1> QED BY <1>1, <1>2, <1>3, <1>4, <1>5, <1>6, <1>7, <1>8, <1>9, <1>10, <1>11,
           <1>12 DEF Next, Step

-----------------------------------------------------------------------------
(* Steps.                                                                  *)

\* A finished run does not move any more.
LEMMA EndStep == Phased /\ at = "end" /\ [Next]_vars => UNCHANGED vars
<1> SUFFICES ASSUME Phased, at = "end", Next PROVE FALSE
  OBVIOUS
<1>1. ~errored
  BY DEF Phased
<1> QED BY <1>1 DEF Next, Step, Initialize, Decide, Feedback, Delegate, Continue, Submit,
              Worker, Join, Collect, Raise, Restart, Running

\* The actions that may write task_results or the rows of the superstep.
LEMMA RowsStep ==
    ASSUME [Next]_vars
    PROVE  \/ \E t \in Ids, status \in Statuses : Worker(t, status)
           \/ Join
           \/ results' = results /\ finished' = finished
  BY DEF Next, Step, Initialize, Decide, Feedback, Delegate, Continue, Submit, Collect,
         Raise, Restart, vars, config, board, superstep

\* The actions that may write the tasks.
LEMMA TasksStep ==
    ASSUME [Next]_vars
    PROVE  seeds' = seeds /\ requireAll' = requireAll /\ (Delegate \/ tasks' = tasks)
  BY DEF Next, Step, Initialize, Decide, Feedback, Delegate, Continue, Submit, Worker,
         Join, Collect, Raise, Restart, vars, config, board, superstep

\* No step forgets a task.
LEMMA TasksKept ==
    ASSUME TypeOK, Disjoint, [Next]_vars
    PROVE  /\ seeds' = seeds
           /\ \A t \in TaskIds(tasks) : t \in TaskIds(tasks)' /\ tasks'[t] = tasks[t]
           /\ TaskIds(tasks)' \cap SeedIds = {}
<1>1. CASE Delegate
  <2>1. PICK new \in Additions : tasks' = Extended(tasks, new)
    BY <1>1 DEF Delegate
  <2> QED BY <2>1, ExtendedType, TasksStep
<1>2. CASE tasks' = tasks
  BY <1>2, TasksStep DEF Disjoint, TaskIds
<1> QED BY <1>1, <1>2, TasksStep

LEMMA DisjointStep == TypeOK /\ Disjoint /\ [Next]_vars => Disjoint'
<1> SUFFICES ASSUME TypeOK, Disjoint, [Next]_vars PROVE Disjoint'
  OBVIOUS
<1>1. SeedIds' = SeedIds
  BY TasksKept DEF SeedIds
<1> QED BY <1>1, TasksKept DEF Disjoint

\* The actions that end in a dispatch, and what it was given.
LEMMA SchedulingStep ==
    ASSUME [Next]_vars
    PROVE  \/ /\ at \in {"bind_case", "lead_tools"} /\ ~errored /\ errored' = errored
              /\ Dispatch(tasks', phase')
              /\ results' = results /\ finished' = finished /\ active' = active
              /\ phase' = "research_ready_for_review" => Submit
           \/ /\ at' = at /\ sent' \subseteq sent /\ phase' = phase /\ active' = active
              /\ handoff' = handoff
           \/ Decide \/ Join \/ Collect
<1>1. CASE Initialize \/ Feedback \/ Continue \/ Submit
  BY <1>1 DEF Initialize, Feedback, Continue, Submit, Running
<1>2. CASE Delegate
  BY <1>2 DEF Delegate, Running
<1>3. CASE \E t \in Ids, status \in Statuses : Worker(t, status)
  BY <1>3 DEF Worker, board
<1>4. CASE Raise \/ Restart
  BY <1>4 DEF Raise, Restart, board, superstep
<1>5. CASE UNCHANGED vars
  BY <1>5 DEF vars, board, superstep
<1> QED BY <1>1, <1>2, <1>3, <1>4, <1>5 DEF Next, Step

LEMMA PhasedStep == TypeOK /\ Phased /\ [Next]_vars => Phased'
<1> SUFFICES ASSUME TypeOK, Phased, [Next]_vars PROVE Phased'
  OBVIOUS
<1>1. CASE /\ at \in {"bind_case", "lead_tools"} /\ ~errored /\ errored' = errored
           /\ Dispatch(tasks', phase')
           /\ finished' = finished
  <2>1. \A t \in Ids : finished'[t] = "none"
    BY <1>1 DEF Phased
  <2> QED BY <1>1, <2>1, DispatchCases DEF Phased
<1>2. CASE Initialize \/ Feedback \/ Continue \/ Submit \/ Delegate
  BY <1>1, <1>2 DEF Initialize, Feedback, Continue, Submit, Delegate, Running
<1>3. CASE Decide
  BY <1>3 DEF Decide, Running, Phased
<1>4. CASE \E t \in Ids, status \in Statuses : Worker(t, status)
  BY <1>4 DEF Worker, Running, Phased, board
<1>5. CASE Join
  BY <1>5 DEF Join, Running, Phased
<1>6. CASE Collect
  BY <1>6 DEF Collect, Running, Phased
<1>7. CASE Raise \/ Restart
  BY <1>7 DEF Raise, Restart, Phased, board, superstep
<1>8. CASE UNCHANGED vars
  BY <1>8 DEF vars, Phased, board, superstep
<1> QED BY <1>2, <1>3, <1>4, <1>5, <1>6, <1>7, <1>8 DEF Next, Step

\* What the end of a superstep writes: one row for each of its workers.
LEMMA JoinRows ==
    ASSUME TypeOK, NoRepeatedWork, Join, NEW t \in Ids
    PROVE  /\ finished[t] = "none" => results'[t] = results[t]
           /\ finished[t] # "none" => results[t] = << >> /\ results'[t] = <<finished[t]>>
<1>1. results'[t] = IF finished[t] = "none" THEN results[t]
                    ELSE Append(results[t], finished[t])
  BY DEF Join
<1>2. finished[t] # "none" => results[t] = << >>
  BY DEF NoRepeatedWork
<1>3. Append(<< >>, finished[t]) = <<finished[t]>>
  BY ONLY SMT
<1> QED BY <1>1, <1>2, <1>3

LEMMA SeenStep ==
    TypeOK /\ Phased /\ Seen /\ NoRepeatedWork /\ [Next]_vars => Seen'
<1> SUFFICES ASSUME TypeOK, Phased, Seen, NoRepeatedWork, [Next]_vars PROVE Seen'
  OBVIOUS
<1>1. CASE Join
  <2>1. at' = "collect" /\ active' = active /\ active = Attempted /\ at = "specialist"
    BY <1>1 DEF Join, Running, Seen
  <2>2. ASSUME NEW t \in active, NEW k \in DOMAIN results'[t]
        PROVE  results'[t][k] # "execution_failure"
    <3>1. t \in Ids /\ results[t] # << >>
      BY <2>1 DEF Attempted
    <3>2. results'[t] = results[t]
      BY <1>1, <3>1, JoinRows
    <3>3. \A j \in DOMAIN results[t] : results[t][j] # "execution_failure"
      BY <2>1 DEF Seen
    <3> QED BY <2>2, <3>2, <3>3
  <2> QED BY <2>1, <2>2 DEF Seen
<1>2. CASE Collect
  <2>1. active' = Attempted /\ results' = results /\ at = "collect"
    BY <1>2 DEF Collect, Running
  <2>2. Attempted' = Attempted
    BY <2>1 DEF Attempted
  <2>3. ASSUME at' # "end", NEW t \in Attempted, NEW k \in DOMAIN results[t]
        PROVE  results[t][k] # "execution_failure"
    BY <1>2, <2>1, <2>3 DEF Collect, Seen
  <2> QED BY <2>1, <2>2, <2>3 DEF Seen
<1>3. CASE ~Join /\ ~Collect
  <2>1. active' = active /\ results' = results
    BY <1>3 DEF Next, Step, Initialize, Decide, Feedback, Delegate, Continue, Submit,
                Worker, Raise, Restart, vars, board
  <2>2. Attempted' = Attempted
    BY <2>1 DEF Attempted
  <2>3. at \in {"collect", "end"} => at' = at
    BY <1>3 DEF Next, Step, Initialize, Decide, Feedback, Delegate, Continue, Submit,
                Worker, Raise, Restart, vars, superstep, Running
  <2> QED BY <2>1, <2>2, <2>3 DEF Seen
<1> QED BY <1>1, <1>2, <1>3

LEMMA NoRepeatedStep ==
    TypeOK /\ Disjoint /\ Phased /\ NoRepeatedWork /\ RunsOnPapers /\ [Next]_vars
      => NoRepeatedWork'
<1> SUFFICES ASSUME TypeOK, Disjoint, Phased, NoRepeatedWork, RunsOnPapers, [Next]_vars
             PROVE  NoRepeatedWork'
  OBVIOUS
<1>1. SeedIds' = SeedIds
  BY TasksStep DEF SeedIds
<1>2. CASE /\ at \in {"bind_case", "lead_tools"}
           /\ Dispatch(tasks', phase')
           /\ results' = results /\ finished' = finished
  <2>1. \A t \in sent' : t \in Ids /\ results[t] = << >>
    BY <1>2, DispatchCases, ReadyTasks DEF Attempted
  <2>2. \A t \in Ids : finished[t] = "none"
    BY <1>2 DEF Phased
  <2> QED BY <1>1, <1>2, <2>1, <2>2 DEF NoRepeatedWork
<1>3. CASE \E t \in Ids, status \in Statuses : Worker(t, status)
  <2>1. PICK t \in Ids, status \in Statuses : Worker(t, status)
    BY <1>3
  <2>2. /\ t \in sent /\ sent' = sent \ {t} /\ results' = results
        /\ \A u \in Ids : finished'[u] = IF u = t THEN status ELSE finished[u]
    BY <2>1 DEF Worker, board, TypeOK
  <2> QED BY <1>1, <2>2 DEF NoRepeatedWork
<1>4. CASE Join
  <2>1. sent' = {} /\ \A t \in Ids : finished'[t] = "none"
    BY <1>4 DEF Join
  <2>2. ASSUME NEW t \in Ids
        PROVE  Len(results'[t]) <= 1 /\ (t \in SeedIds => results'[t] = << >>)
    <3>1. CASE finished[t] = "none"
      BY <1>4, <3>1, JoinRows DEF NoRepeatedWork
    <3>2. CASE finished[t] # "none"
      <4>1. results'[t] = <<finished[t]>>
        BY <1>4, <3>2, JoinRows
      <4>2. t \notin SeedIds
        BY <3>2 DEF RunsOnPapers, Disjoint
      <4> QED BY <4>1, <4>2
    <3> QED BY <3>1, <3>2
  <2> QED BY <1>1, <2>1, <2>2 DEF NoRepeatedWork
<1>5. CASE /\ sent' \subseteq sent /\ results' = results /\ finished' = finished
  BY <1>1, <1>5 DEF NoRepeatedWork
<1>6. CASE Initialize \/ Feedback \/ Continue \/ Submit \/ Delegate
  BY <1>2, <1>6 DEF Initialize, Feedback, Continue, Submit, Delegate, Running
<1>7. CASE Decide \/ Collect \/ Raise \/ Restart \/ UNCHANGED vars
  BY <1>5, <1>7 DEF Decide, Collect, Raise, Restart, vars, board, superstep
<1> QED BY <1>3, <1>4, <1>6, <1>7 DEF Next, Step

\* Papers are not lost: what was completed stays completed.
LEMMA CompletedKept ==
    ASSUME TypeOK, NoRepeatedWork, [Next]_vars
    PROVE  /\ Submitted \subseteq Submitted'
           /\ Completed \subseteq Completed'
           /\ \A t \in Ids : results[t] # << >> => results'[t] = results[t]
<1>1. \A t \in Ids : results[t] # << >> => results'[t] = results[t]
  <2>1. CASE Join
    BY <2>1, JoinRows
  <2>2. CASE \E t \in Ids, status \in Statuses : Worker(t, status)
    BY <2>2 DEF Worker, board
  <2> QED BY <2>1, <2>2, RowsStep
<1>2. Submitted \subseteq Submitted'
  <2> SUFFICES ASSUME NEW t \in Submitted PROVE t \in Submitted'
    OBVIOUS
  <2>1. t \in Ids /\ \E k \in DOMAIN results[t] : results[t][k] = "submitted"
    BY DEF Submitted
  <2>2. results[t] # << >>
    BY <2>1
  <2>3. results'[t] = results[t]
    BY <1>1, <2>1, <2>2
  <2> QED BY <2>1, <2>3 DEF Submitted
<1>3. SeedIds' = SeedIds
  BY TasksStep DEF SeedIds
<1> QED BY <1>1, <1>2, <1>3 DEF Completed

LEMMA OnPapersStep ==
    TypeOK /\ Disjoint /\ Phased /\ NoRepeatedWork /\ RunsOnPapers /\ [Next]_vars
      => RunsOnPapers'
<1> SUFFICES ASSUME TypeOK, Disjoint, Phased, NoRepeatedWork, RunsOnPapers, [Next]_vars,
                    NEW t \in Ids,
                    (t \in sent \/ finished[t] # "none" \/ results[t] # << >>)'
             PROVE  t \in TaskIds(tasks)' /\ tasks'[t].deps \subseteq Completed'
  BY DEF RunsOnPapers
<1>1. CASE t \in sent \/ finished[t] # "none" \/ results[t] # << >>
  <2>1. t \in TaskIds(tasks) /\ tasks[t].deps \subseteq Completed
    BY <1>1 DEF RunsOnPapers
  <2> QED BY <2>1, TasksKept, CompletedKept
<1>2. CASE t \notin sent /\ finished[t] = "none" /\ results[t] = << >>
  <2>1. CASE /\ Dispatch(tasks', phase')
             /\ results' = results /\ finished' = finished
    <3>1. t \in Ready(tasks')
      BY <1>2, <2>1, DispatchCases
    <3>2. t \in TaskIds(tasks') /\ tasks'[t].deps \subseteq Completed
      BY <3>1, ReadyTasks
    <3>3. TaskIds(tasks)' = TaskIds(tasks')
      OBVIOUS
    <3> QED BY <3>2, <3>3, CompletedKept
  <2>2. CASE \E u \in Ids, status \in Statuses : Worker(u, status)
    <3>1. PICK u \in Ids, status \in Statuses : Worker(u, status)
      BY <2>2
    <3>2. u \in sent /\ sent' \subseteq sent /\ results' = results
      BY <3>1 DEF Worker, board
    <3>3. t # u
      BY <1>2, <3>2
    <3>4. finished'[t] = finished[t]
      BY <3>1, <3>3 DEF Worker
    <3> QED BY <1>2, <3>2, <3>4
  <2>3. CASE Join
    <3>1. sent' = {} /\ finished'[t] = "none"
      BY <2>3 DEF Join
    <3> QED BY <1>2, <2>3, <3>1, JoinRows
  <2>4. CASE sent' \subseteq sent /\ results' = results /\ finished' = finished
    BY <1>2, <2>4
  <2>5. CASE Initialize \/ Feedback \/ Continue \/ Submit \/ Delegate
    BY <2>1, <2>5 DEF Initialize, Feedback, Continue, Submit, Delegate
  <2>6. CASE Decide \/ Collect \/ Raise \/ Restart \/ UNCHANGED vars
    BY <2>4, <2>6 DEF Decide, Collect, Raise, Restart, vars, board, superstep
  <2> QED BY <2>2, <2>3, <2>5, <2>6 DEF Next, Step
<1> QED BY <1>1, <1>2

\* An accepted handoff to review finds every task attempted.
LEMMA SubmitReviews ==
    ASSUME TypeOK, Disjoint, Submit, phase' = "research_ready_for_review"
    PROVE  ReviewIsComplete'
<1>1. PICK h \in Handoff :
         /\ h.acknowledged = Incomplete
         /\ h.disposition = "ready_for_review" => ~h.unresolved /\ ReviewAllowed(h.depth)
         /\ handoff' = h
         /\ phase' = IF h.disposition = "ready_for_review"
                     THEN "research_ready_for_review" ELSE "research_needs_attention"
         /\ Dispatch(tasks, phase')
  BY DEF Submit
<1>2. ~h.unresolved /\ ReviewAllowed(h.depth)
  BY <1>1
<1>3. /\ seeds' = seeds /\ tasks' = tasks /\ results' = results
      /\ requireAll' = requireAll
  BY DEF Submit, config
<1>4. /\ SeedIds' = SeedIds /\ TaskIds(tasks)' = TaskIds(tasks)
      /\ Submitted' = Submitted /\ Attempted' = Attempted
  BY <1>3 DEF SeedIds, TaskIds, Submitted, Attempted
<1>5. Completed' = Completed /\ Pending' = Pending
  BY <1>4 DEF Completed, Pending
<1>6. Pending = {}
  <2> SUFFICES ASSUME NEW t \in Pending PROVE FALSE
    OBVIOUS
  <2>1. t \in TaskIds(tasks) /\ t \in Ids /\ results[t] = << >>
    BY DEF Pending, Attempted, TaskIds
  <2>2. t \notin Submitted /\ t \notin Failed
    BY <2>1 DEF Submitted, Failed
  <2>3. t \notin SeedIds
    BY <2>1 DEF Disjoint
  <2>4. t \in Incomplete
    BY <2>1, <2>2, <2>3 DEF Incomplete, Completed
  <2> QED BY <1>2, <2>2, <2>4 DEF ReviewAllowed
<1>7. sent' = {}
  BY <1>1, DispatchCases
<1>8. handoff' # None
  BY <1>1, NoneAssumption
<1>9. requireAll' =>
         \A b \in Branches : \/ \E t \in SeedIds' : seeds'[t] = b
                             \/ \E t \in Submitted' : tasks'[t].branch = b
  BY <1>2, <1>3, <1>4 DEF ReviewAllowed, Coverage
<1>10. /\ Completed # {}
       /\ h.depth = "focused" => Cardinality(Completed) = 1
  BY <1>2 DEF ReviewAllowed
<1>11. h.acknowledged = TaskIds(tasks) \ Completed
  BY <1>1 DEF Incomplete
<1> QED BY <1>1, <1>2, <1>4, <1>5, <1>6, <1>7, <1>8, <1>9, <1>10, <1>11 DEF ReviewIsComplete

LEMMA ReviewStep ==
    TypeOK /\ Disjoint /\ Phased /\ ReviewIsComplete /\ [Next]_vars => ReviewIsComplete'
<1> SUFFICES ASSUME TypeOK, Disjoint, Phased, ReviewIsComplete, [Next]_vars
             PROVE  ReviewIsComplete'
  OBVIOUS
<1>1. CASE phase' # "research_ready_for_review"
  BY <1>1 DEF ReviewIsComplete
<1>2. CASE phase' = "research_ready_for_review"
  <2>1. CASE Submit
    BY <1>2, <2>1, SubmitReviews
  <2>2. CASE at = "end"
    <3>1. UNCHANGED vars
      BY <2>2, EndStep
    <3> QED BY <3>1 DEF ReviewIsComplete, vars, config, board, superstep, Pending, Attempted,
                     TaskIds, Completed, Submitted, SeedIds
  <2>3. CASE ~Submit /\ at # "end"
    <3>1. phase # "research_ready_for_review"
      BY <2>3 DEF Phased
    <3> QED BY <1>2, <2>3, <3>1 DEF Next, Step, Initialize, Decide, Feedback, Delegate,
                     Continue, Worker, Join, Collect, Raise, Restart, vars, board
  <2> QED BY <2>1, <2>2, <2>3
<1> QED BY <1>1, <1>2

-----------------------------------------------------------------------------
(* Theorems.                                                               *)

\* The invariant holds at the start, whatever papers and tasks were recovered.
LEMMA InitLInv == Init => LInv
<1> SUFFICES ASSUME Init PROVE LInv
  OBVIOUS
<1>1. TypeOK
  BY TypeInit
<1>2. /\ results = [t \in Ids |-> << >>] /\ finished = [t \in Ids |-> "none"]
      /\ sent = {} /\ at = "bind_case" /\ phase = "" /\ active = {} /\ ~errored
  BY DEF Init
<1>3. Attempted = {}
  BY <1>2 DEF Attempted
<1>4. Disjoint
  <2>1. PICK S \in SUBSET (Ids \ SeedIds) :
           \E new \in Lists(S, 0, SeedIds) :
                 tasks = Extended([t \in Ids |-> None], new)
    BY DEF Init
  <2>2. PICK new \in Lists(S, 0, SeedIds) :
           tasks = Extended([t \in Ids |-> None], new)
    BY <2>1
  <2>3. DOMAIN new = S
    BY <2>2 DEF Lists
  <2>4. TaskIds(tasks) \subseteq S
    BY <2>2, <2>3 DEF TaskIds, Extended
  <2> QED BY <2>4 DEF Disjoint
<1>5. NoRepeatedWork
  <2>1. Len(<< >>) <= 1
    BY ONLY SMT
  <2> QED BY <1>2, <2>1 DEF NoRepeatedWork
<1>6. RunsOnPapers
  BY <1>2 DEF RunsOnPapers
<1>7. Phased /\ Seen /\ ReviewIsComplete
  BY <1>2, <1>3 DEF Phased, Seen, ReviewIsComplete
<1> QED BY <1>1, <1>4, <1>5, <1>6, <1>7 DEF LInv

\* Every state the Lead reaches satisfies the inductive invariant.
THEOREM LeadInductive == Spec => []LInv
<1>1. LInv /\ [Next]_vars => LInv'
  BY TypeStep, DisjointStep, PhasedStep, SeenStep, NoRepeatedStep, OnPapersStep,
     ReviewStep DEF LInv
<1> QED BY InitLInv, <1>1, PTL DEF Spec

\* The Lead's state is well-typed in every reachable state (ResearchState).
THEOREM LeadTyped == Spec => []TypeOK
<1>1. LInv => TypeOK
  BY DEF LInv
<1> QED BY LeadInductive, <1>1, PTL

\* A task is worked on once, and a saved paper never again, however often the
\* run is restarted (ready, worker).
THEOREM WorkDoneOnce == Spec => []NoRepeatedWork
<1>1. LInv => NoRepeatedWork
  BY DEF LInv
<1> QED BY LeadInductive, <1>1, PTL

\* Every task that ran had an accepted paper for each dependency (ready).
THEOREM WorkOnPapers == Spec => []RunsOnPapers
<1>1. LInv => RunsOnPapers
  BY DEF LInv
<1> QED BY LeadInductive, <1>1, PTL

\* A handoff to review accounts for every task and covers every required branch
\* (execute_tools, SubmitResearchHandoffAction).
THEOREM ReviewComplete == Spec => []ReviewIsComplete
<1>1. LInv => ReviewIsComplete
  BY DEF LInv
<1> QED BY LeadInductive, <1>1, PTL

\* After an execution failure no turn, worker or handoff follows (collect).
THEOREM ExecutionFailureStops == Spec => StopsAfterExecutionFailure
<1> DEFINE Stop == ExecutionFailed =>
                     /\ turns' = turns /\ tasks' = tasks /\ handoff' = handoff
                     /\ sent' = {}
<1>1. LInv /\ [Next]_vars => [Stop]_vars
  <2> SUFFICES ASSUME LInv, Next, ExecutionFailed, ~UNCHANGED vars PROVE Stop
    OBVIOUS
  <2>1. at \in {"collect", "end"}
    <3> SUFFICES ASSUME at \notin {"collect", "end"} PROVE FALSE
      OBVIOUS
    <3>1. PICK t \in Ids : \E k \in DOMAIN results[t] : results[t][k] = "execution_failure"
      BY DEF ExecutionFailed
    <3>2. t \in Attempted
      BY <3>1 DEF Attempted
    <3> QED BY <3>1, <3>2 DEF LInv, Seen
  <2>2. at = "collect"
    BY <2>1, EndStep DEF LInv
  <2>3. sent = {}
    BY <2>2 DEF LInv, Phased
  <2> QED BY <2>2, <2>3 DEF Next, Step, Initialize, Decide, Feedback, Delegate, Continue,
                   Submit, Worker, Join, Collect, Raise, Restart, Running, board, superstep
<1> QED BY LeadInductive, <1>1, PTL DEF Spec, StopsAfterExecutionFailure

\* Papers, failures and tasks survive every step, restarts included.
THEOREM WorkKept == Spec => KeepsWork
<1> DEFINE Keep == /\ Earned \subseteq Earned'
                   /\ \A t \in Ids :
                         /\ results[t] # << >> => results'[t] = results[t]
                         /\ tasks[t] # None => tasks'[t] = tasks[t]
<1>1. LInv /\ [Next]_vars => Keep
  <2> SUFFICES ASSUME LInv, [Next]_vars PROVE Keep
    OBVIOUS
  <2>1. TypeOK /\ Disjoint /\ NoRepeatedWork
    BY DEF LInv
  <2>2. \A t \in Ids : tasks[t] # None => tasks'[t] = tasks[t]
    BY <2>1, TasksKept DEF TaskIds
  <2>3. ASSUME NEW t \in Ids, finished[t] = "submitted"
        PROVE  t \in Earned'
    <3>1. CASE Join
      <4>1. results'[t] = <<"submitted">>
        BY <2>1, <2>3, <3>1, JoinRows
      <4> QED BY <4>1 DEF Earned, Submitted
    <3>2. CASE \E u \in Ids, status \in Statuses : Worker(u, status)
      <4>1. PICK u \in Ids, status \in Statuses : Worker(u, status)
        BY <3>2
      <4>2. u # t
        BY <2>1, <2>3, <4>1 DEF Worker, NoRepeatedWork
      <4> QED BY <2>3, <4>1, <4>2 DEF Worker, Earned
    <3>3. CASE finished' = finished
      BY <2>3, <3>3 DEF Earned
    <3> QED BY <3>1, <3>2, <3>3, RowsStep
  <2>4. Earned \subseteq Earned'
    BY <2>1, <2>3, CompletedKept DEF Earned
  <2> QED BY <2>1, <2>2, <2>4, CompletedKept
<1>2. LInv /\ [Next]_vars => [Keep]_vars
  BY <1>1
<1> QED BY LeadInductive, <1>2, PTL DEF Spec, KeepsWork

-----------------------------------------------------------------------------
(* Places, and what a superstep may hold.                                  *)

\* A nonempty set of numbers has a least one.
LEMMA Least ==
    ASSUME NEW S \in SUBSET Nat, S # {}
    PROVE  \E m \in S : \A k \in S : m <= k
<1> DEFINE R == {p \in Nat \X Nat : p[1] < p[2]}
<1>1. IsWellFoundedOn(OpToRel(<, Nat), Nat)
  BY NatLessThanWellFounded
<1>2. OpToRel(<, Nat) = R
  BY DEF OpToRel
<1>3. \A k, m \in Nat : k < m => <<k, m>> \in R
  OBVIOUS
<1>4. PICK m \in S : \A k \in S : ~(<<k, m>> \in R)
  <2> HIDE DEF R
  <2> QED BY <1>1, <1>2, WFMin
<1>5. \A k \in S : m <= k
  <2> HIDE DEF R
  <2> TAKE k \in S
  <2>1. k \in Nat /\ m \in Nat /\ ~(k < m)
    BY <1>3, <1>4
  <2> QED BY ONLY <2>1
<1> QED BY <1>5

\* The tasks stand in a list of at most max_tasks: no two in one place.
Board == [Ids -> Task \cup {None}]
Placed(ts) ==
    /\ \A t, u \in TaskIds(ts) : ts[t].place = ts[u].place => t = u
    /\ \A t \in TaskIds(ts) : ts[t].place <= Cardinality(TaskIds(ts))
    /\ Cardinality(TaskIds(ts)) <= MaxTasks

LEMMA PlaceType ==
    ASSUME NEW ts \in Board, NEW t \in TaskIds(ts)
    PROVE  t \in Ids /\ ts[t] \in Task /\ ts[t].place \in 1..MaxTasks
<1>1. t \in Ids /\ ts[t] \in Task
  BY DEF Board, TaskIds
<1> QED BY <1>1 DEF Task

\* Subsets of the task ids can be counted.
LEMMA Counted ==
    ASSUME NEW S \in SUBSET Ids
    PROVE  IsFiniteSet(S) /\ Cardinality(S) \in Nat
<1>1. IsFiniteSet(S)
  BY FiniteAssumption, FS_Subset
<1> QED BY <1>1, FS_CardinalityType

LEMMA IdSets ==
    ASSUME NEW ts
    PROVE  /\ Runnable(ts) \subseteq Ids /\ Ready(ts) \subseteq Runnable(ts)
           /\ Runnable(ts) \subseteq TaskIds(ts) /\ TaskIds(ts) \subseteq Ids
BY DEF Runnable, Ready, TaskIds

\* If any task can run, the first of them is ready.
LEMMA ReadyExists ==
    ASSUME NEW ts \in Board, Runnable(ts) # {}
    PROVE  Ready(ts) # {}
<1> DEFINE P == {ts[t].place : t \in Runnable(ts)}
<1>1. \A t \in Runnable(ts) : ts[t].place \in Nat
  BY PlaceType, IdSets, Capacity
<1>2. P \in SUBSET Nat /\ P # {}
  BY <1>1
<1>3. PICK m \in P : \A k \in P : m <= k
  <2> HIDE DEF P
  <2> QED BY <1>2, Least
<1>4. PICK t \in Runnable(ts) : ts[t].place = m
  OBVIOUS
<1>5. \A u \in Runnable(ts) : ~(ts[u].place < ts[t].place)
  <2> TAKE u \in Runnable(ts)
  <2>1. ts[t].place <= ts[u].place
    BY <1>3, <1>4
  <2>2. ts[t].place \in Nat /\ ts[u].place \in Nat
    BY <1>1
  <2> QED BY ONLY <2>1, <2>2
<1>6. {u \in Runnable(ts) : ts[u].place < ts[t].place} = {}
  BY <1>5
<1>7. Cardinality({u \in Runnable(ts) : ts[u].place < ts[t].place}) = 0
  BY <1>6, FS_EmptySet
<1>8. 0 < MaxParallel
  BY CapacityAssumption
<1>9. t \in Ready(ts)
  BY <1>7, <1>8 DEF Ready
<1> QED BY <1>9

\* No more tasks are ready than max_parallel_tasks: the last of them has fewer
\* than that before it.
LEMMA ReadyBound ==
    ASSUME NEW ts \in Board, Placed(ts)
    PROVE  Cardinality(Ready(ts)) <= MaxParallel
<1>1. CASE Ready(ts) = {}
  <2>1. Cardinality(Ready(ts)) = 0
    BY <1>1, FS_EmptySet
  <2> QED BY <2>1, Capacity
<1>2. CASE Ready(ts) # {}
  <2> DEFINE P == {MaxTasks - ts[t].place : t \in Ready(ts)}
  <2>1. \A t \in Runnable(ts) : ts[t].place \in 1..MaxTasks
    BY PlaceType, IdSets
  <2>2. P \in SUBSET Nat /\ P # {}
    <3>1. \A t \in Ready(ts) : MaxTasks - ts[t].place \in Nat
      BY <2>1, IdSets, Capacity
    <3> QED BY <1>2, <3>1
  <2>3. PICK m \in P : \A k \in P : m <= k
    <3> HIDE DEF P
    <3> QED BY <2>2, Least
  <2>4. PICK t \in Ready(ts) : MaxTasks - ts[t].place = m
    OBVIOUS
  <2> DEFINE Before == {u \in Runnable(ts) : ts[u].place < ts[t].place}
  <2>5. Ready(ts) \ {t} \subseteq Before
    <3> SUFFICES ASSUME NEW u \in Ready(ts), u # t PROVE u \in Before
      OBVIOUS
    <3>1. u \in Runnable(ts) /\ t \in Runnable(ts)
      BY IdSets
    <3>2. MaxTasks - ts[t].place <= MaxTasks - ts[u].place
      BY <2>3, <2>4
    <3>3. ts[u].place # ts[t].place
      BY <3>1, IdSets DEF Placed
    <3>4. ts[u].place \in 1..MaxTasks /\ ts[t].place \in 1..MaxTasks
      BY <2>1, <3>1
    <3>5. ts[u].place < ts[t].place
      BY ONLY Capacity, <3>2, <3>3, <3>4
    <3> QED BY <3>1, <3>5
  <2>6. Cardinality(Before) < MaxParallel
    BY DEF Ready
  <2>7. IsFiniteSet(Before) /\ Cardinality(Before) \in Nat
    BY Counted, IdSets
  <2>8. IsFiniteSet(Ready(ts))
    BY Counted, IdSets
  <2>9. Cardinality(Ready(ts) \ {t}) = Cardinality(Ready(ts)) - 1
    BY <2>4, <2>8, FS_RemoveElement
  <2>10. Cardinality(Ready(ts) \ {t}) <= Cardinality(Before)
    BY <2>5, <2>7, FS_Subset
  <2>11. Cardinality(Ready(ts)) \in Nat /\ Cardinality(Ready(ts) \ {t}) \in Nat
    BY <2>8, Counted, IdSets
  <2> QED BY ONLY <2>6, <2>7, <2>9, <2>10, <2>11, Capacity
<1> QED BY <1>1, <1>2

\* Tasks added to the end of the list stand in places of their own.
LEMMA ExtendedPlaced ==
    ASSUME NEW ts \in Board, Placed(ts),
           NEW S \in SUBSET (Ids \ TaskIds(ts)), NEW known \in SUBSET Ids,
           NEW new \in Lists(S, Cardinality(TaskIds(ts)), known),
           Cardinality(TaskIds(ts)) + Cardinality(S) <= MaxTasks
    PROVE  /\ Extended(ts, new) \in Board
           /\ Placed(Extended(ts, new))
           /\ TaskIds(Extended(ts, new)) = TaskIds(ts) \cup S
           /\ \A t \in S : Extended(ts, new)[t].deps \subseteq known \cup S
<1> DEFINE n == Cardinality(TaskIds(ts))
           more == Extended(ts, new)
<1>1. PICK b \in [S -> Branches], d \in [S -> SUBSET (known \cup S)],
           p \in Orders(S, n) :
         new = [t \in S |-> [branch |-> b[t], deps |-> d[t], place |-> p[t]]]
  BY DEF Lists
<1>2. /\ p \in [S -> (n + 1)..(n + Cardinality(S))]
      /\ \A t, u \in S : p[t] = p[u] => t = u
  BY <1>1 DEF Orders
<1>3. TaskIds(ts) \subseteq Ids /\ S \subseteq Ids
  BY IdSets
<1>4. n \in Nat /\ Cardinality(S) \in Nat /\ IsFiniteSet(S) /\ IsFiniteSet(TaskIds(ts))
  BY <1>3, Counted
<1>5. \A t \in S : /\ more[t] = new[t] /\ new[t].place = p[t] /\ new[t].deps = d[t]
                   /\ new[t] \in Task
  <2> TAKE t \in S
  <2>1. p[t] \in (n + 1)..(n + Cardinality(S))
    BY <1>2
  <2>2. p[t] \in 1..MaxTasks
    <3> HIDE DEF n
    <3> QED BY <1>4, <2>1, Capacity DEF n
  <2>3. d[t] \in SUBSET Ids
    BY <1>1, <1>3
  <2>4. new[t] = [branch |-> b[t], deps |-> d[t], place |-> p[t]]
    BY <1>1
  <2>5. t \in Ids /\ DOMAIN new = S
    BY <1>1
  <2> QED BY <2>2, <2>3, <2>4, <2>5 DEF Task, Extended
<1>6. \A t \in Ids \ S : more[t] = ts[t]
  BY <1>1 DEF Extended
<1>7. more \in Board
  <2>1. more = [t \in Ids |-> IF t \in S THEN new[t] ELSE ts[t]]
    BY <1>1 DEF Extended
  <2> QED BY <1>5, <2>1 DEF Board
<1>8. TaskIds(more) = TaskIds(ts) \cup S
  <2>1. \A t \in S : t \in TaskIds(more)
    BY <1>5, NoneAssumption DEF TaskIds
  <2> QED BY <1>6, <2>1 DEF TaskIds
<1>9. Cardinality(TaskIds(more)) = n + Cardinality(S)
  <2>1. TaskIds(ts) \cap S = {}
    OBVIOUS
  <2>2. Cardinality(TaskIds(ts) \cap S) = 0
    BY <2>1, FS_EmptySet
  <2>3. Cardinality(TaskIds(ts) \cup S)
          = Cardinality(TaskIds(ts)) + Cardinality(S) - Cardinality(TaskIds(ts) \cap S)
    BY <1>4, FS_Union
  <2> HIDE DEF more
  <2> QED BY <1>4, <1>8, <2>2, <2>3
<1>10. \A t \in TaskIds(ts) : more[t] = ts[t] /\ ts[t].place \in Nat /\ ts[t].place <= n
  <2> TAKE t \in TaskIds(ts)
  <2>1. more[t] = ts[t]
    BY <1>3, <1>6
  <2>2. ts[t].place \in Nat
    BY PlaceType, Capacity
  <2> QED BY <2>1, <2>2 DEF Placed
<1>11. \A t \in S : more[t].place \in Nat /\ n < more[t].place
                    /\ more[t].place <= n + Cardinality(S)
  <2> TAKE t \in S
  <2>1. p[t] \in (n + 1)..(n + Cardinality(S))
    BY <1>2
  <2>2. more[t].place = p[t]
    BY <1>5
  <2> HIDE DEF n, more
  <2> QED BY ONLY <1>4, <2>1, <2>2
<1>12. Placed(more)
  <2>1. ASSUME NEW t \in TaskIds(more), NEW u \in TaskIds(more),
               more[t].place = more[u].place
        PROVE  t = u
    <3> HIDE DEF n, more
    <3>1. CASE t \in TaskIds(ts) /\ u \in TaskIds(ts)
      BY <1>10, <2>1, <3>1 DEF Placed
    <3>2. CASE t \in S /\ u \in S
      BY <1>2, <1>5, <2>1, <3>2
    <3>3. ~(t \in TaskIds(ts) /\ u \in S) /\ ~(u \in TaskIds(ts) /\ t \in S)
      BY <1>4, <1>10, <1>11, <2>1
    <3> QED BY <1>8, <3>1, <3>2, <3>3
  <2>2. ASSUME NEW t \in TaskIds(more)
        PROVE  more[t].place <= Cardinality(TaskIds(more))
    <3> HIDE DEF n, more
    <3> QED BY <1>4, <1>8, <1>9, <1>10, <1>11
  <2>3. Cardinality(TaskIds(more)) <= MaxTasks
    BY <1>9
  <2> QED BY <2>1, <2>2, <2>3 DEF Placed
<1>13. \A t \in S : more[t].deps \subseteq known \cup S
  <2> TAKE t \in S
  <2>1. more[t].deps = d[t]
    BY <1>5
  <2>2. d[t] \in SUBSET (known \cup S)
    BY <1>1
  <2> QED BY <2>1, <2>2
<1> QED BY <1>7, <1>8, <1>12, <1>13

\* What bind_case restores can be scheduled: nothing ran yet, and what the tasks
\* depend on are saved papers and each other, without a cycle.
Fresh ==
    at = "bind_case" =>
        /\ Acyclic(tasks)
        /\ \A t \in Ids : results[t] = << >>
        /\ \A t \in TaskIds(tasks) : tasks[t].deps \subseteq SeedIds \cup TaskIds(tasks)

PInv == Fresh /\ Placed(tasks) /\ WithinCapacity /\ NeverStranded

\* Restored tasks are all of the first list.
LEMMA RestoredTasks ==
    ASSUME Init
    PROVE  /\ Placed(tasks)
           /\ \A t \in TaskIds(tasks) : tasks[t].deps \subseteq SeedIds \cup TaskIds(tasks)
<1> DEFINE none == [t \in Ids |-> None]
<1>1. PICK S \in SUBSET (Ids \ SeedIds) :
         /\ Cardinality(S) <= MaxTasks
         /\ \E new \in Lists(S, 0, SeedIds) : tasks = Extended(none, new)
  BY DEF Init
<1>2. PICK new \in Lists(S, 0, SeedIds) : tasks = Extended(none, new)
  BY <1>1
<1>3. none \in Board /\ TaskIds(none) = {}
  BY DEF Board, TaskIds
<1>4. Cardinality(TaskIds(none)) = 0 /\ Cardinality({}) = 0
  BY <1>3, FS_EmptySet
<1>5. Placed(none)
  <2> HIDE DEF none
  <2> QED BY <1>3, <1>4, Capacity DEF Placed
<1>6. SeedIds \in SUBSET Ids /\ S \in SUBSET (Ids \ TaskIds(none))
  BY <1>3 DEF SeedIds
<1>7. Cardinality(TaskIds(none)) + Cardinality(S) <= MaxTasks
  <2>1. Cardinality(S) \in Nat
    BY <1>6, Counted
  <2> HIDE DEF none
  <2> QED BY <1>1, <1>4, <2>1
<1>8. new \in Lists(S, Cardinality(TaskIds(none)), SeedIds)
  <2> HIDE DEF none
  <2> QED BY <1>2, <1>4
<1>9. /\ Placed(Extended(none, new))
      /\ TaskIds(Extended(none, new)) = TaskIds(none) \cup S
      /\ \A t \in S : Extended(none, new)[t].deps \subseteq SeedIds \cup S
  <2> HIDE DEF none
  <2> QED BY <1>3, <1>5, <1>6, <1>7, <1>8, ExtendedPlaced
<1> HIDE DEF none
<1> QED BY <1>2, <1>3, <1>9

\* The restored tasks, if any, hold one that can run: by acyclicity one of them
\* depends on saved papers only.
LEMMA RestoredRuns ==
    ASSUME TypeOK, Fresh, at = "bind_case", TaskIds(tasks) # {}
    PROVE  Ready(tasks) # {}
<1>1. PICK t \in TaskIds(tasks) : tasks[t].deps \cap TaskIds(tasks) = {}
  BY DEF Fresh, Acyclic
<1>2. tasks[t].deps \subseteq Completed
  BY <1>1 DEF Fresh, Completed
<1>3. t \in Ids /\ t \notin Attempted
  BY DEF Fresh, Attempted, TaskIds
<1>4. t \in Runnable(tasks)
  BY <1>2, <1>3 DEF Runnable
<1>5. tasks \in Board
  BY DEF TypeOK, Board
<1> QED BY <1>4, <1>5, ReadyExists

\* No step disturbs the list of the tasks, a delegation adds to its end.
LEMMA PlacedStep == TypeOK /\ Disjoint /\ Placed(tasks) /\ [Next]_vars => Placed(tasks')
<1> SUFFICES ASSUME TypeOK, Disjoint, Placed(tasks), [Next]_vars PROVE Placed(tasks')
  OBVIOUS
<1>1. CASE Delegate
  <2>1. PICK new \in Additions : tasks' = Extended(tasks, new)
    BY <1>1 DEF Delegate
  <2>2. PICK S \in SUBSET (Ids \ Known) :
           /\ Cardinality(TaskIds(tasks)) + Cardinality(S) <= MaxTasks
           /\ new \in Lists(S, Cardinality(TaskIds(tasks)), Known)
    BY DEF Additions
  <2>3. tasks \in Board
    BY DEF TypeOK, Board
  <2>4. S \in SUBSET (Ids \ TaskIds(tasks)) /\ Known \in SUBSET Ids
    BY <2>2 DEF Known, SeedIds, TaskIds
  <2>5. Placed(Extended(tasks, new))
    BY <2>2, <2>3, <2>4, ExtendedPlaced
  <2> QED BY <2>1, <2>5
<1>2. CASE tasks' = tasks
  BY <1>2
<1> QED BY <1>1, <1>2, TasksStep

\* A step into a superstep sends it a worker.
LEMMA StrandedStep ==
    ASSUME TypeOK, Phased, Fresh, NeverStranded, [Next]_vars
    PROVE  NeverStranded'
<1>1. CASE Initialize
  <2>1. CASE TaskIds(tasks) # {}
    <3>1. at' = "specialist" /\ sent' = Ready(tasks) /\ phase' = "schedule_ready_tasks"
      BY <1>1, <2>1 DEF Initialize, Dispatch
    <3>2. Ready(tasks) # {}
      BY <1>1, <2>1, RestoredRuns DEF Initialize, Running
    <3> QED BY <3>1, <3>2 DEF NeverStranded
  <2>2. CASE TaskIds(tasks) = {}
    BY <1>1, <2>2 DEF Initialize, Dispatch, NeverStranded
  <2> QED BY <2>1, <2>2
<1>2. CASE Delegate
  <2>1. PICK new \in Additions :
           /\ Ready(Extended(tasks, new)) # {}
           /\ phase' = "schedule_ready_tasks"
           /\ Dispatch(Extended(tasks, new), phase')
    BY <1>2 DEF Delegate
  <2> QED BY <2>1 DEF Dispatch, NeverStranded
<1>3. CASE Continue
  BY <1>3 DEF Continue, Dispatch, NeverStranded
<1>4. CASE Feedback \/ Submit
  BY <1>4 DEF Feedback, Submit, Dispatch, NeverStranded
<1>5. CASE \E t \in Ids, status \in Statuses : Worker(t, status)
  <2>1. PICK t \in Ids, status \in Statuses : Worker(t, status)
    BY <1>5
  <2>2. finished'[t] = status /\ status # "none"
    BY <2>1 DEF Worker, TypeOK, Statuses
  <2>3. phase' = phase /\ at = "specialist"
    BY <2>1 DEF Worker, board, Running
  <2> QED BY <2>2, <2>3 DEF NeverStranded
<1>6. CASE Decide \/ Join \/ Collect
  BY <1>6 DEF Decide, Join, Collect, NeverStranded
<1>7. CASE Raise \/ Restart \/ UNCHANGED vars
  BY <1>7 DEF Raise, Restart, vars, board, superstep, NeverStranded
<1> QED BY <1>1, <1>2, <1>3, <1>4, <1>5, <1>6, <1>7 DEF Next, Step

\* A worker that ends stays one of its superstep until the rows are appended.
LEMMA SuperstepStep ==
    ASSUME TypeOK, Phased, [Next]_vars
    PROVE  \/ Superstep' = Superstep
           \/ Superstep' = {}
           \/ at' = "specialist" /\ Superstep' = Ready(tasks')
<1>1. CASE /\ at \in {"bind_case", "lead_tools"}
           /\ Dispatch(tasks', phase') /\ finished' = finished
  <2>1. Superstep' = sent'
    BY <1>1 DEF Superstep, Phased
  <2> QED BY <1>1, <2>1 DEF Dispatch
<1>2. CASE Initialize \/ Feedback \/ Continue \/ Submit \/ Delegate
  BY <1>1, <1>2 DEF Initialize, Feedback, Continue, Submit, Delegate, Running
<1>3. CASE \E t \in Ids, status \in Statuses : Worker(t, status)
  <2>1. PICK t \in Ids, status \in Statuses : Worker(t, status)
    BY <1>3
  <2>2. /\ t \in sent /\ sent' = sent \ {t} /\ status # "none"
        /\ \A u \in Ids : finished'[u] = IF u = t THEN status ELSE finished[u]
    BY <2>1 DEF Worker, TypeOK, Statuses
  <2>3. Superstep' = Superstep
    BY <2>2 DEF Superstep
  <2> QED BY <2>3
<1>4. CASE Join
  <2>1. sent' = {} /\ \A t \in Ids : finished'[t] = "none"
    BY <1>4 DEF Join
  <2> QED BY <2>1 DEF Superstep
<1>5. CASE sent' = sent /\ finished' = finished
  BY <1>5 DEF Superstep
<1>6. CASE Decide \/ Collect \/ Raise \/ Restart \/ UNCHANGED vars
  BY <1>5, <1>6 DEF Decide, Collect, Raise, Restart, vars, superstep
<1> QED BY <1>2, <1>3, <1>4, <1>6 DEF Next, Step

LEMMA CapacityStep ==
    ASSUME TypeOK, TypeOK', Disjoint, Phased, Placed(tasks), WithinCapacity, [Next]_vars
    PROVE  WithinCapacity'
<1>1. Placed(tasks') /\ tasks' \in Board
  BY PlacedStep DEF TypeOK, Board
<1>2. Cardinality(TaskIds(tasks)') <= MaxTasks
  BY <1>1 DEF Placed
<1>3. Cardinality(Superstep') <= MaxParallel
  <2>1. CASE Superstep' = Superstep
    BY <2>1 DEF WithinCapacity
  <2>2. CASE Superstep' = {}
    <3>1. Cardinality(Superstep') = 0
      BY <2>2, FS_EmptySet
    <3> QED BY <3>1, Capacity
  <2>3. CASE Superstep' = Ready(tasks')
    BY <1>1, <2>3, ReadyBound
  <2> QED BY <2>1, <2>2, <2>3, SuperstepStep
<1> QED BY <1>2, <1>3 DEF WithinCapacity

LEMMA FreshStep == ASSUME Fresh, [Next]_vars PROVE Fresh'
<1>1. CASE at' # "bind_case"
  BY <1>1 DEF Fresh
<1>2. CASE at' = "bind_case"
  <2>1. /\ at = "bind_case" /\ tasks' = tasks /\ results' = results /\ seeds' = seeds
    BY <1>2 DEF Next, Step, Initialize, Decide, Feedback, Delegate, Continue, Submit,
                Worker, Join, Collect, Raise, Restart, Dispatch, vars, config, board,
                superstep
  <2> QED BY <2>1 DEF Fresh, Acyclic, TaskIds, SeedIds
<1> QED BY <1>1, <1>2

LEMMA InitPInv == Init => PInv
<1> SUFFICES ASSUME Init PROVE PInv
  OBVIOUS
<1>1. /\ Acyclic(tasks) /\ results = [t \in Ids |-> << >>] /\ at = "bind_case"
      /\ sent = {} /\ finished = [t \in Ids |-> "none"]
  BY DEF Init
<1>2. Fresh
  BY <1>1, RestoredTasks DEF Fresh
<1>3. Superstep = {}
  BY <1>1 DEF Superstep
<1>4. Cardinality(Superstep) = 0
  BY <1>3, FS_EmptySet
<1>5. WithinCapacity
  BY <1>4, RestoredTasks, Capacity DEF WithinCapacity, Placed
<1> QED BY <1>1, <1>2, <1>5, RestoredTasks DEF PInv, NeverStranded

\* Supersteps of every reachable state are planned within the limits.
THEOREM LeadScheduled == Spec => [](LInv /\ PInv)
<1>1. LInv /\ PInv /\ LInv' /\ [Next]_vars => PInv'
  <2> SUFFICES ASSUME LInv, PInv, LInv', [Next]_vars PROVE PInv'
    OBVIOUS
  <2>1. /\ TypeOK /\ TypeOK' /\ Disjoint /\ Phased /\ Fresh /\ Placed(tasks)
        /\ WithinCapacity /\ NeverStranded
    BY DEF LInv, PInv
  <2>2. Placed(tasks')
    BY <2>1, PlacedStep
  <2>3. Fresh' /\ NeverStranded' /\ WithinCapacity'
    BY <2>1, FreshStep, StrandedStep, CapacityStep
  <2>4. Placed(tasks)'
    BY <2>2 DEF Placed, TaskIds
  <2> QED BY <2>3, <2>4 DEF PInv
<1> QED BY LeadInductive, InitPInv, <1>1, PTL DEF Spec

\* A superstep is never sent without a worker (dispatch).
THEOREM LeadNeverStranded == Spec => []NeverStranded
<1>1. PInv => NeverStranded
  BY DEF PInv
<1> QED BY LeadScheduled, <1>1, PTL

\* No superstep is wider than max_parallel_tasks, and no list longer than
\* max_tasks (ready, lead_task_limit).
THEOREM LeadWithinCapacity == Spec => []WithinCapacity
<1>1. PInv => WithinCapacity
  BY DEF PInv
<1> QED BY LeadScheduled, <1>1, PTL

-----------------------------------------------------------------------------
(* The work that is left.                                                  *)

LEMMA RemainingType ==
    ASSUME TypeOK, WithinCapacity
    PROVE  /\ Remaining \in Nat /\ NodeCost \in Nat /\ TurnCost \in Nat
           /\ NodeCost <= TurnCost
           /\ (MaxTurns - turns) * TurnCost \in Nat
<1>1. Cardinality(sent) \in Nat /\ Cardinality(sent) <= MaxParallel
  <2>1. sent \subseteq Superstep /\ Superstep \subseteq Ids
    BY DEF Superstep, TypeOK
  <2>2. /\ IsFiniteSet(Superstep) /\ Cardinality(Superstep) \in Nat
        /\ Cardinality(sent) \in Nat
    BY <2>1, Counted DEF TypeOK
  <2>3. Cardinality(sent) <= Cardinality(Superstep)
    BY <2>1, <2>2, FS_Subset
  <2> QED BY <2>2, <2>3, Capacity DEF WithinCapacity
<1>2. TurnCost \in Nat /\ TurnCost = MaxParallel + 4
  BY Capacity DEF TurnCost
<1>3. NodeCost \in Nat /\ NodeCost <= TurnCost
  <2>1. at \in Nodes
    BY DEF TypeOK
  <2>2. NodeCost \in {0, 1, 2, 3 + Cardinality(sent), TurnCost}
    BY <2>1 DEF NodeCost, Nodes
  <2> QED BY ONLY <1>1, <1>2, <2>2, Capacity
<1>4. (MaxTurns - turns) * TurnCost \in Nat
  <2>1. turns \in 0..MaxTurns
    BY DEF TypeOK
  <2>2. MaxTurns - turns \in Nat
    BY ONLY <2>1, Capacity
  <2> QED BY ONLY <1>2, <2>2
<1>5. Remaining \in Nat
  BY <1>3, <1>4 DEF Remaining
<1> QED BY <1>2, <1>3, <1>4, <1>5

\* One turn more taken is one turn's cost less to come.
LEMMA TurnSpent ==
    ASSUME NEW c \in Nat, NEW k \in Nat, k < MaxTurns
    PROVE  (MaxTurns - k) * c = (MaxTurns - (k + 1)) * c + c
<1>1. \A a \in Nat : (a + 1) * c = a * c + c
  OBVIOUS
<1>2. MaxTurns - (k + 1) \in Nat /\ MaxTurns - k = (MaxTurns - (k + 1)) + 1
  BY Capacity
<1> QED BY <1>1, <1>2

\* A node other than the Lead's spends no turn, and is followed by a cheaper one.
LEMMA CheaperNode ==
    ASSUME TypeOK, WithinCapacity, turns' = turns, at # "end",
           NodeCost' \in Nat, NodeCost' < NodeCost
    PROVE  Remaining' < Remaining
<1> DEFINE c == (MaxTurns - turns) * TurnCost
<1>1. c \in Nat /\ NodeCost \in Nat /\ NodeCost' \in Nat
  BY RemainingType
<1>2. Remaining = c + NodeCost
  BY DEF Remaining
<1>3. Remaining' = 0 \/ Remaining' = c + NodeCost'
  BY DEF Remaining, TurnCost
<1> HIDE DEF c
<1> QED BY <1>1, <1>2, <1>3

\* Whatever is dispatched costs less than the turn that dispatched it.
LEMMA DispatchCost ==
    ASSUME TypeOK, TypeOK', WithinCapacity', NEW ts, NEW p, Dispatch(ts, p),
           at \in {"bind_case", "lead_tools"}
    PROVE  NodeCost' \in Nat /\ NodeCost' < NodeCost
<1>1. NodeCost = MaxParallel + 4
  BY DEF NodeCost, TurnCost
<1>2. at' \in {"specialist", "end", "lead"}
  BY DEF Dispatch
<1>3. CASE at' = "specialist"
  <2>1. sent' \subseteq Superstep' /\ Superstep' \subseteq Ids /\ sent' \subseteq Ids
    BY DEF Superstep, TypeOK
  <2>2. /\ IsFiniteSet(Superstep') /\ Cardinality(Superstep') \in Nat
        /\ Cardinality(sent') \in Nat
    BY <2>1, Counted
  <2>3. Cardinality(sent') <= Cardinality(Superstep')
    BY <2>1, <2>2, FS_Subset
  <2>4. Cardinality(Superstep') <= MaxParallel
    BY DEF WithinCapacity
  <2>5. NodeCost' = 3 + Cardinality(sent')
    BY <1>3 DEF NodeCost
  <2> QED BY ONLY <1>1, <2>2, <2>3, <2>4, <2>5, Capacity
<1>4. CASE at' \in {"end", "lead"}
  <2>1. NodeCost' \in {0, 1}
    BY <1>4 DEF NodeCost
  <2> QED BY <1>1, <2>1, Capacity
<1> QED BY <1>2, <1>3, <1>4

LEMMA SpendingStep ==
    ASSUME LInv, PInv, LInv', PInv', Step
    PROVE  Remaining' < Remaining
<1> USE DEF config, board, superstep
<1>1. TypeOK /\ TypeOK' /\ WithinCapacity /\ WithinCapacity'
  BY DEF LInv, PInv
<1>2. CASE Initialize \/ Feedback \/ Delegate \/ Continue \/ Submit
  <2>1. turns' = turns /\ at \in {"bind_case", "lead_tools"}
    BY <1>2 DEF Initialize, Feedback, Delegate, Continue, Submit, Running
  <2>2. \E ts \in {tasks'} : Dispatch(ts, phase')
    BY <1>2 DEF Initialize, Feedback, Delegate, Continue, Submit
  <2>3. NodeCost' \in Nat /\ NodeCost' < NodeCost
    BY <1>1, <2>1, <2>2, DispatchCost
  <2> QED BY <1>1, <2>1, <2>3, CheaperNode
<1>3. CASE Decide
  <2>1. at = "lead" /\ NodeCost = 1
    BY <1>3 DEF Decide, Running, NodeCost
  <2>2. CASE turns >= MaxTurns
    <3>1. turns' = turns /\ at' = "end"
      BY <1>3, <2>2 DEF Decide
    <3>2. NodeCost' = 0
      BY <3>1 DEF NodeCost
    <3> QED BY <1>1, <2>1, <3>1, <3>2, CheaperNode
  <2>3. CASE ~(turns >= MaxTurns)
    <3>1. turns' = turns + 1 /\ at' = "lead_tools"
      BY <1>3, <2>3 DEF Decide
    <3>2. turns \in Nat /\ turns < MaxTurns
      <4>1. turns \in 0..MaxTurns
        BY <1>1 DEF TypeOK
      <4> QED BY ONLY <2>3, <4>1, Capacity
    <3>3. (MaxTurns - turns) * TurnCost = (MaxTurns - turns') * TurnCost + TurnCost
      <4>1. TurnCost \in Nat
        BY <1>1, RemainingType
      <4> QED BY <3>1, <3>2, <4>1, TurnSpent
    <3>4. NodeCost' = TurnCost
      BY <3>1 DEF NodeCost, TurnCost
    <3>5. Remaining' = (MaxTurns - turns') * TurnCost + TurnCost
      BY <3>1, <3>4 DEF Remaining, TurnCost
    <3>6. Remaining = (MaxTurns - turns) * TurnCost + 1
      BY <2>1 DEF Remaining
    <3>7. Remaining \in Nat /\ (MaxTurns - turns) * TurnCost \in Nat
      BY <1>1, RemainingType
    <3>8. Remaining' = (MaxTurns - turns) * TurnCost
      BY <3>3, <3>5
    <3> QED BY ONLY <3>6, <3>7, <3>8
  <2> QED BY <2>2, <2>3
<1>4. CASE \E t \in Ids, status \in Statuses : Worker(t, status)
  <2>1. PICK t \in Ids, status \in Statuses : Worker(t, status)
    BY <1>4
  <2>2. /\ at = "specialist" /\ at' = at /\ turns' = turns
        /\ t \in sent /\ sent' = sent \ {t}
    BY <2>1 DEF Worker, Running
  <2>3. IsFiniteSet(sent) /\ Cardinality(sent) \in Nat
    BY <1>1, Counted DEF TypeOK
  <2>4. Cardinality(sent') = Cardinality(sent) - 1
    BY <2>2, <2>3, FS_RemoveElement
  <2>5. NodeCost = 3 + Cardinality(sent) /\ NodeCost' = 3 + Cardinality(sent')
    BY <2>2 DEF NodeCost
  <2>6. 1 <= Cardinality(sent)
    <3>1. Cardinality(sent) # 0
      BY <2>2, <2>3, FS_EmptySet
    <3> QED BY ONLY <2>3, <3>1
  <2>7. NodeCost' \in Nat /\ NodeCost' < NodeCost
    BY ONLY <2>3, <2>4, <2>5, <2>6
  <2> QED BY <1>1, <2>2, <2>7, CheaperNode
<1>5. CASE Join
  <2>1. at = "specialist" /\ at' = "collect" /\ turns' = turns /\ sent = {}
    BY <1>5 DEF Join, Running
  <2>2. Cardinality(sent) = 0
    BY <2>1, FS_EmptySet
  <2>3. NodeCost = 3 /\ NodeCost' = 2
    BY <2>1, <2>2 DEF NodeCost
  <2> QED BY <1>1, <2>1, <2>3, CheaperNode
<1>6. CASE Collect
  <2>1. at = "collect" /\ at' \in {"lead", "end"} /\ turns' = turns
    BY <1>6 DEF Collect, Running
  <2>2. NodeCost = 2 /\ NodeCost' \in {0, 1}
    BY <2>1 DEF NodeCost
  <2> QED BY <1>1, <2>1, <2>2, CheaperNode
<1> QED BY <1>2, <1>3, <1>4, <1>5, <1>6 DEF Step

\* Every node of the graph spends some of a bounded budget; errors and restarts
\* leave it alone (decide, lead_turn_ceiling, Send).
THEOREM LeadSpendsDown == Spec => SpendsDown
<1> DEFINE Spend == \/ Remaining' < Remaining /\ errored' = errored
                    \/ Remaining' = Remaining /\ errored' # errored
           Inv == LInv /\ PInv
<1>1. Inv /\ Inv' /\ [Next]_vars => [Spend]_vars
  <2> SUFFICES ASSUME LInv, PInv, LInv', PInv', Next PROVE Spend
    OBVIOUS
  <2>1. CASE Step
    <3>1. errored' = errored
      BY <2>1 DEF Step, Initialize, Decide, Feedback, Delegate, Continue, Submit, Worker,
                  Join, Collect
    <3> QED BY <2>1, <3>1, SpendingStep
  <2>2. CASE Raise \/ Restart
    <3>1. /\ errored' # errored /\ turns' = turns /\ at' = at /\ sent' = sent
      BY <2>2 DEF Raise, Restart, board, superstep
    <3> QED BY <3>1 DEF Remaining, NodeCost, TurnCost
  <2> QED BY <2>1, <2>2 DEF Next
<1> HIDE DEF Spend
<1>2. Spec => []Inv
  BY LeadScheduled
<1>3. Spec => [][Spend]_vars
  BY <1>1, <1>2, PTL DEF Spec
<1> QED BY <1>3 DEF Spend, SpendsDown

\* The budget of a run: a superstep's cost for each turn, and one more for the
\* restored tasks.
THEOREM LeadBudget ==
    Spec => [](Remaining \in Nat /\ Remaining <= (MaxTurns + 1) * (MaxParallel + 4))
<1>1. LInv /\ PInv =>
        Remaining \in Nat /\ Remaining <= (MaxTurns + 1) * (MaxParallel + 4)
  <2> SUFFICES ASSUME TypeOK, WithinCapacity
               PROVE  Remaining \in Nat /\ Remaining <= (MaxTurns + 1) * (MaxParallel + 4)
    BY DEF LInv, PInv
  <2>1. /\ Remaining \in Nat /\ NodeCost \in Nat /\ TurnCost \in Nat
        /\ NodeCost <= TurnCost
        /\ (MaxTurns - turns) * TurnCost \in Nat
    BY RemainingType
  <2>2. \A a, b, c \in Nat : a <= b => a * c <= b * c
    OBVIOUS
  <2>3. \A a, c \in Nat : (a + 1) * c = a * c + c
    OBVIOUS
  <2>4. MaxTurns \in Nat /\ MaxTurns - turns \in Nat /\ MaxTurns - turns <= MaxTurns
    <3>1. turns \in 0..MaxTurns
      BY DEF TypeOK
    <3> QED BY ONLY <3>1, Capacity
  <2>5. (MaxTurns - turns) * TurnCost <= MaxTurns * TurnCost
    BY <2>1, <2>2, <2>4
  <2>6. (MaxTurns + 1) * TurnCost = MaxTurns * TurnCost + TurnCost
    BY <2>1, <2>3, <2>4
  <2>7. MaxTurns * TurnCost \in Nat
    BY ONLY <2>1, <2>4
  <2>8. Remaining <= (MaxTurns - turns) * TurnCost + NodeCost
    BY <2>1 DEF Remaining
  <2>9. Remaining <= (MaxTurns + 1) * TurnCost
    BY ONLY <2>1, <2>5, <2>6, <2>7, <2>8
  <2> QED BY <2>1, <2>9 DEF TurnCost
<1> QED BY LeadScheduled, <1>1, PTL
=============================================================================
