---------------------------- MODULE LeadResearch ----------------------------
(***************************************************************************)
(* The Lead's graph: bind_case -> lead -> lead_tools -> specialist (several *)
(* in parallel) -> collect -> lead ..., until a handoff or an attention    *)
(* stop.  The Lead is a language model: it may ask for anything, and what  *)
(* it asks is accepted or fed back as an error.  Workers of one superstep  *)
(* finish in any order; their rows are appended together when the last one *)
(* has finished.  A node that raises ends the run with an error, and a     *)
(* restart of that run repeats what was not yet written: the node, or the  *)
(* workers of the superstep that had not finished.                         *)
(***************************************************************************)
EXTENDS Naturals, Sequences, FiniteSets

CONSTANTS
    Ids,            \* task ids
    Branches,       \* allowed_branch_ids
    MaxTasks,       \* max_tasks
    MaxParallel,    \* max_parallel_tasks
    MaxTurns,       \* max_lead_turns
    MaxDelegated,   \* bound on the tasks of one delegation, and restored
    MaxRestarts,    \* bound on restarts of an errored run
    None

Task == [branch : Branches, deps : SUBSET Ids, place : 1..MaxTasks]
Statuses == {"submitted", "needs_attention", "execution_failure"}
Depths == {"focused", "integrated"}     \* "extended" is treated as integrated here
Handoff == [disposition : {"ready_for_review", "needs_attention"},
            acknowledged : SUBSET Ids, unresolved : BOOLEAN,
            depth : Depths]
Nodes == {"bind_case", "lead", "lead_tools", "specialist", "collect", "end"}
Phases == {"", "schedule_ready_tasks", "lead_observing", "lead_tool_pending",
           "research_ready_for_review", "research_needs_attention"}

\* build_lead_research_graph: lead_scope_or_capacity_invalid.
ASSUME CapacityAssumption ==
    /\ MaxTasks \in Nat /\ MaxParallel \in Nat /\ MaxTurns \in Nat
    /\ 1 <= MaxParallel /\ MaxParallel <= MaxTasks /\ MaxTasks <= 24
    /\ 2 <= MaxTurns /\ MaxTurns <= 24
    /\ MaxRestarts \in Nat /\ MaxDelegated \in Nat
ASSUME FiniteAssumption == IsFiniteSet(Ids)
ASSUME NoneAssumption == None \notin Branches \cup Task \cup Handoff

VARIABLES
    seeds,          \* the branch of each workpaper the graph is built with
    bounded,        \* unfinished_only: no new tasks
    requireAll,     \* require_all_branches
    tasks,          \* state["tasks"]; place is the position in the list
    results,        \* state["task_results"]: the rows of each task
    turns,          \* len(state["lead_turns"])
    phase,          \* state["phase"]
    handoff,        \* state["lead_handoff"]
    stop,           \* state["stop_reason"]
    active,         \* state["active_task_ids"]
    at,             \* the node to run next
    sent,           \* workers of the superstep that have not finished
    finished,       \* rows of those that have, not yet applied
    errored,        \* the run ended with an error
    restarts

config == <<seeds, bounded, requireAll>>
board == <<tasks, results, turns, phase, handoff, stop, active>>
superstep == <<at, sent, finished>>
vars == <<config, board, superstep, errored, restarts>>

-----------------------------------------------------------------------------
SeedIds == {t \in Ids : seeds[t] # None}
TaskIds(ts) == {t \in Ids : ts[t] # None}
Submitted == {t \in Ids : \E k \in DOMAIN results[t] : results[t][k] = "submitted"}
Completed == SeedIds \cup Submitted
Attempted == {t \in Ids : results[t] # << >>}
Failed == {t \in Ids : \E k \in DOMAIN results[t] : results[t][k] # "submitted"}
Pending == TaskIds(tasks) \ Attempted
Incomplete == TaskIds(tasks) \ Completed

\* Faulty: a failed attempt is forgotten.
RunnableAgain(ts) == {t \in TaskIds(ts) \ Completed : ts[t].deps \subseteq Completed}
Runnable(ts) == {t \in TaskIds(ts) \ Attempted : ts[t].deps \subseteq Completed}
\* ready: the first max_parallel_tasks of the list.
Ready(ts) ==
    {t \in Runnable(ts) :
        Cardinality({u \in Runnable(ts) : ts[u].place < ts[t].place}) < MaxParallel}

\* TopologicalSorter finds no cycle.
Acyclic(ts) ==
    \A S \in SUBSET TaskIds(ts) : S # {} => \E t \in S : ts[t].deps \cap S = {}

Coverage ==
    {seeds[t] : t \in SeedIds} \cup {tasks[t].branch : t \in Submitted}

\* Lists of tasks that are S, added to n others, and may depend on `known`.
Orders(S, n) ==
    {p \in [S -> (n + 1)..(n + Cardinality(S))] :
        \A t, u \in S : p[t] = p[u] => t = u}
Lists(S, n, known) ==
    {[t \in S |-> [branch |-> b[t], deps |-> d[t], place |-> p[t]]] :
        b \in [S -> Branches], d \in [S -> SUBSET (known \cup S)], p \in Orders(S, n)}
Extended(ts, new) == [t \in Ids |-> IF t \in DOMAIN new THEN new[t] ELSE ts[t]]

TypeOK ==
    /\ seeds \in [Ids -> Branches \cup {None}]
    /\ bounded \in BOOLEAN /\ requireAll \in BOOLEAN
    /\ tasks \in [Ids -> Task \cup {None}]
    /\ results \in [Ids -> Seq(Statuses)]
    /\ turns \in 0..MaxTurns
    /\ phase \in Phases
    /\ handoff \in Handoff \cup {None}
    /\ stop \in {"", "lead_turn_ceiling", "execution_failure"}
    /\ active \in SUBSET Ids
    /\ at \in Nodes
    /\ sent \in SUBSET Ids
    /\ finished \in [Ids -> Statuses \cup {"none"}]
    /\ errored \in BOOLEAN
    /\ restarts \in 0..MaxRestarts

\* A fresh question, a question on saved papers, or the continuation of an
\* incomplete one: `tasks` already holds the recovery tasks that bind_case will
\* put there.  A continuation with saved papers may only finish its tasks.
Init ==
    /\ seeds \in [Ids -> Branches \cup {None}]
    /\ \E S \in SUBSET (Ids \ SeedIds) :
          /\ Cardinality(S) <= MaxDelegated /\ Cardinality(S) <= MaxTasks
          /\ \E new \in Lists(S, 0, SeedIds) :
                tasks = Extended([t \in Ids |-> None], new)
    /\ Acyclic(tasks)
    /\ bounded \in BOOLEAN
    /\ bounded => SeedIds # {}
    /\ TaskIds(tasks) # {} /\ SeedIds # {} => bounded
    /\ requireAll \in BOOLEAN
    /\ results = [t \in Ids |-> << >>]
    /\ turns = 0 /\ phase = "" /\ handoff = None /\ stop = ""
    /\ active = {} /\ at = "bind_case" /\ sent = {}
    /\ finished = [t \in Ids |-> "none"]
    /\ errored = FALSE /\ restarts = 0

-----------------------------------------------------------------------------
Running(node) == at = node /\ ~errored

\* dispatch, called with the state a node has just written.
Dispatch(ts, newPhase) ==
    IF newPhase = "schedule_ready_tasks"
    THEN at' = "specialist" /\ sent' = Ready(ts)
    ELSE /\ at' = IF newPhase \in {"research_ready_for_review",
                                   "research_needs_attention"}
                  THEN "end" ELSE "lead"
         /\ sent' = {}

\* bind_case: restored tasks are run before the Lead's first turn.
Initialize ==
    /\ Running("bind_case")
    /\ phase' = IF TaskIds(tasks) # {} THEN "schedule_ready_tasks" ELSE "lead_observing"
    /\ Dispatch(tasks, phase')
    /\ UNCHANGED <<config, tasks, results, turns, handoff, stop, active, finished,
                   errored, restarts>>

\* Faulty: the ceiling is passed by one turn.
DecideOneMore ==
    /\ Running("lead")
    /\ turns <= MaxTurns
    /\ turns' = turns + 1
    /\ phase' = "lead_tool_pending"
    /\ at' = "lead_tools"
    /\ UNCHANGED <<config, tasks, results, handoff, stop, active, sent, finished,
                   errored, restarts>>

\* Faulty: only turns whose call was accepted are counted.
DecideUncounted ==
    /\ Running("lead")
    /\ phase' = "lead_tool_pending"
    /\ at' = "lead_tools"
    /\ UNCHANGED <<config, tasks, results, turns, handoff, stop, active, sent, finished,
                   errored, restarts>>

\* lead: one model turn, or none left.
Decide ==
    /\ Running("lead")
    /\ IF turns >= MaxTurns
       THEN /\ phase' = "research_needs_attention"
            /\ stop' = "lead_turn_ceiling"
            /\ at' = "end"
            /\ UNCHANGED turns
       ELSE /\ turns' = turns + 1
            /\ phase' = "lead_tool_pending"
            /\ at' = "lead_tools"
            /\ UNCHANGED stop
    /\ UNCHANGED <<config, tasks, results, handoff, active, sent, finished, errored,
                   restarts>>

\* lead_tools, for all that is not accepted: several calls, an invalid one, a
\* memory call, or a planning call some check refuses.
Feedback ==
    /\ Running("lead_tools")
    /\ phase' = "lead_observing"
    /\ Dispatch(tasks, phase')
    /\ UNCHANGED <<config, tasks, results, turns, handoff, stop, active, finished,
                   errored, restarts>>

\* What DelegateResearchTasksAction may add: new ids, within max_tasks, that
\* depend on known ids and on each other.
Known == SeedIds \cup TaskIds(tasks)
Additions ==
    LET n == Cardinality(TaskIds(tasks))
    IN  UNION {Lists(S, n, Known) :
                 S \in {X \in SUBSET (Ids \ Known) :
                          /\ X # {}
                          /\ Cardinality(X) <= MaxDelegated
                          /\ n + Cardinality(X) <= MaxTasks}}

\* Faulty: nobody looks whether any of the tasks can run.
DelegateUnchecked ==
    /\ Running("lead_tools")
    /\ ~bounded
    /\ \E new \in Additions :
          /\ tasks' = Extended(tasks, new)
          /\ phase' = "schedule_ready_tasks"
          /\ Dispatch(Extended(tasks, new), phase')
    /\ UNCHANGED <<config, results, turns, handoff, stop, active, finished, errored,
                   restarts>>

\* lead_tools with an accepted delegation.
Delegate ==
    /\ Running("lead_tools")
    /\ ~bounded
    /\ \E new \in Additions :
          /\ Acyclic(Extended(tasks, new))
          /\ Ready(Extended(tasks, new)) # {}
          /\ tasks' = Extended(tasks, new)
          /\ phase' = "schedule_ready_tasks"
          /\ Dispatch(Extended(tasks, new), phase')
    /\ UNCHANGED <<config, results, turns, handoff, stop, active, finished, errored,
                   restarts>>

\* lead_tools with an accepted continuation.
Continue ==
    /\ Running("lead_tools")
    /\ Ready(tasks) # {}
    /\ phase' = "schedule_ready_tasks"
    /\ Dispatch(tasks, phase')
    /\ UNCHANGED <<config, tasks, results, turns, handoff, stop, active, finished,
                   errored, restarts>>

\* Faulty: acknowledging a task that never ran is enough.
ReviewAllowedAcknowledged(depth) ==
    /\ depth = "focused" => Cardinality(Completed) = 1
    /\ Completed # {}
    /\ requireAll => Branches \subseteq Coverage

\* SubmitResearchHandoffAction, ready_for_review.
ReviewAllowed(depth) ==
    /\ depth = "focused" => Cardinality(Completed) = 1
    /\ Incomplete \subseteq Failed
    /\ Completed # {}
    /\ requireAll => Branches \subseteq Coverage

\* lead_tools with an accepted handoff.
Submit ==
    /\ Running("lead_tools")
    /\ \E h \in Handoff :
          /\ h.acknowledged = Incomplete
          /\ h.disposition = "ready_for_review" => ~h.unresolved /\ ReviewAllowed(h.depth)
          /\ handoff' = h
          /\ phase' = IF h.disposition = "ready_for_review"
                      THEN "research_ready_for_review" ELSE "research_needs_attention"
          /\ Dispatch(tasks, phase')
    /\ stop' = ""
    /\ UNCHANGED <<config, tasks, results, turns, active, finished, errored, restarts>>

\* specialist: one worker of the superstep ends with a paper, a handoff of its
\* own, or at one of its execution limits.
Worker(t, status) ==
    /\ Running("specialist")
    /\ t \in sent
    /\ sent' = sent \ {t}
    /\ finished' = [finished EXCEPT ![t] = status]
    /\ UNCHANGED <<config, board, at, errored, restarts>>

\* The superstep is over: its rows are appended.
Join ==
    /\ Running("specialist")
    /\ sent = {}
    /\ results' = [t \in Ids |-> IF finished[t] = "none" THEN results[t]
                                 ELSE Append(results[t], finished[t])]
    /\ finished' = [t \in Ids |-> "none"]
    /\ at' = "collect"
    /\ UNCHANGED <<config, tasks, turns, phase, handoff, stop, active, sent, errored,
                   restarts>>

\* Faulty: active_task_ids is brought up to date before it is compared.
CollectUpdatedFirst ==
    /\ Running("collect")
    /\ active' = Attempted
    /\ IF \E t \in Attempted \ active' :
             \E k \in DOMAIN results[t] : results[t][k] = "execution_failure"
       THEN /\ phase' = "research_needs_attention"
            /\ stop' = "execution_failure"
            /\ at' = "end"
       ELSE /\ phase' = "lead_observing"
            /\ stop' = ""
            /\ at' = "lead"
    /\ UNCHANGED <<config, tasks, results, turns, handoff, sent, finished, errored,
                   restarts>>

\* collect: rows of tasks that were not there at the last collect.
Collect ==
    /\ Running("collect")
    /\ active' = Attempted
    /\ IF \E t \in Attempted \ active :
             \E k \in DOMAIN results[t] : results[t][k] = "execution_failure"
       THEN /\ phase' = "research_needs_attention"
            /\ stop' = "execution_failure"
            /\ at' = "end"
       ELSE /\ phase' = "lead_observing"
            /\ stop' = ""
            /\ at' = "lead"
    /\ UNCHANGED <<config, tasks, results, turns, handoff, sent, finished, errored,
                   restarts>>

\* A node or a worker raises, or the run is cancelled.
Raise ==
    /\ at # "end" /\ ~errored
    /\ errored' = TRUE
    /\ UNCHANGED <<config, board, superstep, restarts>>

\* The same run is started again without input.
Restart ==
    /\ errored
    /\ restarts < MaxRestarts
    /\ errored' = FALSE
    /\ restarts' = restarts + 1
    /\ UNCHANGED <<config, board, superstep>>

Step ==
    \/ Initialize \/ Decide \/ Feedback \/ Delegate \/ Continue \/ Submit
    \/ \E t \in Ids, status \in Statuses : Worker(t, status)
    \/ Join \/ Collect

Next == Step \/ Raise \/ Restart

Spec == Init /\ [][Next]_vars

\* LangGraph runs the next node, and model calls and workers end: each has a
\* ceiling of calls, tokens and time.  Nobody has to restart a failed run.
Fairness == WF_vars(Step)
FairSpec == Spec /\ Fairness

-----------------------------------------------------------------------------
(* Properties.                                                             *)

\* Paid work is done once: a task has one row at most, a saved paper is never
\* researched again, and what has a row is not running, whatever the Lead asks
\* for and however often the run is restarted (ready, worker).
NoRepeatedWork ==
    \A t \in Ids :
        /\ Len(results[t]) <= 1
        /\ t \in SeedIds => results[t] = << >>
        /\ results[t] # << >> => t \notin sent
        /\ results[t] # << >> \/ t \in sent => finished[t] = "none"

\* Every task that runs or ran had an accepted paper for each task it depends
\* on, a needs_attention row is not one (ready, dispatch).
RunsOnPapers ==
    \A t \in Ids :
        t \in sent \/ finished[t] # "none" \/ results[t] # << >> =>
            /\ t \in TaskIds(tasks)
            /\ tasks[t].deps \subseteq Completed

\* A superstep is never sent without a worker, which would end the graph in the
\* middle of its schedule: not after the recovery tasks of bind_case, nor after
\* an accepted delegation or continuation (dispatch).
NeverStranded ==
    at = "specialist" =>
        /\ phase = "schedule_ready_tasks"
        /\ sent # {} \/ \E t \in Ids : finished[t] # "none"

\* No more workers are paid at once than max_parallel_tasks, counting those of the
\* superstep that have finished, and no more tasks are planned than max_tasks, in
\* however many delegations (ready, execute_tools: lead_task_limit).
Superstep == sent \cup {t \in Ids : finished[t] # "none"}
WithinCapacity ==
    /\ Cardinality(Superstep) <= MaxParallel
    /\ Cardinality(TaskIds(tasks)) <= MaxTasks

\* A handoff to review hides nothing: every task was attempted, those without a
\* paper are acknowledged failures, every required branch has a paper, no
\* requirement is unresolved, and a focused plan has one paper (execute_tools).
ReviewIsComplete ==
    phase = "research_ready_for_review" =>
        /\ handoff # None
        /\ Pending = {} /\ sent = {}
        /\ Completed # {}
        /\ handoff.acknowledged = TaskIds(tasks) \ Completed
        /\ ~handoff.unresolved
        /\ handoff.depth = "focused" => Cardinality(Completed) = 1
        /\ requireAll =>
              \A b \in Branches : \/ \E t \in SeedIds : seeds[t] = b
                                  \/ \E t \in Submitted : tasks[t].branch = b

\* A worker that ran into an execution limit ends the Lead: after its row no
\* model turn is taken, no worker started and nothing handed off, even when the
\* run errs and is restarted right then (collect; "must not issue another paid
\* planner call after execution failure").
ExecutionFailed ==
    \E t \in Ids : \E k \in DOMAIN results[t] : results[t][k] = "execution_failure"
StopsAfterExecutionFailure ==
    [][ExecutionFailed =>
          /\ turns' = turns /\ tasks' = tasks /\ handoff' = handoff
          /\ sent' = {}]_vars

\* Papers and failures survive everything that follows, restarts included, and
\* so do rows of a superstep that has not ended (task_results' reducer).
Earned == {t \in Ids : finished[t] = "submitted"} \cup Submitted
KeepsWork ==
    [][/\ Earned \subseteq Earned'
       /\ \A t \in Ids :
             /\ results[t] # << >> => results'[t] = results[t]
             /\ tasks[t] # None => tasks'[t] = tasks[t]]_vars

\* Work the Lead can still cause: each turn of the model is worth one superstep
\* of max_parallel_tasks workers and the nodes around it.
TurnCost == MaxParallel + 4
NodeCost ==
    CASE at = "lead" -> 1
      [] at = "collect" -> 2
      [] at = "specialist" -> 3 + Cardinality(sent)
      [] at \in {"lead_tools", "bind_case"} -> TurnCost
      [] at = "end" -> 0
Remaining ==
    IF at = "end" THEN 0 ELSE (MaxTurns - turns) * TurnCost + NodeCost

\* No node is run for nothing: each one brings the end of the Lead nearer, and an
\* error and its restart leave the distance as it was, so a run pays for no more
\* than its ceilings allow, however the model answers (decide, lead_turn_ceiling).
SpendsDown ==
    [][\/ Remaining' < Remaining /\ errored' = errored
       \/ Remaining' = Remaining /\ errored' # errored]_vars

\* The Lead comes to an end, whatever it asks for (lead_turn_ceiling).
Settles == <>(at = "end" \/ errored)
=============================================================================
