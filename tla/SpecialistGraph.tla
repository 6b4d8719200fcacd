--------------------------- MODULE SpecialistGraph ---------------------------
(***************************************************************************)
(* One specialist worker: the model's turns, the tools of a turn one after *)
(* another on one working copy of the notebook, the acceptance of a        *)
(* workpaper, the hand-over to a human, and a new run that takes the       *)
(* notebook over (recovery_state).  A node that raises loses what it did   *)
(* since the checkpoint before it; a restart runs it again from there.     *)
(* A tool request is named by what it asks for (its semantic digest).      *)
(***************************************************************************)
EXTENDS Naturals, Sequences, FiniteSets

CONSTANTS
    Reads,          \* evidence, source, finance and calculation requests
    Methods,        \* method reads
    Notes,          \* calls of the working memory, by call id and arguments
    MaxTurns,       \* max_model_turns of a run
    MaxTools,       \* max_tool_actions of a run
    MaxBatch,       \* bound on calls in a turn (48 in the code)
    MaxRuns,        \* bound on runs
    MaxRestarts,    \* bound on restarts after a raise
    FieldEdits,     \* allow_workpaper_field_edits
    None

Requests == Reads \cup Methods \cup Notes
\* invalid: arguments, route, context or capability are refused; unknown: no such
\* tool; broken: a submission that does not meet its schema.
Calls ==
    [kind : {"read"}, of : Reads] \cup [kind : {"method"}, of : Methods]
      \cup [kind : {"note"}, of : Notes]
      \cup [kind : {"submit", "revise"}, cites : SUBSET Reads]
      \cup [kind : {"broken", "invalid", "unknown", "handoff"}]
Triggers == {"model_request", "model_turn_ceiling", "tool_action_ceiling",
             "model_execution_failure"}
Terminal == {"submit", "revise", "broken", "handoff"}

ASSUME SpecialistAssumption ==
    /\ {MaxTurns, MaxTools, MaxBatch, MaxRuns} \subseteq Nat \ {0} /\ MaxRestarts \in Nat
    /\ FieldEdits \in BOOLEAN /\ IsFiniteSet(Requests)
    /\ Reads \cap Methods = {} /\ (Reads \cup Methods) \cap Notes = {}
    /\ None \notin Triggers \cup {"success", "failed"}

VARIABLES
    node,           \* the node to run; "tools": one of the execute nodes
    native,         \* the turn is a native tool batch
    mixed,          \* terminal_mixed
    batch,          \* the calls of the turn still to run
    turns,          \* notebook.model_turn_count
    maxTurns,       \* state["max_model_turns"]
    maxTools,       \* state["max_tool_actions"]
    dispatched,     \* notebook.dispatched_action_digests; their number is
                    \* notebook.tool_action_count
    observed,       \* the observation of a read: None, "success" or "failed"
    madeIn,         \* the run in which a read was made
    archived,       \* the runs state["model_turn_invocations"] names
    known,          \* the successful reads in the request of the last turn
    phase, trigger, attempt, \* state["phase"], ["review_trigger"], ["last_submission_attempt"]
    final,          \* what state["final_submission"] cites, {} while there is none
    handoff,        \* the trigger in state["human_review_handoff"]
    runs,           \* runs of this task
    saved,          \* the worker's last checkpoint: what its last node returned
    restarts,       \* restarts after a raise
    sent,           \* how often a port or reader was called for a request
    lost,           \* how often a raise lost what the notebook said of a request
    reply           \* what the last call of the turn was answered with

control == <<node, native, mixed, batch, phase, trigger>>
notebook == <<turns, dispatched, observed, madeIn>>
allowance == <<maxTurns, maxTools, archived, runs>>
outcome == <<attempt, final, handoff>>
history == <<restarts, sent, lost>>
vars == <<control, notebook, allowance, known, outcome, saved, history, reply>>

Phases == {"ready_for_model_decision", "model_action_selected", "typed_feedback_ready",
           "tool_observation_ready", "human_review_required",
           "submission_rejected_with_typed_feedback", "specialist_submission_accepted",
           "specialist_human_review_handoff_emitted"}
Replies == {"none", "content", "failed", "replay", "duplicate", "ceiling", "rejected",
            "accepted", "handoff", "noted"}

\* What a checkpoint holds; the rest of the state changes only as a node returns.
Checkpoints ==
    [node : {"model_decide", "tools", "human_review", "end", "raised"}, batch : Seq(Calls),
     phase : Phases, trigger : Triggers \cup {None},
     attempt : {"none", "unreadable", "open", "accepted"}, dispatched : SUBSET Requests,
     observed : [Reads -> {None, "success", "failed"}], madeIn : [Reads -> 0..MaxRuns]]

TypeOK ==
    /\ node \in {"model_decide", "tools", "human_review", "end", "raised"}
    /\ native \in BOOLEAN /\ mixed \in BOOLEAN
    /\ batch \in Seq(Calls) /\ Len(batch) <= MaxBatch
    /\ turns \in Nat /\ maxTurns \in Nat /\ maxTools \in Nat
    /\ dispatched \subseteq Requests
    /\ observed \in [Reads -> {None, "success", "failed"}]
    /\ madeIn \in [Reads -> 0..MaxRuns] /\ archived \subseteq 1..MaxRuns
    /\ known \subseteq Reads
    /\ phase \in Phases /\ trigger \in Triggers \cup {None}
    /\ attempt \in {"none", "unreadable", "open", "accepted"}
    /\ final \subseteq SUBSET Reads /\ handoff \in Triggers \cup {None}
    /\ runs \in 1..MaxRuns /\ reply \in Replies
    /\ saved \in Checkpoints /\ Len(saved.batch) <= MaxBatch /\ restarts \in 0..MaxRestarts
    /\ sent \in [Requests -> Nat] /\ lost \in [Requests -> Nat]

\* A node returns: its state is the worker's checkpoint.
Commit ==
    saved' = [node |-> node', batch |-> batch', phase |-> phase', trigger |-> trigger',
              attempt |-> attempt', dispatched |-> dispatched', observed |-> observed',
              madeIn |-> madeIn']

Init ==
    /\ node = "model_decide" /\ native = FALSE /\ mixed = FALSE /\ batch = <<>>
    /\ turns = 0 /\ maxTurns = MaxTurns /\ maxTools = MaxTools
    /\ dispatched = {} /\ observed = [r \in Reads |-> None] /\ madeIn = [r \in Reads |-> 0]
    /\ archived = {} /\ known = {}
    /\ phase = "ready_for_model_decision" /\ trigger = None
    /\ attempt = "none" /\ final = {} /\ handoff = None
    /\ saved = [node |-> node, batch |-> batch, phase |-> phase, trigger |-> trigger,
                 attempt |-> attempt, dispatched |-> dispatched, observed |-> observed,
                 madeIn |-> madeIn]
    /\ runs = 1 /\ restarts = 0 /\ reply = "none"
    /\ sent = [q \in Requests |-> 0] /\ lost = [q \in Requests |-> 0]

Succeeded == {r \in Reads : observed[r] = "success"}

-----------------------------------------------------------------------------
(* model_decide and human_review.                                          *)

\* No turn is left, or the model's call failed in a known way.
GiveUp ==
    /\ node = "model_decide"
    /\ trigger' = IF turns >= maxTurns THEN "model_turn_ceiling" ELSE "model_execution_failure"
    /\ node' = "human_review" /\ phase' = "human_review_required"
    /\ UNCHANGED <<native, mixed, batch, notebook, allowance, known, outcome, history, reply>>
    /\ Commit

\* The model's call; what it was shown is what its answer rests on.
Turn ==
    /\ node = "model_decide" /\ turns < maxTurns
    /\ turns' = turns + 1 /\ known' = Succeeded
    /\ UNCHANGED <<dispatched, observed, madeIn, allowance, outcome, history, reply>>

\* Faulty: one call more than a batch may have.
BatchesOneLonger == UNION {[1..n -> Calls] : n \in 1..(MaxBatch + 1)}

\* SpecialistNativeToolBatch.
Batches == UNION {[1..n -> Calls] : n \in 1..MaxBatch}

\* Faulty: a submission may come with the reads it relies on.
MixedTerminalAllowed(b) == FALSE

\* terminal_mixed.
MixedTerminal(b) == Len(b) > 1 /\ \E n \in 1..Len(b) : b[n].kind \in Terminal

DecideBatch ==
    /\ Turn
    /\ batch' \in Batches /\ native' = TRUE /\ mixed' = MixedTerminal(batch')
    /\ node' = "tools" /\ phase' = "model_action_selected" /\ trigger' = None
    /\ Commit

\* A single action outside a batch, or one that is not allowed.
DecideSingle ==
    /\ Turn
    /\ native' = FALSE /\ mixed' = FALSE
    /\ \/ /\ \E call \in Calls : /\ call.kind \in {"read", "method", "submit"}
                                 /\ batch' = <<call>>
          /\ node' = "tools" /\ phase' = "model_action_selected" /\ trigger' = None
       \/ /\ node' = "human_review" /\ phase' = "model_action_selected"
          /\ trigger' = "model_request" /\ UNCHANGED batch
       \/ /\ node' = "model_decide" /\ phase' = "typed_feedback_ready"
          /\ trigger' = None /\ UNCHANGED batch
    /\ Commit

HumanReview ==
    /\ node = "human_review"
    /\ IF trigger \in Triggers
       THEN /\ node' = "end" /\ phase' = "specialist_human_review_handoff_emitted"
            /\ handoff' = trigger
       ELSE node' = "raised" /\ UNCHANGED <<phase, handoff>>
    /\ UNCHANGED <<native, mixed, batch, trigger, notebook, allowance, known, attempt, final,
                   history, reply>>
    /\ Commit

-----------------------------------------------------------------------------
(* The calls of a turn.                                                    *)

Next1(kind) == node = "tools" /\ batch # <<>> /\ Head(batch).kind = kind
\* The call is answered; the phase it leaves decides where the turn goes.
Answer(what, newPhase) ==
    /\ batch' = Tail(batch) /\ reply' = what /\ phase' = newPhase
    /\ UNCHANGED <<node, native, mixed, turns, allowance, known, handoff, saved, restarts, lost>>
Reject == Answer("rejected", "typed_feedback_ready")
Untouched == UNCHANGED <<trigger, dispatched, observed, madeIn, sent>>

\* tool_action_count >= max_tool_actions.
Spent == Cardinality(dispatched) >= maxTools

\* Faulty: only what succeeded counts as done before.
DuplicateIfSuccessful(q) == q \in Succeeded

Duplicate(q) == q \in dispatched

\* Faulty: the attempt is looked for under the id of the present run.
SavedReadOfRun(r) == observed[r] = "success" /\ madeIn[r] = runs

\* _saved_read_observation: the turn of a read is archived under its own run.
SavedRead(r) == observed[r] = "success" /\ madeIn[r] \in archived \cup {runs}

\* Faulty: the phase without the reason.
CeilingWithoutTrigger ==
    /\ Answer("ceiling", "human_review_required")
    /\ UNCHANGED <<trigger, dispatched, observed, madeIn, sent, attempt, final>>

\* The phase may be overwritten by a later call of the batch.
Ceiling ==
    /\ Answer("ceiling", "human_review_required") /\ trigger' = "tool_action_ceiling"
    /\ UNCHANGED <<dispatched, observed, madeIn, sent, attempt, final>>

\* execute_tool: a denied request, a failure and a raising port are all kept.
ReadCall ==
    /\ Next1("read") /\ ~mixed
    /\ LET r == Head(batch).of IN
       IF native /\ SavedRead(r)
       THEN Answer("replay", "tool_observation_ready") /\ Untouched /\ UNCHANGED <<attempt, final>>
       ELSE IF Spent THEN Ceiling
       ELSE IF Duplicate(r)
       THEN Answer("duplicate", "typed_feedback_ready") /\ Untouched
              /\ UNCHANGED <<attempt, final>>
       ELSE /\ dispatched' = dispatched \cup {r} /\ sent' = [sent EXCEPT ![r] = @ + 1]
            /\ madeIn' = [madeIn EXCEPT ![r] = runs]
            /\ UNCHANGED <<trigger, attempt, final>>
            /\ \/ /\ observed' = [observed EXCEPT ![r] = "success"]
                  /\ Answer("content", "tool_observation_ready")
               \/ /\ observed' = [observed EXCEPT ![r] = "failed"]
                  /\ \E p \in {"tool_observation_ready", "typed_feedback_ready"} :
                         Answer("failed", p)

\* execute_method.
MethodCall ==
    /\ Next1("method") /\ ~mixed
    /\ LET m == Head(batch).of IN
       IF Spent THEN Ceiling
       ELSE /\ UNCHANGED <<trigger, observed, madeIn, attempt, final>>
            /\ IF Duplicate(m)
               THEN Answer("duplicate", "typed_feedback_ready") /\ UNCHANGED <<dispatched, sent>>
               ELSE /\ dispatched' = dispatched \cup {m} /\ sent' = [sent EXCEPT ![m] = @ + 1]
                    /\ \E what \in {"content", "failed"} : Answer(what, "typed_feedback_ready")

\* execute_memory_tool, in a mixed batch too; a repeated call is not counted again.
NoteCall ==
    /\ Next1("note")
    /\ UNCHANGED <<trigger, observed, madeIn, attempt, final>>
    /\ LET n == Head(batch).of IN
       IF Spent THEN Answer("ceiling", phase) /\ UNCHANGED <<dispatched, sent>>
       ELSE /\ dispatched' = dispatched \cup {n} /\ sent' = [sent EXCEPT ![n] = @ + 1]
            /\ Answer("noted", phase)

\* validate_submission: what is cited was observed; other errors are possible.
Validate(cites) ==
    /\ Untouched
    /\ \/ /\ cites \subseteq Succeeded
          /\ final' = {cites} /\ attempt' = "accepted"
          /\ Answer("accepted", "specialist_submission_accepted")
       \/ /\ attempt' = "open" /\ UNCHANGED final
          /\ Answer("rejected", "submission_rejected_with_typed_feedback")

SubmitCall == Next1("submit") /\ ~mixed /\ Validate(Head(batch).cites)

\* The attempt is kept before the call is examined.
BrokenCall ==
    /\ Next1("broken") /\ ~mixed /\ Reject /\ Untouched
    /\ attempt' \in {"open", "unreadable"} /\ UNCHANGED final

ReviseCall ==
    /\ Next1("revise") /\ ~mixed
    /\ \/ FieldEdits /\ attempt = "open" /\ Validate(Head(batch).cites)
       \/ /\ Reject /\ Untouched
          /\ attempt' = (IF attempt = "none" THEN "unreadable" ELSE attempt) /\ UNCHANGED final

InvalidCall ==
    /\ \/ Next1("invalid") /\ Reject
       \/ Next1("unknown") /\ Answer("rejected", phase)
    /\ Untouched /\ UNCHANGED <<attempt, final>>

HandoffCall ==
    /\ Next1("handoff") /\ ~mixed
    /\ Answer("handoff", "human_review_required") /\ trigger' = "model_request"
    /\ UNCHANGED <<dispatched, observed, madeIn, sent, attempt, final>>

\* A call that ends the work must be alone: all but the notes are refused.
MixedCall ==
    /\ mixed /\ \E kind \in {"read", "method"} \cup Terminal : Next1(kind)
    /\ Reject /\ Untouched
    /\ attempt' = CASE Head(batch).kind \in {"submit", "broken"} -> "open"
                    [] Head(batch).kind = "revise" /\ attempt = "none" -> "unreadable"
                    [] OTHER -> attempt
    /\ UNCHANGED final

\* route_after_tool, route_after_submission.
Route ==
    /\ node = "tools" /\ batch = <<>>
    /\ node' = IF final # {} THEN "end"
               ELSE IF phase = "human_review_required" THEN "human_review" ELSE "model_decide"
    /\ reply' = "none"
    /\ UNCHANGED <<native, mixed, batch, phase, trigger, notebook, allowance, known, outcome,
                   history>>
    /\ Commit

\* An error that is not a known one ends the node, and what it did on its working
\* copy is gone; ports that were called were called.
Raise ==
    /\ node \in {"model_decide", "tools"}
    /\ node' = "raised"
    /\ batch' = saved.batch /\ phase' = saved.phase /\ trigger' = saved.trigger
    /\ dispatched' = saved.dispatched /\ observed' = saved.observed /\ madeIn' = saved.madeIn
    /\ attempt' = saved.attempt /\ final' = {}
    /\ lost' = [q \in Requests |-> IF q \in dispatched \ saved.dispatched
                                    THEN lost[q] + 1 ELSE lost[q]]
    /\ reply' = "none"
    /\ UNCHANGED <<native, mixed, turns, allowance, known, handoff, saved, restarts, sent>>

\* The run is started again without input: the node that raised runs once more.
Restart ==
    /\ node = "raised" /\ restarts < MaxRestarts
    /\ node' = saved.node /\ restarts' = restarts + 1
    /\ UNCHANGED <<native, mixed, batch, phase, trigger, notebook, allowance, known, outcome,
                   saved, sent, lost, reply>>

\* Faulty: the counts start again from the run's own allowance.
RecoveredAllowanceDoubled == /\ maxTurns' = maxTurns + MaxTurns
                             /\ maxTools' = maxTools + MaxTools + 1

\* initialize: counts are kept, the run's allowance comes on top.
RecoveredAllowance == /\ maxTurns' = turns + MaxTurns
                      /\ maxTools' = Cardinality(dispatched) + MaxTools

\* initialize with the recovery_state of a run that was handed over.
Recover ==
    /\ node = "end" /\ handoff # None /\ runs < MaxRuns
    /\ RecoveredAllowance
    /\ runs' = runs + 1 /\ archived' = archived \cup {runs}
    /\ node' = "model_decide" /\ phase' = "ready_for_model_decision"
    /\ trigger' = None /\ handoff' = None
    /\ UNCHANGED <<native, mixed, batch, notebook, known, attempt, final, history, reply>>
    /\ Commit

Serve == ReadCall \/ MethodCall \/ NoteCall \/ SubmitCall \/ BrokenCall \/ ReviseCall
           \/ InvalidCall \/ HandoffCall \/ MixedCall
Next == GiveUp \/ DecideBatch \/ DecideSingle \/ Serve \/ Route \/ HumanReview \/ Raise
          \/ Restart \/ Recover

Spec == Init /\ [][Next]_vars

-----------------------------------------------------------------------------
\* However turns, batches and runs repeat it, a port is called again for a request
\* only because a raise lost what the notebook said of it, once for each raise that
\* did; what a checkpoint names is never asked again (execute_tool, execute_method,
\* the working copy of execute_native_tools).
RepeatsOnlyWhatWasLost ==
    /\ \A q \in Reads \cup Methods :
           sent[q] = lost[q] + (IF q \in dispatched THEN 1 ELSE 0)
    /\ \A n \in Notes : (sent[n] > 0) <=> (n \in dispatched \/ lost[n] > 0)
    /\ \A q \in Requests : lost[q] <= restarts + (IF node = "raised" THEN 1 ELSE 0)

\* No run uses more than its allowance, and what all runs used stays below the
\* allowances that were granted (initialize, max_model_turns, max_tool_actions).
WithinAllowance ==
    /\ turns <= maxTurns /\ Cardinality(dispatched) <= maxTools
    /\ maxTurns <= runs * MaxTurns /\ maxTools <= runs * MaxTools

\* An accepted workpaper cites only what the model had before it when it wrote it,
\* never a result of the same response (terminal_mixed, _submission_errors).
SeenBeforeCited == \A cites \in final : cites \subseteq known

\* A worker that ends has a workpaper or a hand-over with its reason, never both,
\* and human_review is reached with a reason (route_model_action, human_review).
EndsWithReason ==
    /\ node = "human_review" => trigger # None
    /\ node = "end" => (final = {}) <=> (handoff # None)

\* A batch that repeats a read which succeeded, in whichever run, gets its content
\* again and is not refused or counted (_saved_read_observation).
ReadsAnswered ==
    [][\A r \in Succeeded :
         Next1("read") /\ Head(batch).of = r /\ native /\ ~mixed /\ batch' # batch
           /\ node' = "tools" => reply' = "replay" /\ dispatched' = dispatched]_vars

\* Steps a run may still take: a turn is worth its longest batch and the two nodes
\* around it; in the tools, the calls that wait.
TurnCost == MaxBatch + 2
NodeCost ==
    CASE node = "model_decide" -> 2
      [] node = "tools" -> 3 + Len(batch)
      [] node = "human_review" -> 1
      [] OTHER -> 0
Remaining ==
    IF node \in {"end", "raised"} THEN 0 ELSE (maxTurns - turns) * TurnCost + NodeCost

\* No answer of the model keeps a worker going for nothing, a refused one and one
\* that asks for no tool least of all: each step brings the run nearer to its end,
\* and only a restart after a raise or another run that takes the notebook over
\* begins again (model_decide, route_after_tool, max_model_turns).
WindsDown == [][runs' = runs /\ restarts' = restarts => Remaining' < Remaining]_vars
=============================================================================
