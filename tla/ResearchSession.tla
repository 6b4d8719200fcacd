-------------------------- MODULE ResearchSession --------------------------
(***************************************************************************)
(* The research part of a session: the nodes research, remaining_research, *)
(* case_review and convergence and the human at research_attention, up to  *)
(* the first report; and the Workbench requests and native resumes that    *)
(* drive it.  A request checks the state it read and creates its run       *)
(* later; the Agent Server refuses it only while the thread is busy.       *)
(* Guidance sent while a run works is kept in the thread's metadata and    *)
(* becomes part of the question of every phase that starts later.          *)
(***************************************************************************)
EXTENDS Naturals, FiniteSets

CONSTANTS
    Requests,       \* HTTP requests and native resumes in flight
    Tasks,          \* research task ids
    Messages,       \* guidance messages
    MaxGuidance,    \* the service's limit of guidance messages
    MaxRuns,        \* bound on runs
    None

ASSUME ResearchSessionAssumption ==
    /\ MaxRuns \in Nat /\ MaxGuidance \in Nat
    /\ None \notin Requests \cup Tasks \cup Messages
    /\ IsFiniteSet(Tasks)

Runs == 1..MaxRuns
Phases == {"working", "needs_attention", "reviewing", "writing", "reported", "acknowledged"}
Directions == {"none", "write", "amend"}

\* The task a worker was bound to: plan_digest hashes the invocation id of the
\* plan and the question with its guidance.  run: the run it failed in.
Failure == [plan : Runs, asks : SUBSET Messages, run : Runs]
\* scope_digest hashes papers and question.  material: a reviewer recorded a
\* material finding or an unresolved data request.
Review == [papers : SUBSET Tasks, asks : SUBSET Messages, run : Runs,
           counter : BOOLEAN, verifier : BOOLEAN, material : BOOLEAN]
Handoff == [plan : {"focused", "full"}, direction : Directions]
Resumes ==
    [kind : {"acknowledge"}]
      \cup [kind : {"continue_remaining"}, plan : Runs \cup {None}]
      \cup [kind : {"recover_workpaper"}, task : Tasks, seen : Failure]
      \cup [kind : {"review_saved_workpapers"}, plan : {"focused", "full"}, papers : SUBSET Tasks]
      \cup [kind : {"write_after_incomplete_review"}, review : Review, papers : SUBSET Tasks]
      \cup [kind : {"amend_reviewed_workpapers"}, review : Review, papers : SUBSET Tasks,
            edits : 0..MaxRuns]
Request == Resumes \cup [kind : {"research", "restart"}]
             \cup [kind : {"guidance"}, message : Messages, items : SUBSET Messages]

ASSUME NoneAssumption == None \notin Failure \cup Review \cup Handoff \cup Request

VARIABLES
    mode,           \* finsight_execution.mode of the thread
    papers,         \* state["case_papers"], by task
    tasks,          \* state["research_tasks"]
    failed,         \* the latest row of each task in research_failed_workpapers
    handoff,        \* state["research_handoff"]
    review,         \* state["case_review"]
    feedback,       \* state["author_feedback"] is not empty
    edits,          \* number of state["human_edits"]
    continuing,     \* state["continue_remaining_research"]
    phase,          \* state["phase"]
    stop,           \* who set state["research_stop_reason"]
    report,         \* state["report"]: "none", of a "single" agent or "converged"
    node,           \* the node to run, or that failed
    thread,         \* status of the thread
    resume,         \* the decision research_attention is resumed with
    plan,           \* the run whose invocation id the plan of the run uses
    last,           \* human_action of the last run
    usage,          \* the last run's audit: no request, all known, some unknown
    runs,           \* runs created
    inflight,       \* what each request will do
    guidance,       \* metadata["research_guidance"]
    told,           \* messages answered with recorded
    error,          \* error code of the failure
    directed        \* the review a human direction was given for

values == <<papers, tasks, failed, handoff, review, feedback, edits, continuing, phase,
            stop, report>>
server == <<node, thread, resume, plan, last, usage, runs>>
history == <<told, error, directed>>
vars == <<mode, values, server, inflight, guidance, history>>

TypeOfWork ==
    /\ mode \in {"single", "team"}
    /\ papers \subseteq tasks /\ tasks \subseteq Tasks
    /\ failed \in [Tasks -> Failure \cup {None}]
    /\ handoff \in Handoff \cup {None} /\ review \in Review \cup {None}
    /\ feedback \in BOOLEAN /\ edits \in 0..runs /\ continuing \in BOOLEAN
    /\ phase \in Phases /\ stop \in {"none", "research", "review", "convergence"}
    /\ report \in {"none", "single", "converged"}
TypeOfServer ==
    /\ node \in {"research", "remaining_research", "case_review", "convergence",
                 "research_attention", "report", "end"}
    /\ thread \in {"draft", "busy", "interrupted", "error"}
    /\ resume \in Resumes \cup {None}
    /\ resume # None => node = "research_attention" /\ thread = "busy"
    /\ runs \in 0..MaxRuns /\ plan \in 0..MaxRuns
    /\ thread = "busy" => runs > 0 /\ plan > 0
    /\ last \in {"none", "research", "continue_remaining", "acknowledge", "recover_workpaper",
                 "native"}
    /\ usage \in {"zero", "known", "unknown"}
TypeOfRequests ==
    /\ inflight \in [Requests -> Request \cup {None}]
    /\ guidance \subseteq Messages /\ told \subseteq Messages
    /\ error \in {"none", "fresh_research_cannot_restart_existing_session",
                  "only_incomplete_research_can_continue_remaining_tasks",
                  "recovery_task_or_data_scope_mismatch",
                  "review_recovery_requires_same_question_and_artifacts",
                  "decision_refused", "phase_failed"}
    /\ directed \in Review \cup {None}
TypeOK == TypeOfWork /\ TypeOfServer /\ TypeOfRequests

Init ==
    /\ mode \in {"single", "team"}
    /\ papers = {} /\ tasks = {} /\ failed = [t \in Tasks |-> None]
    /\ handoff = None /\ review = None /\ feedback = FALSE /\ edits = 0
    /\ continuing = FALSE /\ phase = "working" /\ stop = "none" /\ report = "none"
    /\ node = "research" /\ thread = "draft" /\ resume = None
    /\ plan = 0 /\ last = "none" /\ usage = "zero" /\ runs = 0
    /\ inflight = [r \in Requests |-> None]
    /\ guidance = {} /\ told = {} /\ error = "none" /\ directed = None

-----------------------------------------------------------------------------
Complete(rev) == rev.counter /\ rev.verifier
Incomplete(rev) == rev # None /\ ~Complete(rev)
Failed == {t \in Tasks : failed[t] # None}
Unfinished == tasks \ papers

\* can_continue_remaining_research; every incomplete reviewer this code saves
\* has a recovery_state.
CanContinue ==
    /\ phase = "needs_attention" /\ report = "none"
    /\ IF review # None THEN ~Complete(review) ELSE papers # {} \/ Failed # {}

AtAttention == node = "research_attention"

\* can_restart_remaining_node.
CanRestart ==
    /\ thread = "error" /\ node \in {"remaining_research", "convergence"}
    /\ last \in {"research", "continue_remaining"}
    /\ usage = "known"

-----------------------------------------------------------------------------
(* Requests: checks on the state that was read.                            *)

\* Once the last run was created a decision could only be dropped (a bound).
Posted(r, request) ==
    /\ inflight[r] = None
    /\ runs < MaxRuns \/ request.kind = "guidance"
    /\ inflight' = [inflight EXCEPT ![r] = request]
    /\ UNCHANGED <<mode, values, server, guidance, history>>

\* start_draft: no run is listed.
PostStart(r) == runs = 0 /\ Posted(r, [kind |-> "research"])

\* guidance: the list is read here and written back by WriteGuidance.
PostGuidance(r, m) ==
    /\ thread = "busy"
    /\ Cardinality(guidance) < MaxGuidance
    /\ m \notin told /\ \A q \in Requests : inflight[q] # None /\ inflight[q].kind = "guidance"
                                               => inflight[q].message # m
    /\ Posted(r, [kind |-> "guidance", message |-> m, items |-> guidance])

PostAcknowledge(r) == AtAttention /\ Posted(r, [kind |-> "acknowledge"])

PostContinue(r) ==
    /\ thread # "busy"
    /\ \/ /\ AtAttention /\ usage # "unknown" /\ CanContinue
          /\ Posted(r, [kind |-> "continue_remaining", plan |-> None])
       \/ /\ ~AtAttention /\ CanRestart
          /\ Posted(r, [kind |-> "restart"])

PostRecover(r, t) ==
    /\ AtAttention /\ thread = "interrupted"
    /\ failed[t] # None /\ t \notin papers
    /\ Posted(r, [kind |-> "recover_workpaper", task |-> t, seen |-> failed[t]])

\* Native resumes of an operator: no endpoint offers them.
PostNative(r) ==
    /\ AtAttention /\ thread # "busy"
    /\ \/ \E run \in 1..runs :
              Posted(r, [kind |-> "continue_remaining", plan |-> run])
       \/ \E depth \in {"focused", "full"} :
              Posted(r, [kind |-> "review_saved_workpapers", plan |-> depth, papers |-> papers])
       \/ review # None /\ \/ Posted(r, [kind |-> "write_after_incomplete_review",
                                         review |-> review, papers |-> papers])
                           \/ Posted(r, [kind |-> "amend_reviewed_workpapers",
                                         review |-> review, papers |-> papers, edits |-> edits])

\* threads.update with the whole list.
WriteGuidance(r) ==
    /\ inflight[r] # None /\ inflight[r].kind = "guidance"
    /\ guidance' = inflight[r].items \cup {inflight[r].message}
    /\ told' = told \cup {inflight[r].message}
    /\ inflight' = [inflight EXCEPT ![r] = None]
    /\ UNCHANGED <<mode, values, server, error, directed>>

Offered(request) ==
    /\ request.kind \in {"continue_remaining", "restart"}
    /\ request.kind = "restart" \/ request.plan = None
ActionOf(request) ==
    CASE Offered(request) -> "continue_remaining"
      [] request.kind \in {"research", "acknowledge", "recover_workpaper"} -> request.kind
      [] OTHER -> "native"

\* runs.create with multitask_strategy reject.  New input starts at START; a
\* resume reaches the interrupt, runs a failed node again, or finds nothing.
CreateRun(r) ==
    LET request == inflight[r] IN
    /\ request # None /\ request.kind # "guidance"
    /\ inflight' = [inflight EXCEPT ![r] = None]
    /\ IF \/ thread = "busy" \/ runs = MaxRuns
          \/ request.kind # "research" /\ node \in {"report", "end"}
          \/ request.kind = "restart" /\ AtAttention
       THEN UNCHANGED <<mode, values, server, guidance, history>>
       ELSE /\ runs' = runs + 1
            /\ plan' = IF request.kind = "continue_remaining" /\ request.plan # None
                       THEN request.plan ELSE runs + 1
            /\ last' = ActionOf(request)
            /\ node' = IF request.kind = "research" THEN "research" ELSE node
            /\ resume' = IF AtAttention /\ request.kind # "research" THEN request ELSE None
            /\ thread' = "busy" /\ usage' = "zero" /\ error' = "none"
            /\ UNCHANGED <<mode, values, guidance, told, directed>>

-----------------------------------------------------------------------------
(* The nodes.                                                              *)

Running(n) == thread = "busy" /\ node = n

\* A node raised: its writes are lost, the thread keeps the failed node.
Raise(code, spent) ==
    /\ thread' = "error" /\ error' = code /\ resume' = None
    /\ usage' \in (IF spent THEN {"zero", "known", "unknown"} ELSE {"zero", usage})
    /\ UNCHANGED <<mode, values, node, plan, last, runs, inflight, guidance, told, directed>>

Fail ==
    /\ thread = "busy" /\ ~AtAttention
    /\ Raise("phase_failed", TRUE)

Goto(n) ==
    /\ node' = n
    /\ thread' = IF n \in {"research_attention", "report", "end"} THEN "interrupted" ELSE "busy"
    /\ resume' = None
    /\ usage' \in {"known", "unknown"}
    /\ UNCHANGED <<mode, plan, last, runs, inflight, guidance, history>>

\* Faulty: the tasks of earlier papers are not carried over.
ResearchResultForgetful(retained, all, ran, submitted) ==
    /\ papers' = retained \cup submitted
    /\ tasks' = all
    /\ failed' = [t \in Tasks |-> IF t \in ran \ submitted
                                  THEN [plan |-> plan, asks |-> guidance, run |-> runs]
                                  ELSE failed[t]]
    /\ continuing' = FALSE
    /\ UNCHANGED <<review, feedback, edits>>

\* The result of run_research.  all: result["tasks"]; ran, submitted: its rows.
ResearchResult(retained, all, ran, submitted) ==
    /\ papers' = retained \cup submitted
    /\ tasks' = (tasks \cap retained) \cup all
    /\ failed' = [t \in Tasks |-> IF t \in ran \ submitted
                                  THEN [plan |-> plan, asks |-> guidance, run |-> runs]
                                  ELSE failed[t]]
    /\ continuing' = FALSE
    /\ UNCHANGED <<review, feedback, edits>>

NeedsAttention ==
    /\ phase' = "needs_attention" /\ stop' = "research" /\ handoff' = None
    /\ UNCHANGED report
    /\ Goto("research_attention")

\* A ready handoff of the Lead accounts for every task.
TeamReady(all, ran) ==
    /\ papers' # {} /\ all \subseteq papers' \cup ran
    /\ phase' = "reviewing" /\ stop' = "none" /\ UNCHANGED report
    /\ \/ /\ Cardinality(papers') = 1
          /\ handoff' = [plan |-> "focused", direction |-> "none"]
          /\ Goto("convergence")
       \/ /\ handoff' = [plan |-> "full", direction |-> "none"]
          /\ Goto("case_review")

TeamResearch(retained, all, ran, submitted) ==
    /\ ResearchResult(retained, all, ran, submitted)
    /\ TeamReady(all, ran) \/ NeedsAttention

\* The report of a single agent renders its first paper.
SingleResearch(retained, t, submitted) ==
    /\ ResearchResult(retained, {t}, {t}, submitted)
    /\ IF t \in submitted
       THEN /\ phase' = "reported" /\ report' = "single" /\ stop' = "none" /\ handoff' = None
            /\ Goto("report")
       ELSE NeedsAttention

\* Faulty: saved work is not looked for.
StartedUnchecked == report # "none"

\* The guard of run_research when it is not continuing.
Started == report # "none" \/ papers # {} \/ tasks # {}

Research ==
    /\ Running("research")
    /\ IF Started
       THEN Raise("fresh_research_cannot_restart_existing_session", FALSE)
       ELSE IF mode = "single"
       THEN \E t \in Tasks : \E s \in SUBSET {t} : SingleResearch({}, t, s)
       ELSE \E all \in SUBSET Tasks : \E ran \in SUBSET all : \E s \in SUBSET ran :
                TeamResearch({}, all, ran, s)

\* The identity check of initialize with a recovery_state.
SameWorker(t) == failed[t] = None \/ (failed[t].plan = plan /\ failed[t].asks = guidance)

\* Tasks of an earlier run keep their ids; with saved papers no task is new, a
\* single agent without a saved attempt gets one.
ContinueTeam ==
    LET Foreign == {t \in Unfinished : ~SameWorker(t)}
        New == IF papers = {} THEN Tasks \ tasks ELSE {} IN
    \/ /\ Foreign # {}
       /\ Raise("recovery_task_or_data_scope_mismatch", Unfinished # Foreign)
    \/ \E new \in SUBSET New : \E ran \in SUBSET ((Unfinished \ Foreign) \cup new) :
           \E s \in SUBSET ran :
               /\ Foreign # {} => ran # {}
               /\ TeamResearch(papers, Unfinished \cup new, ran, s)

ContinueSingle ==
    LET saved == Failed \ papers IN
    IF saved = {}
    THEN \E t \in Tasks \ tasks : \E s \in SUBSET {t} : SingleResearch(papers, t, s)
    ELSE \E t \in saved :
             IF SameWorker(t) THEN \E s \in SUBSET {t} : SingleResearch(papers, t, s)
             ELSE Raise("recovery_task_or_data_scope_mismatch", FALSE)

RemainingResearch ==
    /\ Running("remaining_research")
    /\ IF ~CanContinue
       THEN Raise("only_incomplete_research_can_continue_remaining_tasks", FALSE)
       ELSE IF mode = "single" THEN ContinueSingle ELSE ContinueTeam

\* Faulty: one complete review is enough.
ReviewStepAnyRole(prev) ==
    \E counter, verifier, material \in BOOLEAN :
        /\ prev # None => (prev.counter => counter) /\ (prev.verifier => verifier)
                             /\ (prev.material => material)
        /\ review' = [papers |-> papers, asks |-> guidance, run |-> runs, counter |-> counter,
                      verifier |-> verifier, material |-> material]
        /\ continuing' = FALSE
        /\ IF counter \/ verifier
           THEN /\ feedback' = material /\ phase' = "writing" /\ UNCHANGED stop
                /\ Goto("convergence")
           ELSE /\ phase' = "needs_attention" /\ stop' = "review" /\ UNCHANGED feedback
                /\ Goto("research_attention")
        /\ UNCHANGED <<papers, tasks, failed, handoff, edits, report>>

\* build_case_review_graph: prev is previous_review, kept unless its scope changed.
ReviewStep(prev) ==
    \E counter, verifier, material \in BOOLEAN :
        /\ prev # None => /\ prev.counter => counter
                          /\ prev.verifier => verifier
                          /\ prev.material => material
        /\ review' = [papers |-> papers, asks |-> guidance, run |-> runs, counter |-> counter,
                      verifier |-> verifier, material |-> material]
        /\ continuing' = FALSE
        /\ IF counter /\ verifier
           THEN /\ feedback' = material /\ phase' = "writing" /\ UNCHANGED stop
                /\ Goto("convergence")
           ELSE /\ phase' = "needs_attention" /\ stop' = "review" /\ UNCHANGED feedback
                /\ Goto("research_attention")
        /\ UNCHANGED <<papers, tasks, failed, handoff, edits, report>>

SameScope(prev) == prev.papers = papers /\ prev.asks = guidance

CaseReview ==
    /\ Running("case_review")
    /\ LET prev == IF continuing THEN review ELSE None IN
       IF prev # None /\ ~SameScope(prev)
       THEN Raise("review_recovery_requires_same_question_and_artifacts", FALSE)
       ELSE ReviewStep(prev)

Converge ==
    /\ Running("convergence")
    /\ \/ /\ report' = "converged" /\ phase' = "reported" /\ stop' \in {"none", "convergence"}
          /\ Goto("report")
       \/ /\ phase' = "needs_attention" /\ stop' = "convergence" /\ UNCHANGED report
          /\ Goto("research_attention")
    /\ UNCHANGED <<papers, tasks, failed, handoff, review, feedback, edits, continuing>>

-----------------------------------------------------------------------------
(* The human at research_attention.                                        *)

Resumed(kind) == Running("research_attention") /\ resume # None /\ resume.kind = kind
Proceed(n) ==
    /\ node' = n /\ resume' = None
    /\ thread' = IF n = "end" THEN "interrupted" ELSE "busy"
    /\ UNCHANGED <<mode, plan, last, usage, runs, inflight, guidance, told, error>>
Refused == Raise("decision_refused", FALSE)

Acknowledge ==
    /\ Resumed("acknowledge")
    /\ phase' = "acknowledged"
    /\ UNCHANGED <<papers, tasks, failed, handoff, review, feedback, edits, continuing, stop, report>>
    /\ Proceed(IF continuing THEN IF review # None THEN "case_review" ELSE "remaining_research"
               ELSE "end")
    /\ UNCHANGED directed

Continue ==
    /\ Resumed("continue_remaining")
    /\ IF CanContinue
       THEN /\ continuing' = TRUE
            /\ UNCHANGED <<papers, tasks, failed, handoff, review, feedback, edits, phase, stop,
                           report, directed>>
            /\ Proceed(IF review # None THEN "case_review" ELSE "remaining_research")
       ELSE Refused

Recover ==
    /\ Resumed("recover_workpaper")
    /\ IF CanContinue /\ failed[resume.task] = resume.seen /\ resume.task \notin papers
       THEN /\ papers' = papers \cup {resume.task}
            /\ edits' \in {edits, edits + 1}
            /\ continuing' = TRUE /\ review' = None /\ stop' = "none"
            /\ UNCHANGED <<tasks, failed, handoff, feedback, phase, report, directed>>
            /\ Proceed("remaining_research")
       ELSE Refused

ReviewSaved ==
    /\ Resumed("review_saved_workpapers")
    /\ IF papers # {} /\ Unfinished = {} /\ resume.papers = papers
       THEN /\ handoff' = [plan |-> resume.plan, direction |-> "none"]
            /\ phase' = "reviewing" /\ stop' = "none" /\ continuing' = FALSE
            /\ UNCHANGED <<papers, tasks, failed, review, feedback, edits, report, directed>>
            /\ Proceed("case_review")
       ELSE Refused

\* Faulty: the decision is not tied to the review it was made on.
OnCurrentReviewUnchecked(decision) == decision.papers = papers

\* The digests in a decision about an incomplete review.
OnCurrentReview(decision) == decision.review = review /\ decision.papers = papers

Directed(direction, decision) ==
    /\ handoff' = [handoff EXCEPT !.direction = direction]
    /\ directed' = decision.review
    /\ phase' = "writing" /\ stop' = "none" /\ continuing' = FALSE /\ feedback' = FALSE
    /\ UNCHANGED <<papers, tasks, failed, review, report>>
    /\ Proceed("convergence")

Writable == stop = "review" /\ Incomplete(review) /\ ~review.material

WriteAfterIncomplete ==
    /\ Resumed("write_after_incomplete_review")
    /\ IF Writable /\ OnCurrentReview(resume)
       THEN Directed("write", resume) /\ UNCHANGED edits
       ELSE Refused

AmendReviewed ==
    /\ Resumed("amend_reviewed_workpapers")
    /\ IF /\ stop = "review" /\ Incomplete(review)
          /\ OnCurrentReview(resume) /\ resume.edits = edits
       THEN Directed("amend", resume) /\ edits' = edits + 1
       ELSE Refused

Post(r) ==
    \/ PostStart(r) \/ PostAcknowledge(r) \/ PostContinue(r) \/ PostNative(r)
    \/ \E m \in Messages : PostGuidance(r, m)
    \/ \E t \in Tasks : PostRecover(r, t)
Attention ==
    \/ Acknowledge \/ Continue \/ Recover \/ ReviewSaved \/ WriteAfterIncomplete \/ AmendReviewed
Step == Research \/ RemainingResearch \/ CaseReview \/ Converge \/ Attention \/ Fail
Next == Step \/ \E r \in Requests : Post(r) \/ CreateRun(r) \/ WriteGuidance(r)

Spec == Init /\ [][Next]_vars

-----------------------------------------------------------------------------
\* What is being converged, or was, stands on a review of exactly these papers:
\* a complete one whose material findings go to the authors, an incomplete one
\* with a human direction, or none when the plan is a focused one of one paper
\* (research_session.py: after_research, review_node, attention).
ReportStandsOnReview ==
    node = "convergence" \/ report = "converged" =>
        /\ handoff # None
        /\ \/ handoff.plan = "focused" /\ Cardinality(papers) = 1
           \/ /\ review # None /\ review.papers = papers
              /\ IF Complete(review) THEN review.material => feedback
                 ELSE handoff.direction # "none"

\* An incomplete review is only written up on a direction given for that very
\* review, and a material finding in it was disposed of by an amendment, however
\* late the decision arrives and whatever ran in between
\* (workpaper_intervention.py: write_after_..., amend_reviewed_workpapers).
IncompleteIsDirected ==
    node = "convergence" /\ Incomplete(review) /\ handoff.direction # "none" =>
        /\ directed = review
        /\ review.material => handoff.direction = "amend"

\* No request, however late, and no run loses what was paid for: papers, failed
\* attempts, human edits and a report stay, and a task that has a paper is never
\* given another (run_research, recover_workpaper).
KeepsWork ==
    [][ /\ papers \subseteq papers'
        /\ Failed \subseteq {t \in Tasks : failed'[t] # None}
        /\ \A t \in papers : failed'[t] = failed[t]
        /\ edits <= edits'
        /\ report # "none" => report' = report /\ papers' = papers ]_vars

\* A continuation that the Workbench offered and accepted is not refused as
\* belonging to another task or another review (continue_remaining: "the original
\* tasks, candidates and completed reviews are kept").
ContinueIsHonoured ==
    last = "continue_remaining" =>
        error \notin {"recovery_task_or_data_scope_mismatch",
                      "review_recovery_requires_same_question_and_artifacts"}
=============================================================================
