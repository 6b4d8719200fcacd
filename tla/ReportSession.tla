--------------------------- MODULE ReportSession ---------------------------
(***************************************************************************)
(* The report loop of a research session, and the Workbench requests that  *)
(* drive it.  The graph waits at human_review; a request resumes it: a     *)
(* question goes to a writer, a revision to the writer and its verifier or *)
(* to the responsible authors, an acceptance ends it, a manual completion  *)
(* replaces the text.  The Workbench reads the saved state, checks the     *)
(* request against it and creates a run later: requests of two browsers    *)
(* interleave between the check and the run, and the graph checks again.   *)
(* A run may fail or be cancelled at every node.                           *)
(***************************************************************************)
EXTENDS Naturals, FiniteSets

CONSTANTS
    Requests,       \* HTTP requests in flight at the same time
    Ids,            \* request ids of targeted revisions
    MaxRuns,        \* bound on runs created by actions
    None

ASSUME ReportAssumption == MaxRuns \in Nat /\ None \notin Ids

Texts == 1..(MaxRuns + 1)
Nodes == {"human_review", "writer", "quick_writer", "verifier", "research_revision",
          "finish", "end"}
Phases == {"working", "needs_revision", "ready_for_human_review",
           "single_agent_unreviewed", "human_completed", "human_reviewed_not_released"}
Base == [version : Texts, text : Texts]
\* "draft": an abandonment came down on a text its writer had left and finish not
\* numbered.  "closed": one reopened an accepted report.  "unverified": a run of a
\* team finished the text of a single agent.
Lapses == {"draft", "closed", "unverified"}

\* text: which text it is; basis: the text a model wrote that it derives from.
Report == [text : Texts, basis : Texts]
\* of = 0: review_status is not_run.  data: unresolved_data_requests.  tool: a
\* finding for data_tool, which need not be material.
Review == [of : Texts \cup {0}, material : BOOLEAN, data : BOOLEAN, tool : BOOLEAN]
Request ==
    [action : {"ask", "revise", "accept"}, id : {None}, base : {None}]
      \cup [action : {"revise"}, id : Ids, base : Base]
      \cup [action : {"manual_complete"}, id : {None}, base : Base]
      \cup [action : {"abandon"}, phase : Phases]

VARIABLES
    node,           \* the node to run, or that failed
    thread,         \* status of the thread
    resume,         \* the request human_review is resumed with
    mode,           \* finsight_execution.mode of the run
    report,         \* state["report"]
    review,         \* state["report_review"]
    unresolved,     \* an author response in state["revisions"] is unresolved
    stop,           \* state["research_stop_reason"] is set
    caseReview,     \* state["case_review"] is there
    version,        \* state["report_version"]
    phase,          \* state["phase"]
    asked,          \* state["request_action"]
    output,         \* state["last_output_kind"]
    handled,        \* state["handled_revision_request_ids"]
    inflight,       \* what each HTTP request will create a run with
    created,        \* ids in the metadata of runs
    runs,           \* runs created
    written,        \* texts written so far
    shown,          \* the report snapshots of the thread's checkpoints
    begun,          \* how often the work of an id was started
    lapses          \* what went wrong between two runs

values == <<report, review, unresolved, stop, caseReview, version, phase, asked,
            output, handled>>
server == <<node, thread, resume, mode>>
clients == <<inflight, created, runs>>
history == <<written, shown, begun>>
vars == <<values, server, clients, history, lapses>>

TypeOK ==
    /\ node \in Nodes /\ thread \in {"idle", "busy", "error"}
    /\ resume \in Request \cup {None}
    /\ resume # None => node = "human_review" /\ thread = "busy"
    /\ mode \in {"single", "team"}
    /\ report \in Report /\ review \in Review
    /\ unresolved \in BOOLEAN /\ stop \in BOOLEAN /\ caseReview \in BOOLEAN
    /\ version \in 1..written
    /\ phase \in Phases
    /\ asked \in {"none", "ask", "revise"}
    /\ output \in {"none", "answer", "report", "failed_question"}
    /\ handled \subseteq Ids
    /\ inflight \in [Requests -> Request \cup {None}]
    /\ created \subseteq Ids
    /\ runs \in 0..MaxRuns
    /\ written \in Texts
    /\ shown \subseteq Base
    /\ begun \in [Ids -> 0..MaxRuns]
    /\ lapses \subseteq Lapses

-----------------------------------------------------------------------------
NotRun == review.of = 0
ReviewsOf(text) == [of : {text}, material : BOOLEAN, data : BOOLEAN, tool : BOOLEAN]
Unreviewed == [of |-> 0, material |-> FALSE, data |-> FALSE, tool |-> FALSE]

\* What finish and the accept gate look for.
Material(r, u, s) == s \/ r.data \/ r.material \/ u

\* Finished research: a single agent's unreviewed report, or a converged one.
Init ==
    /\ node = "human_review" /\ thread = "idle" /\ resume = None /\ mode = "team"
    /\ report = [text |-> 1, basis |-> 1]
    /\ version = 1
    /\ \/ /\ review = Unreviewed
          /\ unresolved = FALSE /\ stop = FALSE /\ caseReview = FALSE
          /\ phase = "single_agent_unreviewed"
       \/ /\ review \in ReviewsOf(1)
          /\ unresolved \in BOOLEAN /\ caseReview \in BOOLEAN
          /\ stop = (review.data \/ review.material \/ unresolved)
          /\ phase = IF stop THEN "needs_revision" ELSE "ready_for_human_review"
    /\ asked = "none" /\ output = "none" /\ handled = {}
    /\ inflight = [r \in Requests |-> None] /\ created = {} /\ runs = 0
    /\ written = 1 /\ shown = {[version |-> 1, text |-> 1]}
    /\ begun = [i \in Ids |-> 0] /\ lapses = {}

-----------------------------------------------------------------------------
(* The Workbench: checks on the state it read.                             *)

Interrupted == node = "human_review"        \* review_interrupts
Current == [version |-> version, text |-> report.text]

\* Faulty: runs under this id are not looked up.
ValidTargetUnhandled(base, id) == base = Current

\* validate_revision_target.
ValidTarget(base, id) == base = Current /\ id \notin handled

\* manual_review_available.
ManualReviewAvailable == ~stop /\ ~review.data /\ ~review.tool

Posted(r, request) ==
    /\ inflight[r] = None
    /\ inflight' = [inflight EXCEPT ![r] = request]
    /\ UNCHANGED <<values, server, created, runs, history, lapses>>

PostMessage(r, action) ==
    /\ Interrupted
    /\ Posted(r, [action |-> action, id |-> None, base |-> None])

\* An id with a run is answered with that run.
PostTargeted(r, id) ==
    /\ Interrupted
    /\ id \notin created
    /\ ValidTarget(Current, id)
    /\ Posted(r, [action |-> "revise", id |-> id, base |-> Current])

PostAccept(r) ==
    /\ Interrupted
    /\ phase = "ready_for_human_review"
    /\ Posted(r, [action |-> "accept", id |-> None, base |-> None])

PostManual(r) ==
    /\ Interrupted /\ thread = "idle"
    /\ ManualReviewAvailable
    /\ Posted(r, [action |-> "manual_complete", id |-> None, base |-> Current])

\* can_abandon_question.
CanAbandon ==
    /\ thread = "error"
    /\ node \in {"writer", "quick_writer"}
    /\ asked = "ask"

\* abandoned_question_update, from the state that was read.
AbandonedPhase ==
    IF stop \/ review.data \/ review.material
    THEN "needs_revision" ELSE "ready_for_human_review"

PostAbandon(r) ==
    /\ CanAbandon
    /\ Posted(r, [action |-> "abandon", phase |-> AbandonedPhase])

\* runs.create with multitask_strategy reject: a busy thread refuses, and a
\* thread that has ended has nothing to resume.  A thread that failed at
\* another node runs that node again.
CreateRun(r) ==
    /\ inflight[r] # None /\ inflight[r].action # "abandon"
    /\ inflight' = [inflight EXCEPT ![r] = None]
    /\ IF thread = "busy" \/ node = "end" \/ runs = MaxRuns
       THEN UNCHANGED <<values, server, created, runs, history, lapses>>
       ELSE /\ thread' = "busy"
            /\ resume' = IF Interrupted THEN inflight[r] ELSE None
            /\ mode' \in {"single", "team"}
            /\ runs' = runs + 1
            /\ created' = created \cup ({inflight[r].id} \ {None})
            /\ lapses' = lapses \cup
                  IF node = "finish" /\ output = "report" /\ review.of # report.text
                        /\ mode' = "team" THEN {"unverified"} ELSE {}
            /\ UNCHANGED <<values, node, history>>

\* A text that its writer has left and finish has not numbered.
OnItsWay == node = "verifier" \/ (node = "finish" /\ output = "report")

\* threads.update_state as node finish, and a run that only interrupts again.  The
\* thread may have gone on since its state was read.
WriteAbandon(r) ==
    /\ inflight[r] # None /\ inflight[r].action = "abandon"
    /\ inflight' = [inflight EXCEPT ![r] = None]
    /\ IF thread = "busy"
       THEN UNCHANGED <<values, server, history, lapses>>
       ELSE /\ node' = "human_review" /\ thread' = "idle" /\ resume' = None
            /\ phase' = inflight[r].phase
            /\ output' = "failed_question"
            /\ shown' = shown \cup {Current}
            /\ lapses' = lapses \cup (IF OnItsWay THEN {"draft"} ELSE {})
                                \cup (IF node = "end" THEN {"closed"} ELSE {})
            /\ UNCHANGED <<report, review, unresolved, stop, caseReview, version, asked,
                           handled, mode, written, begun>>
    /\ UNCHANGED <<created, runs>>

-----------------------------------------------------------------------------
(* The graph.                                                              *)

At(n) == node = n /\ thread = "busy"

\* human_review raises: the run fails and the interrupt stays.
Refuse ==
    /\ thread' = "error" /\ resume' = None
    /\ UNCHANGED <<values, node, mode, history>>

\* apply_manual_review.
CompleteManually ==
    IF ~ManualReviewAvailable \/ resume.base.version # version
    THEN Refuse
    ELSE /\ report' = [report EXCEPT !.text = written + 1]
         /\ written' = written + 1
         /\ version' = resume.base.version + 1
         /\ phase' = "human_completed"
         /\ output' = "report"
         /\ shown' = shown \cup {[version |-> resume.base.version + 1, text |-> written + 1]}
         /\ thread' = "idle" /\ resume' = None
         /\ UNCHANGED <<review, unresolved, stop, caseReview, asked, handled, node, mode,
                        begun>>

\* Faulty: the gate trusts the phase the Workbench showed.
AcceptByPhase ==
    IF phase = "needs_revision" \/ phase = "single_agent_unreviewed"
    THEN Refuse
    ELSE /\ phase' = "human_reviewed_not_released"
         /\ node' = "end" /\ thread' = "idle" /\ resume' = None
         /\ UNCHANGED <<report, review, unresolved, stop, caseReview, version, asked, output,
                        handled, mode, history>>

Accept ==
    IF NotRun \/ Material(review, unresolved, stop)
    THEN Refuse
    ELSE /\ phase' = "human_reviewed_not_released"
         /\ node' = "end" /\ thread' = "idle" /\ resume' = None
         /\ UNCHANGED <<report, review, unresolved, stop, caseReview, version, asked, output,
                        handled, mode, history>>

\* A question goes to a writer, a revision to the authors if it may.
Targets ==
    IF resume.action = "revise"
    THEN IF mode # "single" /\ caseReview THEN {"research_revision"} ELSE {"writer"}
    ELSE {"writer", "quick_writer"}

Work ==
    IF resume.id # None /\ ~ValidTarget(resume.base, resume.id)
    THEN Refuse
    ELSE /\ asked' = resume.action
         /\ handled' = handled \cup ({resume.id} \ {None})
         /\ begun' = IF resume.id = None THEN begun
                     ELSE [begun EXCEPT ![resume.id] = @ + 1]
         /\ phase' = "working"
         /\ node' \in Targets
         /\ resume' = None
         /\ UNCHANGED <<report, review, unresolved, stop, caseReview, version, output, thread,
                        mode, written, shown>>

HumanReview ==
    /\ At("human_review")
    /\ IF resume.action = "manual_complete" THEN CompleteManually
       ELSE IF resume.action = "accept" THEN Accept
       ELSE Work
    /\ UNCHANGED <<clients, lapses>>

\* writer and quick_writer: an answer to a question, a report for a revision.
Answer ==
    /\ At("writer") \/ At("quick_writer")
    /\ asked = "ask"
    /\ output' = "answer"
    /\ node' = "finish"
    /\ UNCHANGED <<report, review, unresolved, stop, caseReview, version, phase, asked,
                   handled, thread, resume, mode, clients, history, lapses>>

\* question_error: a question at its limits is given up.
QuestionLimit ==
    /\ At("writer") \/ At("quick_writer")
    /\ asked = "ask"
    /\ output' = "failed_question"
    /\ phase' = AbandonedPhase
    /\ node' = "finish"
    /\ UNCHANGED <<report, review, unresolved, stop, caseReview, version, asked,
                   handled, thread, resume, mode, clients, history, lapses>>

Write ==
    /\ At("writer")
    /\ asked = "revise"
    /\ report' = [text |-> written + 1, basis |-> written + 1]
    /\ written' = written + 1
    /\ output' = "report"
    /\ node' = IF mode # "single" THEN "verifier" ELSE "finish"
    /\ UNCHANGED <<review, unresolved, stop, caseReview, version, phase, asked, handled,
                   thread, resume, mode, clients, shown, begun,
                   lapses>>

Verify ==
    /\ At("verifier")
    /\ review' \in ReviewsOf(report.text)
    /\ node' = "finish"
    /\ UNCHANGED <<report, unresolved, stop, caseReview, version, phase, asked, output,
                   handled, thread, resume, mode, clients, history, lapses>>

\* Faulty: every finished request is a new version.
FinishedVersionAlways == version + 1

FinishedVersion == version + (IF output = "report" THEN 1 ELSE 0)

\* finish: the version, the review and the phase of what is shown next.
Finish ==
    /\ At("finish")
    /\ version' = FinishedVersion
    /\ review' = IF output = "report" /\ mode = "single"
                 THEN Unreviewed ELSE review
    /\ phase' = IF Material(review', unresolved, stop) THEN "needs_revision"
                ELSE IF review'.of = 0 THEN "single_agent_unreviewed"
                ELSE "ready_for_human_review"
    /\ node' = "human_review" /\ thread' = "idle"
    /\ shown' = shown \cup {[version |-> version', text |-> report.text]}
    /\ UNCHANGED <<report, unresolved, stop, caseReview, asked, output, handled, resume, mode,
                   clients, written, begun, lapses>>

\* research_revision: authors, Lead, writer and report verifier, the writer not
\* at all if the findings cannot be corrected.
Revised ==
    \/ /\ review.data \/ review.material
       /\ unresolved' \in (IF review.material THEN BOOLEAN ELSE {unresolved})
       /\ UNCHANGED <<report, review, written>>
       /\ stop' = TRUE
    \/ /\ \/ /\ report' = [text |-> written + 1, basis |-> written + 1]
             /\ written' = written + 1
          \/ /\ report' = [text |-> report.text, basis |-> report.text]
             /\ written' = written
       /\ review' \in ReviewsOf(report'.text)
       /\ unresolved' \in BOOLEAN
       /\ stop' = (review'.data \/ review'.material \/ unresolved')

\* Faulty: the version is raised by finish, as for the other nodes.
ReviseUnversioned ==
    /\ At("research_revision")
    /\ Revised
    /\ version' = version
    /\ phase' = IF stop' THEN "needs_revision" ELSE "ready_for_human_review"
    /\ output' = "report"
    /\ node' = "human_review" /\ thread' = "idle"
    /\ shown' = shown \cup {[version |-> version', text |-> report'.text]}
    /\ UNCHANGED <<caseReview, asked, handled, resume, mode, clients, begun, lapses>>

\* revision_handler.
Revise ==
    /\ At("research_revision")
    /\ Revised
    /\ version' = version + (IF report'.text # report.text THEN 1 ELSE 0)
    /\ phase' = IF stop' THEN "needs_revision" ELSE "ready_for_human_review"
    /\ output' = "report"
    /\ node' = "human_review" /\ thread' = "idle"
    /\ shown' = shown \cup {[version |-> version', text |-> report'.text]}
    /\ UNCHANGED <<caseReview, asked, handled, resume, mode, clients, begun, lapses>>

\* A node raises, or the run is cancelled.
Fail ==
    /\ thread = "busy" /\ node # "human_review"
    /\ thread' = "error"
    /\ UNCHANGED <<values, node, resume, mode, clients, history, lapses>>

Graph == HumanReview \/ Answer \/ QuestionLimit \/ Write \/ Verify \/ Finish \/ Revise

Next ==
    \/ \E r \in Requests :
          \/ \E action \in {"ask", "revise"} : PostMessage(r, action)
          \/ \E id \in Ids : PostTargeted(r, id)
          \/ PostAccept(r) \/ PostManual(r) \/ PostAbandon(r)
          \/ CreateRun(r) \/ WriteAbandon(r)
    \/ Graph
    \/ Fail

Spec == Init /\ [][Next]_vars

-----------------------------------------------------------------------------
(* Properties.                                                             *)

\* A version names one text for good: no two report snapshots of the thread
\* differ under one number, whatever was cancelled, retried or edited by hand
\* in between, and the current report is the snapshot of its version
\* (report_snapshot, report_versions).  Of all that overlapping requests can do, one
\* thing breaks it: a late abandonment that comes down on an unnumbered text.
VersionNamesText == "draft" \notin lapses =>
    /\ \A a, b \in shown : a.version = b.version => a.text = b.text
    /\ node \in {"human_review", "end"} => Current \in shown

\* A report that a human accepted was written by nobody but the human after its
\* independent review, and that review left nothing material (human_review).
AcceptedWasReviewed ==
    phase = "human_reviewed_not_released" /\ node = "end" =>
        /\ review.of = report.basis \/ review.of = report.text
        /\ ~Material(review, unresolved, stop)

\* An unreviewed report is accepted in no other way than by one of the two lapses
\* that leave a text without its review: an abandonment that came down on it, or a
\* run of a team that finished what a single agent had written.
UnreviewedByLapse == lapses \cap {"draft", "unverified"} # {} \/ AcceptedWasReviewed

\* The session implements the book of its report: versions are pages that are added
\* one by one, each with a text no other page has, and none after an acceptance; the
\* acceptance needs a review of what a model wrote last; and the work of an id begins
\* once (human_review, finish, revision_handler, apply_manual_review).  A text on its
\* way is not a page yet.  Every step of every interleaving is one of the book's, up
\* to the first lapse.
Book == INSTANCE ReportBook WITH
    pages <- shown,
    last <- version,
    basis <- IF OnItsWay THEN 0 ELSE report.basis,
    checked <- IF OnItsWay THEN 0 ELSE review.of,
    open <- Material(review, unresolved, stop),
    started <- handled,
    accepted <- node = "end"
ImplementsBook == Book!Init /\ [][Book!Next \/ lapses' # {}]_(Book!bvars)

\* A targeted revision is worked on once, however often its request is sent and
\* even when the revision left the report as it was
\* (handled_revision_request_ids).
OncePerRequest == \A id \in Ids : begun[id] <= 1

\* A manual completion replaces the text its author opened, and a targeted
\* revision starts from the text it was aimed at, whatever other requests did
\* between the check and the run (apply_manual_review, targeted_feedback); after an
\* abandonment on an unnumbered text a version may be two.
BasedOnWhatWasSeen ==
    [][node = "human_review" /\ resume # None /\ resume' = None /\ thread' # "error"
          /\ "draft" \notin lapses => resume.base = None \/ resume.base.text = report.text]_vars

\* A question never changes the report, its review or its version, whether it
\* is answered, given up, failed or abandoned (finish, abandoned_question_update:
\* "never approve or rewrite a report").
QuestionKeepsReport ==
    [][asked = "ask" /\ asked' = "ask" /\ node # "human_review" =>
          UNCHANGED <<report, review, version, unresolved, stop>>]_vars
=============================================================================
