--------------------------- MODULE ReportDelivery ---------------------------
(***************************************************************************)
(* The convergence graph inside its session.  The graph works on a copy of *)
(* the saved state; when it ends, the session takes over the report, its   *)
(* review, what the authors left unresolved and the reason of the stop,    *)
(* and numbers the texts it was shown.  ReportSession describes the same   *)
(* run as one step that returns any result of a certain kind: here that    *)
(* kind is what the graph really returns.                                  *)
(***************************************************************************)
EXTENDS ResearchConvergence

VARIABLES
    session,    \* what the session keeps of the report
    origin      \* the number the graph gave to the session's text

dvars == <<vars, session, origin>>

Unread == [of |-> 0, material |-> FALSE, data |-> FALSE, tool |-> FALSE]

\* A finding for a tool or a person blocks the graph as missing data does.
Taken(text, from) ==
    [report |-> [text |-> text, basis |-> from],
     review |-> [of |-> IF reportReview.of = report.no THEN text ELSE session.review.of,
                 material |-> Open(reportReview), data |-> reportReview.blocked, tool |-> FALSE],
     unresolved |-> unresolved # {},
     stop |-> stop # "none",
     written |-> IF text > session.written THEN text ELSE session.written]

\* A run that wrote no report leaves the text, and a new one gets the next number.
Result ==
    IF report.no = origin THEN Taken(session.report.text, session.report.basis)
    ELSE Taken(session.written + 1, session.written + 1)

NewSession ==
    /\ session = [report |-> [text |-> 0, basis |-> 0], review |-> Unread,
                  unresolved |-> FALSE, stop |-> FALSE, written |-> 0]
    /\ origin = 0

\* converge_node, revision_handler.
Deliver == Finish /\ report.no # 0 /\ session' = Result /\ origin' = report.no

\* converge_node without a report: the session goes to research_attention.
NothingToDeliver == Finish /\ report.no = 0 /\ UNCHANGED <<session, origin>>

\* A person's text derives from the one a model wrote, and keeps its review.
Edit ==
    /\ HumanEdit
    /\ session' = [session EXCEPT !.report.text = session.written + 1,
                                  !.written = @ + 1]
    /\ origin' = report'.no

Rewrite ==
    /\ SingleAgentRevision
    /\ session' = [session EXCEPT !.report = [text |-> session.written + 1,
                                              basis |-> session.written + 1],
                                  !.written = @ + 1, !.review = Unread]
    /\ origin' = report'.no

\* Everything before finish happens to the graph's own copy.
Work ==
    /\ \/ Initialize \/ SendAuthors \/ StopAuthors \/ LeaveAuthors
       \/ \E p \in Papers : Author(p)
       \/ LeadSynthesis \/ ResearchVerifier
       \/ PrepareFocusedReport \/ Writer \/ ReportVerifier
       \/ RouteBlocked \/ RouteClean \/ RouteExhausted \/ RouteCorrection
       \/ Followup \/ Rest
    /\ UNCHANGED <<session, origin>>

DeliveryInit == Init /\ NewSession
DeliveryNext == Work \/ Deliver \/ NothingToDeliver \/ Edit \/ Rewrite

DeliverySpec == DeliveryInit /\ [][DeliveryNext]_dvars

-----------------------------------------------------------------------------
\* The session that runs the graph, at the moment it has its result; it has no
\* requests of its own here.
ShownPhase ==
    IF phase = "case_report_ready_for_human_review" THEN "ready_for_human_review"
    ELSE "needs_revision"
R == INSTANCE ReportSession WITH
    Requests <- {}, Ids <- {}, MaxRuns <- Followups + Changes,
    None <- "none",
    report <- session.report, review <- session.review,
    unresolved <- session.unresolved, stop <- session.stop, written <- session.written,
    phase <- ShownPhase,
    node <- "human_review", thread <- "idle", resume <- "none", mode <- "team",
    caseReview <- TRUE, version <- 1, asked <- "none", output <- "none", handled <- {},
    inflight <- [r \in {} |-> "none"], created <- {}, runs <- 0,
    shown <- {[version |-> 1, text |-> 1]}, begun <- [i \in {} |-> 0], lapses <- {}

\* What a first run delivers is a report a session may start from, and what a
\* revision delivers is one of the results Revised allows: either the old report
\* with its review and a reason to stop, which needs a finding or missing data in
\* that review, or a text with a review of its own that the stop agrees with
\* (research_session.py, converge_node and revision_handler).  A first run without
\* a report has a reason to stop.
Delivery ==
    at = "finish" /\ at' = "end" =>
        IF ~existing
        THEN IF report.no = 0 THEN stop # "none" ELSE R!Init'
        ELSE R!Revised /\ ShownPhase' = IF session.stop' THEN "needs_revision"
                                        ELSE "ready_for_human_review"
DeliversAsPromised == [][Delivery]_dvars
=============================================================================
