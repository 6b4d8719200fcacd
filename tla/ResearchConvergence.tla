------------------------ MODULE ResearchConvergence ------------------------
(***************************************************************************)
(* From reviewed papers to a report.  Authors answer the findings on their *)
(* papers, the Lead writes a brief, its verifier reads it, the Writer      *)
(* writes the report, its verifier reads that, and a router sends every    *)
(* material finding to whoever is responsible for it.  One round of        *)
(* corrections is automatic; what is still open after it, or needs data or *)
(* a person, stops the run.  A person who sees the result may edit it, let *)
(* one agent rewrite it, or ask for a revision, which runs the graph again *)
(* on what was saved.                                                      *)
(***************************************************************************)
EXTENDS Integers, FiniteSets

CONSTANTS
    Papers,
    MaxParallel,    \* max_parallel_authors
    Followups,      \* bound on revisions asked for after the first run
    Changes         \* bound on edits and rewrites by one agent between runs

ASSUME ConvergenceAssumption ==
    /\ IsFiniteSet(Papers) /\ Papers # {} /\ Papers \cap {"synthesis", "writer"} = {}
    /\ MaxParallel \in 1..12
    /\ Followups \in Nat /\ Changes \in Nat

Never == -1
Nodes == {"initialize", "prepare_authors", "prepare_focused_report", "responsible_author",
          "lead_synthesis", "research_verifier", "writer", "report_verifier",
          "route_review", "finish", "end"}
Phases == {"none", "case_report_needs_revision", "research_convergence_needs_attention",
           "case_report_ready_for_human_review", "human_completed", "single_agent_unreviewed"}
Stops == {"none", "unresolved_data_or_author_response",
          "material_findings_remain_after_targeted_correction"}
Versions == [Papers -> Nat]
\* "unread": a person's text, behind an older revision by the paper's author.
Hands == {"worker", "author", "person", "unread"}

\* The execution plan and its papers; a focused plan has one.
Plans ==
    {q \in [depth : {"extended", "integrated", "focused"}, papers : SUBSET Papers] :
        q.papers # {} /\ (q.depth = "focused" => Cardinality(q.papers) = 1)}

\* no = 0: there is none.  on: the versions of the papers its author was given.
Text == [no : Nat, on : Versions]
\* of: the text it is about.  research, writer: who has a material finding to
\* answer.  blocked: data is missing, or a finding is for a tool or a person.
Review == [of : Nat, research : SUBSET Papers, writer : BOOLEAN, blocked : BOOLEAN]

VARIABLES
    plan,           \* research_execution_plan
    at,             \* the node to run
    existing,       \* existing_state: this run revises a saved result
    pending,        \* papers with pending_feedback
    completed,      \* author_completed, Never where there is no entry
    running,        \* authors of the superstep that have not ended
    round,          \* correction_round
    active,         \* active_review
    stop,           \* stop_reason
    unresolved,     \* papers with an unresolved author response in revisions
    paper,          \* counts the texts of each paper that the agents were given
    prose,          \* whose text of it a reader is shown
    brief,          \* synthesis
    briefReview,    \* synthesis_review
    report,
    reportReview,   \* report_review
    phase,
    turns,          \* how often each author, the Lead and the Writer worked in this run
    asked,          \* runs asked for after the first one
    changed,        \* edits and rewrites between runs
    alone           \* one agent rewrote the report without a review

authors == <<pending, completed, running, round>>
papers == <<plan, unresolved, paper, prose>>
texts == <<brief, briefReview, report, reportReview>>
people == <<asked, changed, alone>>
vars == <<at, existing, authors, active, stop, papers, texts, phase, turns, people>>

Actors == Papers \cup {"synthesis", "writer"}

TypeOK ==
    /\ plan \in Plans
    /\ at \in Nodes /\ existing \in BOOLEAN
    /\ pending \subseteq Papers /\ running \subseteq pending
    /\ completed \in [Papers -> {Never, 0, 1}]
    /\ round \in {0, 1} /\ active \in {"synthesis_review", "report_review"}
    /\ stop \in Stops /\ phase \in Phases
    /\ unresolved \subseteq Papers /\ paper \in Versions /\ prose \in [Papers -> Hands]
    /\ brief \in Text /\ report \in Text
    /\ briefReview \in Review /\ reportReview \in Review
    /\ turns \in [Actors -> Nat]
    /\ asked \in 0..Followups /\ changed \in 0..Changes /\ alone \in BOOLEAN

-----------------------------------------------------------------------------
NoText == [no |-> 0, on |-> [p \in Papers |-> 0]]
Clean(text) == [of |-> text.no, research |-> {}, writer |-> FALSE, blocked |-> FALSE]
NextText(text) == [no |-> text.no + 1, on |-> paper]
ReviewsOf(text) ==
    [of : {text.no}, research : SUBSET plan.papers, writer : BOOLEAN, blocked : BOOLEAN]

Open(review) == review.research # {} \/ review.writer
ActiveReview == IF active = "synthesis_review" THEN briefReview ELSE reportReview
CurrentText == IF active = "synthesis_review" THEN brief ELSE report

Init ==
    /\ plan \in Plans
    /\ at = "initialize" /\ existing = FALSE
    /\ pending = {} /\ completed = [p \in Papers |-> Never] /\ running = {}
    /\ round = 0 /\ active = "report_review" /\ stop = "none" /\ phase = "none"
    /\ unresolved = {} /\ paper = [p \in Papers |-> 0] /\ prose = [p \in Papers |-> "worker"]
    /\ brief = NoText /\ report = NoText
    /\ briefReview = Clean(NoText) /\ reportReview = Clean(NoText)
    /\ turns = [a \in Actors |-> 0]
    /\ asked = 0 /\ changed = 0 /\ alone = FALSE

\* A first run brings the findings of the case review, a revision none.
InitialRoute(feedback) ==
    IF ~existing
    THEN IF feedback # {} \/ plan.depth # "focused" THEN "prepare_authors"
         ELSE "prepare_focused_report"
    ELSE IF reportReview.blocked \/ Open(reportReview) THEN "route_review" ELSE "writer"

Initialize ==
    /\ at = "initialize"
    /\ \E feedback \in SUBSET plan.papers :
         /\ existing => feedback = {}
         /\ pending' = feedback
         /\ at' = InitialRoute(feedback)
    /\ round' = 0 /\ stop' = "none" /\ active' = "report_review"
    /\ UNCHANGED <<existing, completed, running, papers, texts, phase, turns, people>>

-----------------------------------------------------------------------------
(* Authors.                                                                *)

\* Faulty: an author who answered before is not asked again.
ReadyOnce == {p \in pending : completed[p] = Never}

Ready == {p \in pending : completed[p] # round}

\* The code takes the first ones in the order of their names.
Batches ==
    {batch \in SUBSET Ready : Cardinality(batch) =
        IF Cardinality(Ready) < MaxParallel THEN Cardinality(Ready) ELSE MaxParallel}

SendAuthors ==
    /\ at = "prepare_authors" /\ Ready # {}
    /\ running' \in Batches
    /\ at' = "responsible_author"
    /\ UNCHANGED <<existing, pending, completed, round, active, stop, papers, texts,
                   phase, turns, people>>

StopAuthors ==
    /\ at = "prepare_authors" /\ Ready = {} /\ unresolved # {}
    /\ stop' = "unresolved_data_or_author_response"
    /\ at' = "finish"
    /\ UNCHANGED <<existing, authors, active, papers, texts, phase, turns, people>>

AfterAuthors ==
    CASE plan.depth = "extended" -> "lead_synthesis"
      [] plan.depth = "focused" -> "prepare_focused_report"
      [] OTHER -> "writer"

LeaveAuthors ==
    /\ at = "prepare_authors" /\ Ready = {} /\ unresolved = {}
    /\ at' = AfterAuthors
    /\ UNCHANGED <<existing, authors, active, stop, papers, texts, phase, turns, people>>

\* The author answers its findings and what it left unresolved before; an author
\* that fails changes nothing, and the next attempt runs it again.  A person's text
\* it was given is taken up; one it was not given stays in front of its own.
Author(p) ==
    /\ at = "responsible_author" /\ p \in running
    /\ unresolved' \in {unresolved \ {p}, unresolved \cup {p}}
    /\ paper' = [paper EXCEPT ![p] = @ + 1]
    /\ prose' = [prose EXCEPT ![p] = IF @ = "unread" THEN @ ELSE "author"]
    /\ completed' = [completed EXCEPT ![p] = round]
    /\ turns' = [turns EXCEPT ![p] = @ + 1]
    /\ running' = running \ {p}
    /\ at' = IF running = {p} THEN "prepare_authors" ELSE at
    /\ UNCHANGED <<plan, existing, pending, round, active, stop, texts, phase, people>>

-----------------------------------------------------------------------------
(* The Lead, the Writer and their verifiers.                               *)

LeadSynthesis ==
    /\ at = "lead_synthesis"
    /\ brief' = NextText(brief)
    /\ turns' = [turns EXCEPT !["synthesis"] = @ + 1]
    /\ at' = "research_verifier"
    /\ UNCHANGED <<existing, authors, active, stop, papers, briefReview, report,
                   reportReview, phase, people>>

ResearchVerifier ==
    /\ at = "research_verifier"
    /\ briefReview' \in ReviewsOf(brief)
    /\ active' = "synthesis_review"
    /\ at' = "route_review"
    /\ UNCHANGED <<existing, authors, stop, papers, brief, report, reportReview, phase,
                   turns, people>>

\* A focused plan: the paper itself becomes the report.
PrepareFocusedReport ==
    /\ at = "prepare_focused_report"
    /\ report' = NextText(report)
    /\ at' = "report_verifier"
    /\ UNCHANGED <<existing, authors, active, stop, papers, brief, briefReview,
                   reportReview, phase, turns, people>>

\* Faulty: the corrected report is not verified again.
WriterUnverified ==
    /\ at = "writer"
    /\ report' = NextText(report)
    /\ turns' = [turns EXCEPT !["writer"] = @ + 1]
    /\ at' = IF round = 0 THEN "report_verifier" ELSE "finish"
    /\ UNCHANGED <<existing, authors, active, stop, papers, brief, briefReview,
                   reportReview, phase, people>>

Writer ==
    /\ at = "writer"
    /\ report' = NextText(report)
    /\ turns' = [turns EXCEPT !["writer"] = @ + 1]
    /\ at' = "report_verifier"
    /\ UNCHANGED <<existing, authors, active, stop, papers, brief, briefReview,
                   reportReview, phase, people>>

ReportVerifier ==
    /\ at = "report_verifier"
    /\ reportReview' \in ReviewsOf(report)
    /\ active' = "report_review"
    /\ at' = "route_review"
    /\ UNCHANGED <<existing, authors, stop, papers, brief, briefReview, report, phase,
                   turns, people>>

-----------------------------------------------------------------------------
(* route_review and finish.                                                *)

Routing == at = "route_review"
routed == <<existing, completed, running, active, papers, texts, phase, turns, people>>

RouteBlocked ==
    /\ Routing /\ (ActiveReview.blocked \/ unresolved # {})
    /\ stop' = "unresolved_data_or_author_response"
    /\ pending' = ActiveReview.research
    /\ at' = "finish"
    /\ UNCHANGED <<routed, round>>

Passed == Routing /\ ~ActiveReview.blocked /\ unresolved = {}

RouteClean ==
    /\ Passed /\ ~Open(ActiveReview)
    /\ stop' = "none"
    /\ at' = IF active = "synthesis_review" THEN "writer" ELSE "finish"
    /\ UNCHANGED <<routed, pending, round>>

\* Faulty: what is still open is kept for a later revision, and no reason is given.
RouteExhaustedSilently ==
    /\ Passed /\ Open(ActiveReview) /\ round >= 1
    /\ pending' = ActiveReview.research
    /\ at' = "finish"
    /\ UNCHANGED <<routed, round, stop>>

RouteExhausted ==
    /\ Passed /\ Open(ActiveReview) /\ round >= 1
    /\ stop' = "material_findings_remain_after_targeted_correction"
    /\ pending' = ActiveReview.research
    /\ at' = "finish"
    /\ UNCHANGED <<routed, round>>

Responsible ==
    IF ActiveReview.research # {} THEN "prepare_authors"
    ELSE IF active = "synthesis_review" THEN "lead_synthesis" ELSE "writer"

\* Faulty: the correction is not counted below the bound.
RouteCorrectionNext ==
    /\ Passed /\ Open(ActiveReview) /\ round <= 1
    /\ pending' = ActiveReview.research
    /\ round' = round + 1
    /\ at' = Responsible
    /\ UNCHANGED <<routed, stop>>

RouteCorrection ==
    /\ Passed /\ Open(ActiveReview) /\ round < 1
    /\ pending' = ActiveReview.research
    /\ round' = 1
    /\ at' = Responsible
    /\ UNCHANGED <<routed, stop>>

FinishedPhase ==
    CASE stop # "none" /\ report.no # 0 -> "case_report_needs_revision"
      [] stop # "none" /\ report.no = 0 -> "research_convergence_needs_attention"
      [] OTHER -> "case_report_ready_for_human_review"

Finish ==
    /\ at = "finish"
    /\ phase' = FinishedPhase
    /\ at' = "end"
    /\ UNCHANGED <<existing, authors, active, stop, papers, texts, turns, people>>

-----------------------------------------------------------------------------
(* What happens to the saved result before the next run.                   *)

Delivered == at = "end" /\ report.no # 0

\* with_human_edits puts a person's text in front of the paper, but the graph puts
\* the saved revisions in front of that again (with_revisions): its agents are
\* given the person's text only of papers that no author has revised.
EditPapers(edited) ==
    /\ edited \subseteq plan.papers
    /\ paper' = [p \in Papers |->
          IF p \in edited /\ prose[p] \in {"worker", "person"} THEN paper[p] + 1 ELSE paper[p]]
    /\ prose' = [p \in Papers |->
          IF p \notin edited THEN prose[p]
          ELSE IF prose[p] \in {"worker", "person"} THEN "person" ELSE "unread"]

\* Faulty: the reason of the stop is not looked at.
HumanEditUnchecked ==
    /\ Delivered /\ changed < Changes /\ ~reportReview.blocked
    /\ \E edited \in SUBSET Papers : EditPapers(edited)
    /\ report' = [report EXCEPT !.no = @ + 1]
    /\ changed' = changed + 1
    /\ phase' = "human_completed"
    /\ UNCHANGED <<plan, unresolved, at, existing, authors, active, stop, brief,
                   briefReview, reportReview, turns, asked, alone>>

\* apply_manual_review: a person completes the report, and any of the papers with
\* it; the review stays.
HumanEdit ==
    /\ Delivered /\ changed < Changes /\ stop = "none" /\ ~reportReview.blocked
    /\ \E edited \in SUBSET Papers : EditPapers(edited)
    /\ report' = [report EXCEPT !.no = @ + 1]
    /\ changed' = changed + 1
    /\ phase' = "human_completed"
    /\ UNCHANGED <<plan, unresolved, at, existing, authors, active, stop, brief,
                   briefReview, reportReview, turns, asked, alone>>

\* A revision by one agent: the session's own writer, and no review of the text.
SingleAgentRevision ==
    /\ Delivered /\ changed < Changes
    /\ report' = NextText(report)
    /\ reportReview' = Clean(NoText)
    /\ changed' = changed + 1
    /\ alone' = TRUE
    /\ phase' = IF stop # "none" \/ unresolved # {} THEN "case_report_needs_revision"
                ELSE "single_agent_unreviewed"
    /\ UNCHANGED <<at, existing, authors, active, stop, papers, brief, briefReview,
                   turns, asked>>

\* revise_research: a new graph, on the saved state and without feedback.
Followup ==
    /\ Delivered /\ asked < Followups
    /\ at' = "initialize" /\ existing' = TRUE
    /\ pending' = {} /\ completed' = [p \in Papers |-> Never] /\ running' = {}
    /\ turns' = [a \in Actors |-> 0]
    /\ asked' = asked + 1
    /\ phase' = "none"
    /\ UNCHANGED <<round, active, stop, papers, texts, changed, alone>>

\* Nothing more is asked for.
Rest == at = "end" /\ UNCHANGED vars

Next ==
    \/ Initialize
    \/ SendAuthors \/ StopAuthors \/ LeaveAuthors
    \/ \E p \in Papers : Author(p)
    \/ LeadSynthesis \/ ResearchVerifier
    \/ PrepareFocusedReport \/ Writer \/ ReportVerifier
    \/ RouteBlocked \/ RouteClean \/ RouteExhausted \/ RouteCorrection
    \/ Finish
    \/ HumanEdit \/ SingleAgentRevision \/ Followup \/ Rest

Spec == Init /\ [][Next]_vars

-----------------------------------------------------------------------------
(* Properties.                                                             *)

Ended(p) == at = "end" /\ phase = p

\* A report called ready for human review was read by its verifier in the run
\* that wrote it, without a material finding or missing data, was written from
\* the papers as the graph's agents are given them, and no author left a finding
\* open (research_convergence.py, route_review and finish), also after edits,
\* rewrites and revisions.
ReadyIsReviewed ==
    Ended("case_report_ready_for_human_review") =>
        /\ reportReview = Clean(report) /\ report.on = paper
        /\ unresolved = {} /\ stop = "none"

\* Under an extended plan the brief behind a ready report was itself passed by the
\* research verifier, and it is the Lead's judgement of the papers as their authors
\* left them ("Research corrections always revisit the Lead",
\* research_convergence.py:256), however many corrections and revisions came
\* between: only a person's text of a paper may be newer than the brief.  A revision
\* by a single agent replaces the review of the report, findings included, and is
\* excepted.
ReadyBriefIsReviewed ==
    (Ended("case_report_ready_for_human_review") /\ plan.depth = "extended" /\ ~alone) =>
        /\ briefReview = Clean(brief) /\ brief.no # 0
        /\ \A p \in Papers : brief.on[p] # paper[p] => prose[p] = "person"

\* Nobody writes from papers whose authors still owe an answer in this round
\* (ready_authors and author_routes).
WritersComeAfterAuthors ==
    at \in {"lead_synthesis", "writer", "prepare_focused_report"} =>
        \A p \in pending : completed[p] = round

\* A run works at most twice with every author, the Lead and the Writer: the
\* first attempt and one round of corrections.
OneCorrection == \A a \in Actors : turns[a] <= 2

\* Findings are routed only while the text they quote is the current one, also
\* when a revision starts from the review a former run saved (initial_route).
RoutesOnCurrentText == Routing => ActiveReview.of = CurrentText.no

\* An explicitly requested later repair answers older unresolved items: a
\* revision does not end with an item its author was not asked about.
FollowupHeeded ==
    (at = "end" /\ existing) => \A p \in unresolved : turns[p] > 0

\* Whoever writes in a revision is given a person's text of every paper a person
\* edited, not an older text of its author (case_artifacts.py, with_human_edits:
\* "current editorial prose", "Do not silently restore withdrawn conclusions").
EditsAreRead ==
    at \in {"lead_synthesis", "writer", "prepare_focused_report"} =>
        \A p \in Papers : prose[p] # "unread"

\* How far the end of the run is: the round of corrections it may still have, and
\* in a round the nodes after this one, with two steps for each author to ask.
RoundCost == 2 * Cardinality(Papers) + 12
NodeCost ==
    CASE at = "prepare_authors" -> 10 + 2 * Cardinality(Ready)
      [] at = "responsible_author" -> 9 + 2 * Cardinality(Ready)
      [] at = "lead_synthesis" -> 8
      [] at = "research_verifier" -> 7
      [] at = "route_review" -> IF active = "synthesis_review" THEN 6 ELSE 3
      [] at \in {"writer", "prepare_focused_report"} -> 5
      [] at = "report_verifier" -> 4
      [] OTHER -> 1
Distance ==
    CASE at = "end" -> 0
      [] at = "initialize" -> 2 * RoundCost
      [] OTHER -> (1 - round) * RoundCost + NodeCost

\* Whatever reviewers find and authors answer, every step of a run brings its end
\* nearer: there is no way around by which a finding is sent back and forth
\* (route_review, ready_authors), and a run is over long before the graph's
\* recursion_limit (research_session_runtime.py) if nobody fails.
NearsEnd == [][at # "end" => Distance' < Distance]_vars
=============================================================================
