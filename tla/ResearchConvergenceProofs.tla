--------------------- MODULE ResearchConvergenceProofs ---------------------
(***************************************************************************)
(* Proofs about ResearchConvergence, for every depth, any papers and any   *)
(* number of revisions, edits and rewrites.  The invariant says what each  *)
(* place of the graph may rely on: who worked how often, which text a      *)
(* saved review is about, and that the report at its verifier was written  *)
(* from the papers as they are.                                            *)
(***************************************************************************)
EXTENDS ReportDelivery, FiniteSetTheorems, TLAPS

\* Authors run in one place, each for a round it has not completed.
AuthorsPlaced ==
    /\ running # {} => at = "responsible_author"
    /\ \A p \in running : completed[p] # round

\* A run starts with nobody having worked.
StartsFresh ==
    at = "initialize" =>
        /\ \A a \in Actors : turns[a] = 0
        /\ \A p \in Papers : completed[p] = Never

\* An author works once in every round it completed.
AuthorsCounted == \A p \in Papers : turns[p] <= completed[p] + 1 /\ completed[p] <= round

\* The Lead works once a round, and so does the Writer.
LeadCounted ==
    turns["synthesis"] <=
        IF at \in {"prepare_authors", "responsible_author", "lead_synthesis"}
        THEN round ELSE round + 1
WriterCounted ==
    turns["writer"] <=
        IF \/ at \in {"prepare_authors", "responsible_author", "lead_synthesis",
                      "research_verifier", "writer"}
           \/ at = "route_review" /\ active = "synthesis_review"
        THEN round ELSE round + 1

\* No author owes an answer from where the Lead or the Writer is reached.
AuthorsDone ==
    (\/ at \in {"lead_synthesis", "research_verifier", "writer", "prepare_focused_report"}
     \/ at = "route_review" /\ active = "synthesis_review") =>
        \A p \in pending : completed[p] = round

\* A review with something to answer is about the current report, and what is
\* routed is about the current text.
ReviewsCurrent ==
    /\ RoutesOnCurrentText
    /\ at # "report_verifier" => (Open(reportReview) \/ reportReview.blocked => reportReview.of = report.no)
    /\ (at \in {"finish", "end"} /\ stop = "none") => ~Open(reportReview)

ReportPassed == reportReview = Clean(report) /\ report.on = paper

\* Where a report can be passed, it was written from the papers as they are.
ReportsCurrent ==
    /\ at = "report_verifier" => report.on = paper
    /\ (at = "route_review" /\ active = "report_review" /\ ~Open(reportReview)
          /\ ~reportReview.blocked) => ReportPassed
    /\ (at = "finish" /\ stop = "none") => ReportPassed /\ unresolved = {}
    /\ ReadyIsReviewed

\* Since the brief, only people changed papers.
EditedSince == \A p \in Papers : brief.on[p] # paper[p] => prose[p] = "person"
BriefPassed == briefReview = Clean(brief) /\ brief.no # 0 /\ EditedSince
OnBrief ==
    \/ at \in {"prepare_authors", "responsible_author", "lead_synthesis", "research_verifier"}
    \/ at = "route_review" /\ active = "synthesis_review"

\* Under an extended plan: a report without research findings rests on a passed
\* brief, and a brief is written again only for such findings.
BriefsCurrent ==
    (plan.depth = "extended" /\ ~alone) =>
        /\ at # "prepare_focused_report"
        /\ at = "initialize" => (existing <=> report.no # 0)
        /\ at \in {"writer", "report_verifier"} => BriefPassed
        /\ (report.no # 0 /\ reportReview.research = {}) => BriefPassed
        /\ (report.no # 0 /\ OnBrief) => reportReview.research # {}
        /\ (at = "report_verifier" \/ (at = "route_review" /\ active = "report_review")
             \/ (at = "finish" /\ stop = "none")
             \/ (at = "end" /\ phase = "case_report_ready_for_human_review")) => report.no # 0
        /\ at = "research_verifier" => brief.no # 0 /\ brief.on = paper
        /\ (at = "route_review" /\ active = "synthesis_review") =>
              /\ brief.no # 0 /\ brief.on = paper
              /\ (~Open(briefReview) /\ ~briefReview.blocked) => briefReview = Clean(brief)

ConvergenceInv ==
    /\ TypeOK /\ AuthorsPlaced /\ StartsFresh /\ AuthorsCounted /\ LeadCounted
    /\ WriterCounted /\ AuthorsDone /\ ReviewsCurrent /\ ReportsCurrent /\ BriefsCurrent

-----------------------------------------------------------------------------
\* The routes, case by case.
LEMMA Routes ==
    /\ plan.depth = "extended" => AfterAuthors = "lead_synthesis"
    /\ plan.depth = "focused" => AfterAuthors = "prepare_focused_report"
    /\ plan.depth = "integrated" => AfterAuthors = "writer"
BY DEF AfterAuthors

LEMMA PlanType ==
    ASSUME TypeOK
    PROVE  /\ plan.depth \in {"extended", "integrated", "focused"}
           /\ plan.papers \subseteq Papers
BY DEF TypeOK, Plans

LEMMA AfterAuthorsType ==
    ASSUME TypeOK
    PROVE  AfterAuthors \in {"lead_synthesis", "prepare_focused_report", "writer"}
BY Routes, PlanType

LEMMA Phased ==
    ASSUME TypeOK
    PROVE  /\ FinishedPhase \in Phases
           /\ stop # "none" => FinishedPhase # "case_report_ready_for_human_review"
BY DEF TypeOK, FinishedPhase, Phases, Stops, Text

\* A review of a text that asks for nothing is the clean one.
LEMMA CleanReview ==
    ASSUME NEW text \in Text, NEW review \in ReviewsOf(text),
           ~Open(review), ~review.blocked
    PROVE  review = Clean(text)
BY DEF ReviewsOf, Open, Clean, Text

LEMMA NextTextType ==
    ASSUME NEW text \in Text, paper \in Versions
    PROVE  NextText(text) \in Text /\ NextText(text).no # 0 /\ NextText(text).on = paper
BY DEF NextText, Text

\* A person's edits leave the papers well-typed, and are the only change of a paper
\* since the brief.
LEMMA EditTypes ==
    ASSUME TypeOK, NEW edited \in SUBSET Papers, EditPapers(edited)
    PROVE  paper' \in Versions /\ prose' \in [Papers -> Hands]
BY DEF TypeOK, EditPapers, Versions, Hands

LEMMA EditedKept ==
    ASSUME TypeOK, EditedSince, UNCHANGED brief,
           UNCHANGED <<paper, prose>> \/ \E edited \in SUBSET Papers : EditPapers(edited)
    PROVE  EditedSince'
<1>1. CASE UNCHANGED <<paper, prose>>
    BY <1>1 DEF EditedSince
<1>2. ASSUME NEW edited \in SUBSET Papers, EditPapers(edited) PROVE EditedSince'
    <2> SUFFICES ASSUME NEW p \in Papers, brief.on[p] # paper'[p] PROVE prose'[p] = "person"
        BY DEF EditedSince
    <2>1. CASE p \in edited /\ prose[p] \in {"worker", "person"}
        BY <1>2, <2>1 DEF EditPapers
    <2>2. CASE ~(p \in edited /\ prose[p] \in {"worker", "person"})
        <3>1. paper'[p] = paper[p]
            BY <1>2, <2>2 DEF EditPapers
        <3>2. prose[p] = "person"
            BY <3>1 DEF EditedSince
        <3> QED
            BY <1>2, <2>2, <3>2 DEF EditPapers
    <2> QED
        BY <2>1, <2>2
<1> QED
    BY <1>1, <1>2

LEMMA EditedFresh == brief.on = paper => EditedSince
BY DEF EditedSince

LEMMA ReviewsType ==
    ASSUME TypeOK, NEW text \in Text, NEW review \in ReviewsOf(text)
    PROVE  review \in Review /\ review.of = text.no
BY PlanType DEF ReviewsOf, Review, Text

LEMMA CleanType ==
    /\ NoText \in Text /\ Clean(NoText) \in Review
    /\ ~Open(Clean(NoText)) /\ ~Clean(NoText).blocked /\ NoText.no = 0
BY DEF NoText, Clean, Text, Review, Versions, Open

LEMMA InitHolds == Init => ConvergenceInv
<1> SUFFICES ASSUME Init PROVE ConvergenceInv
    OBVIOUS
<1>0. Followups \in Nat /\ Changes \in Nat
    BY ConvergenceAssumption
<1>a. at \in Nodes /\ stop \in Stops /\ phase \in Phases /\ paper \in Versions
      /\ completed \in [Papers -> {Never, 0, 1}] /\ turns \in [Actors -> Nat]
      /\ prose \in [Papers -> Hands]
    BY DEF Init, Nodes, Stops, Phases, Versions, Hands
<1>b. brief \in Text /\ report \in Text /\ briefReview \in Review /\ reportReview \in Review
    BY CleanType DEF Init
<1>c. existing \in BOOLEAN /\ alone \in BOOLEAN
    BY DEF Init
<1>d. asked \in 0..Followups /\ changed \in 0..Changes /\ round \in {0, 1}
    BY <1>0 DEF Init
<1>e. /\ pending \subseteq Papers /\ running \subseteq pending /\ unresolved \subseteq Papers
      /\ active \in {"synthesis_review", "report_review"}
    BY DEF Init
<1>f. plan \in Plans
    BY DEF Init
<1>1. TypeOK
    BY <1>a, <1>b, <1>c, <1>d, <1>e, <1>f DEF TypeOK
<1>2. AuthorsPlaced /\ StartsFresh /\ AuthorsCounted /\ LeadCounted /\ WriterCounted
    BY DEF Init, AuthorsPlaced, StartsFresh, AuthorsCounted, LeadCounted, WriterCounted, Actors, Never
<1>3. AuthorsDone /\ ReviewsCurrent /\ ReportsCurrent
    BY CleanType DEF Init, AuthorsDone, ReviewsCurrent, RoutesOnCurrentText, Routing,
       ReportsCurrent, ReadyIsReviewed, Ended
<1>4. BriefsCurrent
    BY CleanType DEF Init, BriefsCurrent, OnBrief
<1> QED
    BY <1>1, <1>2, <1>3, <1>4 DEF ConvergenceInv

\* Types are kept.
LEMMA TypeKept ==
    ASSUME TypeOK, AuthorsPlaced, [Next]_vars
    PROVE  TypeOK'
<1> USE DEF TypeOK, Nodes, Stops, Phases, Versions, Actors, Never, AuthorsPlaced
<1>1. ASSUME Initialize PROVE TypeOK'
    BY <1>1, PlanType DEF Initialize, InitialRoute, authors, papers, texts, people
<1>2. ASSUME SendAuthors PROVE TypeOK'
    BY <1>2 DEF SendAuthors, Ready, Batches, authors, papers, texts, people
<1>3. ASSUME StopAuthors PROVE TypeOK'
    BY <1>3 DEF StopAuthors, Ready, authors, papers, texts, people
<1>4. ASSUME LeaveAuthors PROVE TypeOK'
    BY <1>4, Routes, AfterAuthorsType, ConvergenceAssumption DEF LeaveAuthors, Ready,
       authors, papers, texts, people
<1>5. ASSUME NEW p \in Papers, Author(p) PROVE TypeOK'
    BY <1>5, ConvergenceAssumption DEF Author, authors, papers, texts, people, Hands
<1>6. ASSUME LeadSynthesis PROVE TypeOK'
    BY <1>6, NextTextType DEF LeadSynthesis, authors, papers, texts, people
<1>7. ASSUME ResearchVerifier PROVE TypeOK'
    BY <1>7, ReviewsType, CleanReview DEF ResearchVerifier, authors, papers, texts, people
<1>8. ASSUME PrepareFocusedReport PROVE TypeOK'
    BY <1>8, NextTextType DEF PrepareFocusedReport, authors, papers, texts, people
<1>9. ASSUME Writer PROVE TypeOK'
    BY <1>9, NextTextType DEF Writer, authors, papers, texts, people
<1>10. ASSUME ReportVerifier PROVE TypeOK'
    BY <1>10, ReviewsType, CleanReview DEF ReportVerifier, authors, papers, texts, people
<1>11. ASSUME RouteBlocked PROVE TypeOK'
    BY <1>11 DEF RouteBlocked, Routing, routed, authors, papers, texts, people,
       ActiveReview, Review, Open
<1>12. ASSUME RouteClean PROVE TypeOK'
    BY <1>12 DEF RouteClean, Passed, Routing, routed, authors, papers, texts, people,
       ActiveReview, Review, Open
<1>13. ASSUME RouteExhausted PROVE TypeOK'
    BY <1>13 DEF RouteExhausted, Passed, Routing, routed, authors, papers, texts, people,
       ActiveReview, Review, Open
<1>14. ASSUME RouteCorrection PROVE TypeOK'
    BY <1>14 DEF RouteCorrection, Passed, Routing, routed, Responsible, authors, papers,
       texts, people, ActiveReview, Review, Open
<1>15. ASSUME Finish PROVE TypeOK'
    BY <1>15, Phased DEF Finish, authors, papers, texts, people
<1>16. ASSUME HumanEdit PROVE TypeOK'
    <2>1. paper' \in Versions /\ prose' \in [Papers -> Hands]
        BY <1>16, EditTypes DEF HumanEdit
    <2>2. report' \in Text
        BY <1>16 DEF HumanEdit, Text
    <2> QED
        BY <1>16, <2>1, <2>2, ConvergenceAssumption DEF HumanEdit, Delivered, authors, texts, people
<1>17. ASSUME SingleAgentRevision PROVE TypeOK'
    BY <1>17, NextTextType, CleanType, ConvergenceAssumption DEF SingleAgentRevision,
       Delivered, authors, papers, texts, people
<1>18. ASSUME Followup PROVE TypeOK'
    BY <1>18, ConvergenceAssumption DEF Followup, Delivered, authors, papers, texts, people
<1>19. ASSUME UNCHANGED vars PROVE TypeOK'
    BY <1>19 DEF vars, authors, papers, texts, people
<1> QED
    BY <1>1, <1>2, <1>3, <1>4, <1>5, <1>6, <1>7, <1>8, <1>9, <1>10, <1>11, <1>12, <1>13,
       <1>14, <1>15, <1>16, <1>17, <1>18, <1>19 DEF Next, Rest

\* Authors stay in their place.
LEMMA PlacedKept ==
    ASSUME TypeOK, AuthorsPlaced, StartsFresh, [Next]_vars
    PROVE  AuthorsPlaced'
<1> USE DEF TypeOK, AuthorsPlaced, Never, StartsFresh
<1>1. ASSUME Initialize PROVE AuthorsPlaced'
    BY <1>1 DEF Initialize, InitialRoute, authors, papers, texts, people
<1>2. ASSUME SendAuthors PROVE AuthorsPlaced'
    BY <1>2 DEF SendAuthors, Ready, Batches, authors, papers, texts, people
<1>3. ASSUME StopAuthors PROVE AuthorsPlaced'
    BY <1>3 DEF StopAuthors, Ready, authors, papers, texts, people
<1>4. ASSUME LeaveAuthors PROVE AuthorsPlaced'
    BY <1>4, Routes, AfterAuthorsType, ConvergenceAssumption DEF LeaveAuthors, Ready,
       authors, papers, texts, people
<1>5. ASSUME NEW p \in Papers, Author(p) PROVE AuthorsPlaced'
    BY <1>5 DEF Author, authors, papers, texts, people
<1>6. ASSUME LeadSynthesis PROVE AuthorsPlaced'
    BY <1>6, NextTextType DEF LeadSynthesis, authors, papers, texts, people
<1>7. ASSUME ResearchVerifier PROVE AuthorsPlaced'
    BY <1>7, ReviewsType, CleanReview DEF ResearchVerifier, authors, papers, texts, people
<1>8. ASSUME PrepareFocusedReport PROVE AuthorsPlaced'
    BY <1>8, NextTextType DEF PrepareFocusedReport, authors, papers, texts, people
<1>9. ASSUME Writer PROVE AuthorsPlaced'
    BY <1>9, NextTextType DEF Writer, authors, papers, texts, people
<1>10. ASSUME ReportVerifier PROVE AuthorsPlaced'
    BY <1>10, ReviewsType, CleanReview DEF ReportVerifier, authors, papers, texts, people
<1>11. ASSUME RouteBlocked PROVE AuthorsPlaced'
    BY <1>11 DEF RouteBlocked, Routing, routed, authors, papers, texts, people
<1>12. ASSUME RouteClean PROVE AuthorsPlaced'
    BY <1>12 DEF RouteClean, Passed, Routing, routed, authors, papers, texts, people
<1>13. ASSUME RouteExhausted PROVE AuthorsPlaced'
    BY <1>13 DEF RouteExhausted, Passed, Routing, routed, authors, papers, texts, people
<1>14. ASSUME RouteCorrection PROVE AuthorsPlaced'
    BY <1>14 DEF RouteCorrection, Passed, Routing, routed, Responsible, authors, papers,
       texts, people
<1>15. ASSUME Finish PROVE AuthorsPlaced'
    BY <1>15, Phased DEF Finish, authors, papers, texts, people
<1>16. ASSUME HumanEdit PROVE AuthorsPlaced'
    BY <1>16, NextTextType DEF HumanEdit, Delivered, authors, papers, texts, people
<1>17. ASSUME SingleAgentRevision PROVE AuthorsPlaced'
    BY <1>17, NextTextType, CleanType DEF SingleAgentRevision, Delivered, authors, papers,
       texts, people
<1>18. ASSUME Followup PROVE AuthorsPlaced'
    BY <1>18 DEF Followup, Delivered, authors, papers, texts, people
<1>19. ASSUME UNCHANGED vars PROVE AuthorsPlaced'
    BY <1>19 DEF vars, authors, papers, texts, people
<1> QED
    BY <1>1, <1>2, <1>3, <1>4, <1>5, <1>6, <1>7, <1>8, <1>9, <1>10, <1>11, <1>12, <1>13,
       <1>14, <1>15, <1>16, <1>17, <1>18, <1>19 DEF Next, Rest

\* Only a new run starts, with nobody having worked.
LEMMA FreshKept ==
    ASSUME TypeOK, StartsFresh, [Next]_vars
    PROVE  StartsFresh'
<1> USE DEF TypeOK, StartsFresh, Actors, Never
<1>1. ASSUME Initialize PROVE StartsFresh'
    BY <1>1 DEF Initialize, InitialRoute, authors, papers, texts, people
<1>2. ASSUME SendAuthors PROVE StartsFresh'
    BY <1>2 DEF SendAuthors, Ready, Batches, authors, papers, texts, people
<1>3. ASSUME StopAuthors PROVE StartsFresh'
    BY <1>3 DEF StopAuthors, Ready, authors, papers, texts, people
<1>4. ASSUME LeaveAuthors PROVE StartsFresh'
    BY <1>4, Routes, AfterAuthorsType, ConvergenceAssumption DEF LeaveAuthors, Ready,
       authors, papers, texts, people
<1>5. ASSUME NEW p \in Papers, Author(p) PROVE StartsFresh'
    BY <1>5 DEF Author, authors, papers, texts, people
<1>6. ASSUME LeadSynthesis PROVE StartsFresh'
    BY <1>6, NextTextType DEF LeadSynthesis, authors, papers, texts, people
<1>7. ASSUME ResearchVerifier PROVE StartsFresh'
    BY <1>7, ReviewsType, CleanReview DEF ResearchVerifier, authors, papers, texts, people
<1>8. ASSUME PrepareFocusedReport PROVE StartsFresh'
    BY <1>8, NextTextType DEF PrepareFocusedReport, authors, papers, texts, people
<1>9. ASSUME Writer PROVE StartsFresh'
    BY <1>9, NextTextType DEF Writer, authors, papers, texts, people
<1>10. ASSUME ReportVerifier PROVE StartsFresh'
    BY <1>10, ReviewsType, CleanReview DEF ReportVerifier, authors, papers, texts, people
<1>11. ASSUME RouteBlocked PROVE StartsFresh'
    BY <1>11 DEF RouteBlocked, Routing, routed, authors, papers, texts, people
<1>12. ASSUME RouteClean PROVE StartsFresh'
    BY <1>12 DEF RouteClean, Passed, Routing, routed, authors, papers, texts, people
<1>13. ASSUME RouteExhausted PROVE StartsFresh'
    BY <1>13 DEF RouteExhausted, Passed, Routing, routed, authors, papers, texts, people
<1>14. ASSUME RouteCorrection PROVE StartsFresh'
    BY <1>14 DEF RouteCorrection, Passed, Routing, routed, Responsible, authors, papers,
       texts, people
<1>15. ASSUME Finish PROVE StartsFresh'
    BY <1>15, Phased DEF Finish, authors, papers, texts, people
<1>16. ASSUME HumanEdit PROVE StartsFresh'
    BY <1>16, NextTextType DEF HumanEdit, Delivered, authors, papers, texts, people
<1>17. ASSUME SingleAgentRevision PROVE StartsFresh'
    BY <1>17, NextTextType, CleanType DEF SingleAgentRevision, Delivered, authors, papers,
       texts, people
<1>18. ASSUME Followup PROVE StartsFresh'
    BY <1>18 DEF Followup, Delivered, authors, papers, texts, people
<1>19. ASSUME UNCHANGED vars PROVE StartsFresh'
    BY <1>19 DEF vars, authors, papers, texts, people
<1> QED
    BY <1>1, <1>2, <1>3, <1>4, <1>5, <1>6, <1>7, <1>8, <1>9, <1>10, <1>11, <1>12, <1>13,
       <1>14, <1>15, <1>16, <1>17, <1>18, <1>19 DEF Next, Rest

\* The turns of the authors.
LEMMA CountedKept ==
    ASSUME TypeOK, AuthorsPlaced, StartsFresh, AuthorsCounted, [Next]_vars
    PROVE  AuthorsCounted'
<1> USE DEF TypeOK, AuthorsPlaced, StartsFresh, AuthorsCounted, Never, Actors
<1>1. ASSUME Initialize PROVE AuthorsCounted'
    BY <1>1 DEF Initialize, InitialRoute, authors, papers, texts, people
<1>2. ASSUME SendAuthors PROVE AuthorsCounted'
    BY <1>2 DEF SendAuthors, Ready, Batches, authors, papers, texts, people
<1>3. ASSUME StopAuthors PROVE AuthorsCounted'
    BY <1>3 DEF StopAuthors, Ready, authors, papers, texts, people
<1>4. ASSUME LeaveAuthors PROVE AuthorsCounted'
    BY <1>4, Routes, AfterAuthorsType, ConvergenceAssumption DEF LeaveAuthors, Ready,
       authors, papers, texts, people
<1>5. ASSUME NEW p \in Papers, Author(p) PROVE AuthorsCounted'
    BY <1>5, ConvergenceAssumption DEF Author, authors, papers, texts, people
<1>6. ASSUME LeadSynthesis PROVE AuthorsCounted'
    BY <1>6, NextTextType, ConvergenceAssumption DEF LeadSynthesis, authors, papers, texts,
       people
<1>7. ASSUME ResearchVerifier PROVE AuthorsCounted'
    BY <1>7, ReviewsType, CleanReview DEF ResearchVerifier, authors, papers, texts, people
<1>8. ASSUME PrepareFocusedReport PROVE AuthorsCounted'
    BY <1>8, NextTextType DEF PrepareFocusedReport, authors, papers, texts, people
<1>9. ASSUME Writer PROVE AuthorsCounted'
    BY <1>9, NextTextType, ConvergenceAssumption DEF Writer, authors, papers, texts, people
<1>10. ASSUME ReportVerifier PROVE AuthorsCounted'
    BY <1>10, ReviewsType, CleanReview DEF ReportVerifier, authors, papers, texts, people
<1>11. ASSUME RouteBlocked PROVE AuthorsCounted'
    BY <1>11 DEF RouteBlocked, Routing, routed, authors, papers, texts, people
<1>12. ASSUME RouteClean PROVE AuthorsCounted'
    BY <1>12 DEF RouteClean, Passed, Routing, routed, authors, papers, texts, people
<1>13. ASSUME RouteExhausted PROVE AuthorsCounted'
    BY <1>13 DEF RouteExhausted, Passed, Routing, routed, authors, papers, texts, people
<1>14. ASSUME RouteCorrection PROVE AuthorsCounted'
    BY <1>14 DEF RouteCorrection, Passed, Routing, routed, Responsible, authors, papers,
       texts, people
<1>15. ASSUME Finish PROVE AuthorsCounted'
    BY <1>15, Phased DEF Finish, authors, papers, texts, people
<1>16. ASSUME HumanEdit PROVE AuthorsCounted'
    BY <1>16, NextTextType DEF HumanEdit, Delivered, authors, papers, texts, people
<1>17. ASSUME SingleAgentRevision PROVE AuthorsCounted'
    BY <1>17, NextTextType, CleanType DEF SingleAgentRevision, Delivered, authors, papers,
       texts, people
<1>18. ASSUME Followup PROVE AuthorsCounted'
    BY <1>18 DEF Followup, Delivered, authors, papers, texts, people
<1>19. ASSUME UNCHANGED vars PROVE AuthorsCounted'
    BY <1>19 DEF vars, authors, papers, texts, people
<1> QED
    BY <1>1, <1>2, <1>3, <1>4, <1>5, <1>6, <1>7, <1>8, <1>9, <1>10, <1>11, <1>12, <1>13,
       <1>14, <1>15, <1>16, <1>17, <1>18, <1>19 DEF Next, Rest

\* The turns of the Lead.
LEMMA LeadKept ==
    ASSUME TypeOK, StartsFresh, LeadCounted, [Next]_vars
    PROVE  LeadCounted'
<1> USE DEF TypeOK, StartsFresh, LeadCounted, Actors
<1>1. ASSUME Initialize PROVE LeadCounted'
    BY <1>1 DEF Initialize, InitialRoute, authors, papers, texts, people
<1>2. ASSUME SendAuthors PROVE LeadCounted'
    BY <1>2 DEF SendAuthors, Ready, Batches, authors, papers, texts, people
<1>3. ASSUME StopAuthors PROVE LeadCounted'
    BY <1>3 DEF StopAuthors, Ready, authors, papers, texts, people
<1>4. ASSUME LeaveAuthors PROVE LeadCounted'
    BY <1>4, Routes, AfterAuthorsType, ConvergenceAssumption DEF LeaveAuthors, Ready,
       authors, papers, texts, people
<1>5. ASSUME NEW p \in Papers, Author(p) PROVE LeadCounted'
    BY <1>5, ConvergenceAssumption DEF Author, authors, papers, texts, people
<1>6. ASSUME LeadSynthesis PROVE LeadCounted'
    BY <1>6, NextTextType DEF LeadSynthesis, authors, papers, texts, people
<1>7. ASSUME ResearchVerifier PROVE LeadCounted'
    BY <1>7, ReviewsType, CleanReview DEF ResearchVerifier, authors, papers, texts, people
<1>8. ASSUME PrepareFocusedReport PROVE LeadCounted'
    BY <1>8, NextTextType DEF PrepareFocusedReport, authors, papers, texts, people
<1>9. ASSUME Writer PROVE LeadCounted'
    BY <1>9, NextTextType DEF Writer, authors, papers, texts, people
<1>10. ASSUME ReportVerifier PROVE LeadCounted'
    BY <1>10, ReviewsType, CleanReview DEF ReportVerifier, authors, papers, texts, people
<1>11. ASSUME RouteBlocked PROVE LeadCounted'
    BY <1>11 DEF RouteBlocked, Routing, routed, authors, papers, texts, people
<1>12. ASSUME RouteClean PROVE LeadCounted'
    BY <1>12 DEF RouteClean, Passed, Routing, routed, authors, papers, texts, people
<1>13. ASSUME RouteExhausted PROVE LeadCounted'
    BY <1>13 DEF RouteExhausted, Passed, Routing, routed, authors, papers, texts, people
<1>14. ASSUME RouteCorrection PROVE LeadCounted'
    BY <1>14 DEF RouteCorrection, Passed, Routing, routed, Responsible, authors, papers,
       texts, people
<1>15. ASSUME Finish PROVE LeadCounted'
    BY <1>15, Phased DEF Finish, authors, papers, texts, people
<1>16. ASSUME HumanEdit PROVE LeadCounted'
    BY <1>16, NextTextType DEF HumanEdit, Delivered, authors, papers, texts, people
<1>17. ASSUME SingleAgentRevision PROVE LeadCounted'
    BY <1>17, NextTextType, CleanType DEF SingleAgentRevision, Delivered, authors, papers,
       texts, people
<1>18. ASSUME Followup PROVE LeadCounted'
    BY <1>18 DEF Followup, Delivered, authors, papers, texts, people
<1>19. ASSUME UNCHANGED vars PROVE LeadCounted'
    BY <1>19 DEF vars, authors, papers, texts, people
<1> QED
    BY <1>1, <1>2, <1>3, <1>4, <1>5, <1>6, <1>7, <1>8, <1>9, <1>10, <1>11, <1>12, <1>13,
       <1>14, <1>15, <1>16, <1>17, <1>18, <1>19 DEF Next, Rest

\* The turns of the Writer.
LEMMA WriterKept ==
    ASSUME TypeOK, StartsFresh, WriterCounted, [Next]_vars
    PROVE  WriterCounted'
<1> USE DEF TypeOK, StartsFresh, WriterCounted, Actors
<1>1. ASSUME Initialize PROVE WriterCounted'
    BY <1>1 DEF Initialize, InitialRoute, authors, papers, texts, people
<1>2. ASSUME SendAuthors PROVE WriterCounted'
    BY <1>2 DEF SendAuthors, Ready, Batches, authors, papers, texts, people
<1>3. ASSUME StopAuthors PROVE WriterCounted'
    BY <1>3 DEF StopAuthors, Ready, authors, papers, texts, people
<1>4. ASSUME LeaveAuthors PROVE WriterCounted'
    BY <1>4, Routes, AfterAuthorsType, ConvergenceAssumption DEF LeaveAuthors, Ready,
       authors, papers, texts, people
<1>5. ASSUME NEW p \in Papers, Author(p) PROVE WriterCounted'
    BY <1>5, ConvergenceAssumption DEF Author, authors, papers, texts, people
<1>6. ASSUME LeadSynthesis PROVE WriterCounted'
    BY <1>6, NextTextType DEF LeadSynthesis, authors, papers, texts, people
<1>7. ASSUME ResearchVerifier PROVE WriterCounted'
    BY <1>7, ReviewsType, CleanReview DEF ResearchVerifier, authors, papers, texts, people
<1>8. ASSUME PrepareFocusedReport PROVE WriterCounted'
    BY <1>8, NextTextType DEF PrepareFocusedReport, authors, papers, texts, people
<1>9. ASSUME Writer PROVE WriterCounted'
    BY <1>9, NextTextType DEF Writer, authors, papers, texts, people
<1>10. ASSUME ReportVerifier PROVE WriterCounted'
    BY <1>10, ReviewsType, CleanReview DEF ReportVerifier, authors, papers, texts, people
<1>11. ASSUME RouteBlocked PROVE WriterCounted'
    BY <1>11 DEF RouteBlocked, Routing, routed, authors, papers, texts, people
<1>12. ASSUME RouteClean PROVE WriterCounted'
    BY <1>12 DEF RouteClean, Passed, Routing, routed, authors, papers, texts, people
<1>13. ASSUME RouteExhausted PROVE WriterCounted'
    BY <1>13 DEF RouteExhausted, Passed, Routing, routed, authors, papers, texts, people
<1>14. ASSUME RouteCorrection PROVE WriterCounted'
    BY <1>14 DEF RouteCorrection, Passed, Routing, routed, Responsible, authors, papers,
       texts, people
<1>15. ASSUME Finish PROVE WriterCounted'
    BY <1>15, Phased DEF Finish, authors, papers, texts, people
<1>16. ASSUME HumanEdit PROVE WriterCounted'
    BY <1>16, NextTextType DEF HumanEdit, Delivered, authors, papers, texts, people
<1>17. ASSUME SingleAgentRevision PROVE WriterCounted'
    BY <1>17, NextTextType, CleanType DEF SingleAgentRevision, Delivered, authors, papers,
       texts, people
<1>18. ASSUME Followup PROVE WriterCounted'
    BY <1>18 DEF Followup, Delivered, authors, papers, texts, people
<1>19. ASSUME UNCHANGED vars PROVE WriterCounted'
    BY <1>19 DEF vars, authors, papers, texts, people
<1> QED
    BY <1>1, <1>2, <1>3, <1>4, <1>5, <1>6, <1>7, <1>8, <1>9, <1>10, <1>11, <1>12, <1>13,
       <1>14, <1>15, <1>16, <1>17, <1>18, <1>19 DEF Next, Rest

\* The authors are done when somebody writes.
LEMMA DoneKept ==
    ASSUME TypeOK, AuthorsPlaced, AuthorsDone, [Next]_vars
    PROVE  AuthorsDone'
<1> USE DEF TypeOK, AuthorsDone, AuthorsPlaced
<1>1. ASSUME Initialize PROVE AuthorsDone'
    BY <1>1 DEF Initialize, InitialRoute, authors, papers, texts, people
<1>2. ASSUME SendAuthors PROVE AuthorsDone'
    BY <1>2 DEF SendAuthors, Ready, Batches, authors, papers, texts, people
<1>3. ASSUME StopAuthors PROVE AuthorsDone'
    BY <1>3 DEF StopAuthors, Ready, authors, papers, texts, people
<1>4. ASSUME LeaveAuthors PROVE AuthorsDone'
    BY <1>4, Routes, AfterAuthorsType, ConvergenceAssumption DEF LeaveAuthors, Ready,
       authors, papers, texts, people
<1>5. ASSUME NEW p \in Papers, Author(p) PROVE AuthorsDone'
    BY <1>5 DEF Author, authors, papers, texts, people
<1>6. ASSUME LeadSynthesis PROVE AuthorsDone'
    BY <1>6, NextTextType DEF LeadSynthesis, authors, papers, texts, people
<1>7. ASSUME ResearchVerifier PROVE AuthorsDone'
    BY <1>7, ReviewsType, CleanReview DEF ResearchVerifier, authors, papers, texts, people
<1>8. ASSUME PrepareFocusedReport PROVE AuthorsDone'
    BY <1>8, NextTextType DEF PrepareFocusedReport, authors, papers, texts, people
<1>9. ASSUME Writer PROVE AuthorsDone'
    BY <1>9, NextTextType DEF Writer, authors, papers, texts, people
<1>10. ASSUME ReportVerifier PROVE AuthorsDone'
    BY <1>10, ReviewsType, CleanReview DEF ReportVerifier, authors, papers, texts, people
<1>11. ASSUME RouteBlocked PROVE AuthorsDone'
    BY <1>11 DEF RouteBlocked, Routing, routed, authors, papers, texts, people
<1>12. ASSUME RouteClean PROVE AuthorsDone'
    BY <1>12 DEF RouteClean, Passed, Routing, routed, authors, papers, texts, people
<1>13. ASSUME RouteExhausted PROVE AuthorsDone'
    BY <1>13 DEF RouteExhausted, Passed, Routing, routed, authors, papers, texts, people
<1>14. ASSUME RouteCorrection PROVE AuthorsDone'
    BY <1>14 DEF RouteCorrection, Passed, Routing, routed, Responsible, authors, papers,
       texts, people, ActiveReview
<1>15. ASSUME Finish PROVE AuthorsDone'
    BY <1>15, Phased DEF Finish, authors, papers, texts, people
<1>16. ASSUME HumanEdit PROVE AuthorsDone'
    BY <1>16, NextTextType DEF HumanEdit, Delivered, authors, papers, texts, people
<1>17. ASSUME SingleAgentRevision PROVE AuthorsDone'
    BY <1>17, NextTextType, CleanType DEF SingleAgentRevision, Delivered, authors, papers,
       texts, people
<1>18. ASSUME Followup PROVE AuthorsDone'
    BY <1>18 DEF Followup, Delivered, authors, papers, texts, people
<1>19. ASSUME UNCHANGED vars PROVE AuthorsDone'
    BY <1>19 DEF vars, authors, papers, texts, people
<1> QED
    BY <1>1, <1>2, <1>3, <1>4, <1>5, <1>6, <1>7, <1>8, <1>9, <1>10, <1>11, <1>12, <1>13,
       <1>14, <1>15, <1>16, <1>17, <1>18, <1>19 DEF Next, Rest

\* Saved reviews stay about the texts they are routed for.
LEMMA ReviewsKept ==
    ASSUME TypeOK, ReviewsCurrent, [Next]_vars
    PROVE  ReviewsCurrent'
<1> USE DEF TypeOK, ReviewsCurrent, RoutesOnCurrentText, Routing, ActiveReview, CurrentText, Open
<1>1. ASSUME Initialize PROVE ReviewsCurrent'
    BY <1>1 DEF Initialize, InitialRoute, authors, papers, texts, people
<1>2. ASSUME SendAuthors PROVE ReviewsCurrent'
    BY <1>2 DEF SendAuthors, Ready, Batches, authors, papers, texts, people
<1>3. ASSUME StopAuthors PROVE ReviewsCurrent'
    BY <1>3 DEF StopAuthors, Ready, authors, papers, texts, people
<1>4. ASSUME LeaveAuthors PROVE ReviewsCurrent'
    BY <1>4, Routes, AfterAuthorsType, ConvergenceAssumption DEF LeaveAuthors, Ready,
       authors, papers, texts, people
<1>5. ASSUME NEW p \in Papers, Author(p) PROVE ReviewsCurrent'
    BY <1>5 DEF Author, authors, papers, texts, people
<1>6. ASSUME LeadSynthesis PROVE ReviewsCurrent'
    BY <1>6, NextTextType DEF LeadSynthesis, authors, papers, texts, people
<1>7. ASSUME ResearchVerifier PROVE ReviewsCurrent'
    BY <1>7, ReviewsType, CleanReview DEF ResearchVerifier, authors, papers, texts, people
<1>8. ASSUME PrepareFocusedReport PROVE ReviewsCurrent'
    BY <1>8, NextTextType DEF PrepareFocusedReport, authors, papers, texts, people
<1>9. ASSUME Writer PROVE ReviewsCurrent'
    BY <1>9, NextTextType DEF Writer, authors, papers, texts, people
<1>10. ASSUME ReportVerifier PROVE ReviewsCurrent'
    BY <1>10, ReviewsType, CleanReview DEF ReportVerifier, authors, papers, texts, people
<1>11. ASSUME RouteBlocked PROVE ReviewsCurrent'
    BY <1>11 DEF RouteBlocked, Routing, routed, authors, papers, texts, people
<1>12. ASSUME RouteClean PROVE ReviewsCurrent'
    BY <1>12 DEF RouteClean, Passed, Routing, routed, authors, papers, texts, people
<1>13. ASSUME RouteExhausted PROVE ReviewsCurrent'
    BY <1>13 DEF RouteExhausted, Passed, Routing, routed, authors, papers, texts, people
<1>14. ASSUME RouteCorrection PROVE ReviewsCurrent'
    BY <1>14 DEF RouteCorrection, Passed, Routing, routed, Responsible, authors, papers,
       texts, people
<1>15. ASSUME Finish PROVE ReviewsCurrent'
    BY <1>15, Phased DEF Finish, authors, papers, texts, people
<1>16. ASSUME HumanEdit PROVE ReviewsCurrent'
    BY <1>16, NextTextType DEF HumanEdit, Delivered, authors, papers, texts, people
<1>17. ASSUME SingleAgentRevision PROVE ReviewsCurrent'
    BY <1>17, NextTextType, CleanType DEF SingleAgentRevision, Delivered, authors, papers,
       texts, people
<1>18. ASSUME Followup PROVE ReviewsCurrent'
    BY <1>18 DEF Followup, Delivered, authors, papers, texts, people
<1>19. ASSUME UNCHANGED vars PROVE ReviewsCurrent'
    BY <1>19 DEF vars, authors, papers, texts, people
<1> QED
    BY <1>1, <1>2, <1>3, <1>4, <1>5, <1>6, <1>7, <1>8, <1>9, <1>10, <1>11, <1>12, <1>13,
       <1>14, <1>15, <1>16, <1>17, <1>18, <1>19 DEF Next, Rest

\* What passes was written from the papers as they are.
LEMMA ReportsKept ==
    ASSUME TypeOK, ReportsCurrent, [Next]_vars
    PROVE  ReportsCurrent'
<1> USE DEF TypeOK, ReportsCurrent, ReadyIsReviewed, Ended, ReportPassed
<1>1. ASSUME Initialize PROVE ReportsCurrent'
    BY <1>1 DEF Initialize, InitialRoute, authors, papers, texts, people
<1>2. ASSUME SendAuthors PROVE ReportsCurrent'
    BY <1>2 DEF SendAuthors, Ready, Batches, authors, papers, texts, people
<1>3. ASSUME StopAuthors PROVE ReportsCurrent'
    BY <1>3 DEF StopAuthors, Ready, authors, papers, texts, people
<1>4. ASSUME LeaveAuthors PROVE ReportsCurrent'
    BY <1>4, Routes, AfterAuthorsType, ConvergenceAssumption DEF LeaveAuthors, Ready,
       authors, papers, texts, people
<1>5. ASSUME NEW p \in Papers, Author(p) PROVE ReportsCurrent'
    BY <1>5 DEF Author, authors, papers, texts, people
<1>6. ASSUME LeadSynthesis PROVE ReportsCurrent'
    BY <1>6, NextTextType DEF LeadSynthesis, authors, papers, texts, people
<1>7. ASSUME ResearchVerifier PROVE ReportsCurrent'
    BY <1>7, ReviewsType, CleanReview DEF ResearchVerifier, authors, papers, texts, people
<1>8. ASSUME PrepareFocusedReport PROVE ReportsCurrent'
    BY <1>8, NextTextType DEF PrepareFocusedReport, authors, papers, texts, people
<1>9. ASSUME Writer PROVE ReportsCurrent'
    BY <1>9, NextTextType DEF Writer, authors, papers, texts, people
<1>10. ASSUME ReportVerifier PROVE ReportsCurrent'
    BY <1>10, ReviewsType, CleanReview DEF ReportVerifier, authors, papers, texts, people
<1>11. ASSUME RouteBlocked PROVE ReportsCurrent'
    BY <1>11 DEF RouteBlocked, Routing, routed, authors, papers, texts, people, ActiveReview
<1>12. ASSUME RouteClean PROVE ReportsCurrent'
    BY <1>12 DEF RouteClean, Passed, Routing, routed, authors, papers, texts, people,
       ActiveReview
<1>13. ASSUME RouteExhausted PROVE ReportsCurrent'
    BY <1>13 DEF RouteExhausted, Passed, Routing, routed, authors, papers, texts, people,
       ActiveReview
<1>14. ASSUME RouteCorrection PROVE ReportsCurrent'
    BY <1>14 DEF RouteCorrection, Passed, Routing, routed, Responsible, authors, papers,
       texts, people, ActiveReview
<1>15. ASSUME Finish PROVE ReportsCurrent'
    BY <1>15, Phased DEF Finish, authors, papers, texts, people
<1>16. ASSUME HumanEdit PROVE ReportsCurrent'
    BY <1>16, NextTextType DEF HumanEdit, Delivered, authors, papers, texts, people
<1>17. ASSUME SingleAgentRevision PROVE ReportsCurrent'
    BY <1>17, NextTextType, CleanType DEF SingleAgentRevision, Delivered, authors, papers,
       texts, people
<1>18. ASSUME Followup PROVE ReportsCurrent'
    BY <1>18 DEF Followup, Delivered, authors, papers, texts, people
<1>19. ASSUME UNCHANGED vars PROVE ReportsCurrent'
    BY <1>19 DEF vars, authors, papers, texts, people
<1> QED
    BY <1>1, <1>2, <1>3, <1>4, <1>5, <1>6, <1>7, <1>8, <1>9, <1>10, <1>11, <1>12, <1>13,
       <1>14, <1>15, <1>16, <1>17, <1>18, <1>19 DEF Next, Rest

\* The brief of a report is passed and current.
LEMMA BriefsKept ==
    ASSUME TypeOK, ReportsCurrent, BriefsCurrent, [Next]_vars
    PROVE  BriefsCurrent'
<1>0. UNCHANGED <<brief, paper, prose>> => (EditedSince => EditedSince')
    BY EditedKept
<1> USE DEF TypeOK, BriefsCurrent, BriefPassed, OnBrief
<1>1. ASSUME Initialize PROVE BriefsCurrent'
    BY <1>1, <1>0 DEF Initialize, InitialRoute, authors, papers, texts, people, ActiveReview, Open
<1>2. ASSUME SendAuthors PROVE BriefsCurrent'
    BY <1>2, <1>0 DEF SendAuthors, Ready, Batches, authors, papers, texts, people
<1>3. ASSUME StopAuthors PROVE BriefsCurrent'
    BY <1>3, <1>0 DEF StopAuthors, Ready, authors, papers, texts, people
<1>4. ASSUME LeaveAuthors PROVE BriefsCurrent'
    BY <1>4, <1>0, Routes, AfterAuthorsType, ConvergenceAssumption DEF LeaveAuthors, Ready,
       authors, papers, texts, people
<1>5. ASSUME NEW p \in Papers, Author(p) PROVE BriefsCurrent'
    BY <1>5 DEF Author, authors, papers, texts, people
<1>6. ASSUME LeadSynthesis PROVE BriefsCurrent'
    BY <1>6, NextTextType DEF LeadSynthesis, authors, papers, texts, people
<1>7. ASSUME ResearchVerifier PROVE BriefsCurrent'
    BY <1>7, ReviewsType, CleanReview DEF ResearchVerifier, authors, papers, texts, people
<1>8. ASSUME PrepareFocusedReport PROVE BriefsCurrent'
    BY <1>8, <1>0, NextTextType DEF PrepareFocusedReport, authors, papers, texts, people
<1>9. ASSUME Writer PROVE BriefsCurrent'
    BY <1>9, <1>0, NextTextType DEF Writer, authors, papers, texts, people
<1>10. ASSUME ReportVerifier PROVE BriefsCurrent'
    BY <1>10, <1>0, ReviewsType, CleanReview DEF ReportVerifier, authors, papers, texts, people
<1>11. ASSUME RouteBlocked PROVE BriefsCurrent'
    BY <1>11, <1>0 DEF RouteBlocked, Routing, routed, authors, papers, texts, people,
       ActiveReview, Open
<1>12. ASSUME RouteClean PROVE BriefsCurrent'
    BY <1>12, <1>0, EditedFresh DEF RouteClean, Passed, Routing, routed, authors, papers, texts, people,
       ActiveReview, Open
<1>13. ASSUME RouteExhausted PROVE BriefsCurrent'
    BY <1>13, <1>0 DEF RouteExhausted, Passed, Routing, routed, authors, papers, texts, people,
       ActiveReview, Open
<1>14. ASSUME RouteCorrection PROVE BriefsCurrent'
    BY <1>14, <1>0 DEF RouteCorrection, Passed, Routing, routed, Responsible, authors, papers,
       texts, people, ActiveReview, Open
<1>15. ASSUME Finish PROVE BriefsCurrent'
    BY <1>15, <1>0, Phased DEF Finish, authors, papers, texts, people
<1>16. ASSUME HumanEdit PROVE BriefsCurrent'
    <2>1. EditedSince => EditedSince'
        BY <1>16, EditedKept DEF HumanEdit
    <2>2. report' = [report EXCEPT !.no = @ + 1]
        BY <1>16 DEF HumanEdit
    <2> QED
        BY <1>16, <2>1, <2>2 DEF HumanEdit, Delivered, authors, texts, people, Text
<1>17. ASSUME SingleAgentRevision PROVE BriefsCurrent'
    BY <1>17, NextTextType, CleanType DEF SingleAgentRevision, Delivered, authors, papers,
       texts, people
<1>18. ASSUME Followup PROVE BriefsCurrent'
    BY <1>18, <1>0 DEF Followup, Delivered, authors, papers, texts, people
<1>19. ASSUME UNCHANGED vars PROVE BriefsCurrent'
    BY <1>19, <1>0 DEF vars, authors, papers, texts, people
<1> QED
    BY <1>1, <1>2, <1>3, <1>4, <1>5, <1>6, <1>7, <1>8, <1>9, <1>10, <1>11, <1>12, <1>13,
       <1>14, <1>15, <1>16, <1>17, <1>18, <1>19 DEF Next, Rest

-----------------------------------------------------------------------------
\* What each place of the graph relies on holds in every reachable state.
THEOREM ConvergenceInductive == Spec => []ConvergenceInv
<1>1. Init => ConvergenceInv
    BY InitHolds
<1>2. ConvergenceInv /\ [Next]_vars => ConvergenceInv'
    BY TypeKept, PlacedKept, FreshKept, CountedKept, LeadKept, WriterKept, DoneKept, ReviewsKept,
       ReportsKept, BriefsKept DEF ConvergenceInv
<1> QED
    BY <1>1, <1>2, PTL DEF Spec

\* Every reachable state is well-typed.
THEOREM ConvergenceTyped == Spec => []TypeOK
<1>1. ConvergenceInv => TypeOK
    BY DEF ConvergenceInv
<1> QED
    BY <1>1, ConvergenceInductive, PTL

\* A report called ready was reviewed as it is, and written from the current papers.
THEOREM ReadyReportsAreReviewed == Spec => []ReadyIsReviewed
<1>1. ConvergenceInv => ReadyIsReviewed
    BY DEF ConvergenceInv, ReportsCurrent
<1> QED
    BY <1>1, ConvergenceInductive, PTL

\* So was the Lead's brief behind it, unless one agent rewrote the report alone; only
\* a person's text of a paper may be newer than the brief.
THEOREM ReadyBriefsAreReviewed == Spec => []ReadyBriefIsReviewed
<1>1. ConvergenceInv => ReadyBriefIsReviewed
    BY DEF ConvergenceInv, BriefsCurrent, BriefPassed, ReportsCurrent, ReadyIsReviewed,
       ReadyBriefIsReviewed, EditedSince, Ended, Clean
<1> QED
    BY <1>1, ConvergenceInductive, PTL

\* The Lead and the Writer start when no author owes an answer.
THEOREM AuthorsAnswerFirst == Spec => []WritersComeAfterAuthors
<1>1. ConvergenceInv => WritersComeAfterAuthors
    BY DEF ConvergenceInv, AuthorsDone, WritersComeAfterAuthors
<1> QED
    BY <1>1, ConvergenceInductive, PTL

\* A run corrects once.
THEOREM CorrectsOnce == Spec => []OneCorrection
<1>1. ConvergenceInv => OneCorrection
    BY DEF ConvergenceInv, TypeOK, AuthorsCounted, LeadCounted, WriterCounted, OneCorrection,
       Actors, Never
<1> QED
    BY <1>1, ConvergenceInductive, PTL

\* Routing never uses a review of an older text.
THEOREM RoutesCurrent == Spec => []RoutesOnCurrentText
<1>1. ConvergenceInv => RoutesOnCurrentText
    BY DEF ConvergenceInv, ReviewsCurrent
<1> QED
    BY <1>1, ConvergenceInductive, PTL

-----------------------------------------------------------------------------
(* The graph inside its session.                                           *)

\* A revision starts from a report, and a report is verified and passed where there is one.
ReportThere ==
    /\ existing => report.no # 0
    /\ at = "initialize" => (existing <=> report.no # 0)
    /\ (\/ at = "report_verifier"
        \/ at = "route_review" /\ active = "report_review"
        \/ at = "finish" /\ stop = "none") => report.no # 0

\* With a report, authors and brief are only worked on for its findings.
BackForFindings == (report.no # 0 /\ OnBrief) => Open(reportReview)

\* A run stops for what the review of its report or its authors left.
StopHasReason ==
    (at = "finish" /\ report.no # 0 /\ stop # "none") =>
        Open(reportReview) \/ reportReview.blocked \/ unresolved # {}

SessionReport == [text : Nat, basis : Nat]
SessionReview == [of : Nat, material : BOOLEAN, data : BOOLEAN, tool : BOOLEAN]
SessionTyped ==
    /\ session \in [report : SessionReport, review : SessionReview, unresolved : BOOLEAN,
                    stop : BOOLEAN, written : Nat]
    /\ session.report.text <= session.written
    /\ origin \in Nat

\* A first run delivers to a session without a report.
NothingYet == (~existing /\ at # "end") => origin = 0 /\ session.written = 0

\* The session's text is the graph's, or an earlier one while the graph runs.
FromOrigin ==
    /\ origin <= report.no /\ reportReview.of <= report.no
    /\ at = "end" => origin = report.no
    /\ at = "report_verifier" => origin # report.no
    /\ (origin # report.no /\ at # "report_verifier") => reportReview.of = report.no

\* Until the graph writes, its review is the session's, and its authors have
\* worked only for findings of that review.
ReviewShared ==
    /\ (origin = report.no /\ report.no # 0) =>
          /\ session.review.material = Open(reportReview)
          /\ session.review.data = reportReview.blocked
          /\ ~session.review.tool
          /\ reportReview.of = report.no => session.review.of = session.report.text
          /\ Open(reportReview) \/ session.unresolved = (unresolved # {})
    /\ (at = "end" /\ report.no # 0) => session.unresolved = (unresolved # {})

\* A revision that ends without writing had findings or missing data.
WritesOrStops ==
    (existing /\ origin = report.no /\ at \in {"route_review", "finish"}) =>
        Open(reportReview) \/ reportReview.blocked

DeliveryInv ==
    /\ ReportThere /\ BackForFindings /\ StopHasReason /\ SessionTyped /\ NothingYet
    /\ FromOrigin /\ ReviewShared /\ WritesOrStops

-----------------------------------------------------------------------------
\* The session takes part in every step of the graph, and adds none.
LEMMA GraphSteps == DeliveryNext \/ UNCHANGED dvars => [Next]_vars
BY DEF DeliveryNext, Work, Deliver, NothingToDeliver, Edit, Rewrite, Next, dvars

\* A report once written stays.
LEMMA ThereKept ==
    ASSUME TypeOK, ReportThere, [Next]_vars
    PROVE  ReportThere'
<1> USE DEF TypeOK, ReportThere, Text, ActiveReview, Open
<1>1. ASSUME Initialize PROVE ReportThere'
    BY <1>1 DEF Initialize, InitialRoute, authors, papers, texts, people
<1>2. ASSUME SendAuthors PROVE ReportThere'
    BY <1>2 DEF SendAuthors, Ready, Batches, authors, papers, texts, people
<1>3. ASSUME StopAuthors PROVE ReportThere'
    BY <1>3 DEF StopAuthors, Ready, authors, papers, texts, people
<1>4. ASSUME LeaveAuthors PROVE ReportThere'
    BY <1>4, Routes, AfterAuthorsType DEF LeaveAuthors, Ready, authors, papers, texts, people
<1>5. ASSUME NEW p \in Papers, Author(p) PROVE ReportThere'
    BY <1>5 DEF Author, authors, papers, texts, people
<1>6. ASSUME LeadSynthesis PROVE ReportThere'
    BY <1>6, NextTextType DEF LeadSynthesis, authors, papers, texts, people
<1>7. ASSUME ResearchVerifier PROVE ReportThere'
    BY <1>7, ReviewsType DEF ResearchVerifier, authors, papers, texts, people
<1>8. ASSUME PrepareFocusedReport PROVE ReportThere'
    BY <1>8, NextTextType DEF PrepareFocusedReport, authors, papers, texts, people
<1>9. ASSUME Writer PROVE ReportThere'
    BY <1>9, NextTextType DEF Writer, authors, papers, texts, people
<1>10. ASSUME ReportVerifier PROVE ReportThere'
    BY <1>10, ReviewsType DEF ReportVerifier, authors, papers, texts, people
<1>11. ASSUME RouteBlocked PROVE ReportThere'
    BY <1>11 DEF RouteBlocked, Routing, routed, authors, papers, texts, people
<1>12. ASSUME RouteClean PROVE ReportThere'
    BY <1>12 DEF RouteClean, Passed, Routing, routed, authors, papers, texts, people
<1>13. ASSUME RouteExhausted PROVE ReportThere'
    BY <1>13 DEF RouteExhausted, Passed, Routing, routed, authors, papers, texts, people
<1>14. ASSUME RouteCorrection PROVE ReportThere'
    BY <1>14 DEF RouteCorrection, Passed, Routing, routed, Responsible, authors, papers, texts, people
<1>15. ASSUME Finish PROVE ReportThere'
    BY <1>15, Phased DEF Finish, authors, papers, texts, people
<1>16. ASSUME HumanEdit PROVE ReportThere'
    BY <1>16, NextTextType DEF HumanEdit, Delivered, authors, papers, texts, people
<1>17. ASSUME SingleAgentRevision PROVE ReportThere'
    BY <1>17, NextTextType, CleanType DEF SingleAgentRevision, Delivered, authors, papers, texts, people
<1>18. ASSUME Followup PROVE ReportThere'
    BY <1>18 DEF Followup, Delivered, authors, papers, texts, people
<1>19. ASSUME UNCHANGED vars PROVE ReportThere'
    BY <1>19 DEF vars, authors, papers, texts, people
<1> QED
    BY <1>1, <1>2, <1>3, <1>4, <1>5, <1>6, <1>7, <1>8, <1>9, <1>10, <1>11, <1>12, <1>13,
       <1>14, <1>15, <1>16, <1>17, <1>18, <1>19 DEF Next, Rest

\* Work on papers and brief is for findings.
LEMMA BackKept ==
    ASSUME TypeOK, ReportThere, BackForFindings, [Next]_vars
    PROVE  BackForFindings'
<1> USE DEF TypeOK, ReportThere, BackForFindings, OnBrief, ActiveReview, Open
<1>1. ASSUME Initialize PROVE BackForFindings'
    BY <1>1 DEF Initialize, InitialRoute, authors, papers, texts, people
<1>2. ASSUME SendAuthors PROVE BackForFindings'
    BY <1>2 DEF SendAuthors, Ready, Batches, authors, papers, texts, people
<1>3. ASSUME StopAuthors PROVE BackForFindings'
    BY <1>3 DEF StopAuthors, Ready, authors, papers, texts, people
<1>4. ASSUME LeaveAuthors PROVE BackForFindings'
    BY <1>4, Routes, AfterAuthorsType DEF LeaveAuthors, Ready, authors, papers, texts, people
<1>5. ASSUME NEW p \in Papers, Author(p) PROVE BackForFindings'
    BY <1>5 DEF Author, authors, papers, texts, people
<1>6. ASSUME LeadSynthesis PROVE BackForFindings'
    BY <1>6, NextTextType DEF LeadSynthesis, authors, papers, texts, people
<1>7. ASSUME ResearchVerifier PROVE BackForFindings'
    BY <1>7, ReviewsType DEF ResearchVerifier, authors, papers, texts, people
<1>8. ASSUME PrepareFocusedReport PROVE BackForFindings'
    BY <1>8, NextTextType DEF PrepareFocusedReport, authors, papers, texts, people
<1>9. ASSUME Writer PROVE BackForFindings'
    BY <1>9, NextTextType DEF Writer, authors, papers, texts, people
<1>10. ASSUME ReportVerifier PROVE BackForFindings'
    BY <1>10, ReviewsType DEF ReportVerifier, authors, papers, texts, people
<1>11. ASSUME RouteBlocked PROVE BackForFindings'
    BY <1>11 DEF RouteBlocked, Routing, routed, authors, papers, texts, people
<1>12. ASSUME RouteClean PROVE BackForFindings'
    BY <1>12 DEF RouteClean, Passed, Routing, routed, authors, papers, texts, people
<1>13. ASSUME RouteExhausted PROVE BackForFindings'
    BY <1>13 DEF RouteExhausted, Passed, Routing, routed, authors, papers, texts, people
<1>14. ASSUME RouteCorrection PROVE BackForFindings'
    BY <1>14 DEF RouteCorrection, Passed, Routing, routed, Responsible, authors, papers, texts, people
<1>15. ASSUME Finish PROVE BackForFindings'
    BY <1>15, Phased DEF Finish, authors, papers, texts, people
<1>16. ASSUME HumanEdit PROVE BackForFindings'
    BY <1>16, NextTextType DEF HumanEdit, Delivered, authors, papers, texts, people
<1>17. ASSUME SingleAgentRevision PROVE BackForFindings'
    BY <1>17, NextTextType, CleanType DEF SingleAgentRevision, Delivered, authors, papers, texts, people
<1>18. ASSUME Followup PROVE BackForFindings'
    BY <1>18 DEF Followup, Delivered, authors, papers, texts, people
<1>19. ASSUME UNCHANGED vars PROVE BackForFindings'
    BY <1>19 DEF vars, authors, papers, texts, people
<1> QED
    BY <1>1, <1>2, <1>3, <1>4, <1>5, <1>6, <1>7, <1>8, <1>9, <1>10, <1>11, <1>12, <1>13,
       <1>14, <1>15, <1>16, <1>17, <1>18, <1>19 DEF Next, Rest

\* A stop has its reason in the state.
LEMMA ReasonKept ==
    ASSUME TypeOK, BackForFindings, StopHasReason, [Next]_vars
    PROVE  StopHasReason'
<1> USE DEF TypeOK, BackForFindings, StopHasReason, OnBrief, ActiveReview, Open
<1>1. ASSUME Initialize PROVE StopHasReason'
    BY <1>1 DEF Initialize, InitialRoute, authors, papers, texts, people
<1>2. ASSUME SendAuthors PROVE StopHasReason'
    BY <1>2 DEF SendAuthors, Ready, Batches, authors, papers, texts, people
<1>3. ASSUME StopAuthors PROVE StopHasReason'
    BY <1>3 DEF StopAuthors, Ready, authors, papers, texts, people
<1>4. ASSUME LeaveAuthors PROVE StopHasReason'
    BY <1>4, Routes, AfterAuthorsType DEF LeaveAuthors, Ready, authors, papers, texts, people
<1>5. ASSUME NEW p \in Papers, Author(p) PROVE StopHasReason'
    BY <1>5 DEF Author, authors, papers, texts, people
<1>6. ASSUME LeadSynthesis PROVE StopHasReason'
    BY <1>6, NextTextType DEF LeadSynthesis, authors, papers, texts, people
<1>7. ASSUME ResearchVerifier PROVE StopHasReason'
    BY <1>7, ReviewsType DEF ResearchVerifier, authors, papers, texts, people
<1>8. ASSUME PrepareFocusedReport PROVE StopHasReason'
    BY <1>8, NextTextType DEF PrepareFocusedReport, authors, papers, texts, people
<1>9. ASSUME Writer PROVE StopHasReason'
    BY <1>9, NextTextType DEF Writer, authors, papers, texts, people
<1>10. ASSUME ReportVerifier PROVE StopHasReason'
    BY <1>10, ReviewsType DEF ReportVerifier, authors, papers, texts, people
<1>11. ASSUME RouteBlocked PROVE StopHasReason'
    BY <1>11 DEF RouteBlocked, Routing, routed, authors, papers, texts, people
<1>12. ASSUME RouteClean PROVE StopHasReason'
    BY <1>12 DEF RouteClean, Passed, Routing, routed, authors, papers, texts, people
<1>13. ASSUME RouteExhausted PROVE StopHasReason'
    BY <1>13 DEF RouteExhausted, Passed, Routing, routed, authors, papers, texts, people
<1>14. ASSUME RouteCorrection PROVE StopHasReason'
    BY <1>14 DEF RouteCorrection, Passed, Routing, routed, Responsible, authors, papers, texts, people
<1>15. ASSUME Finish PROVE StopHasReason'
    BY <1>15, Phased DEF Finish, authors, papers, texts, people
<1>16. ASSUME HumanEdit PROVE StopHasReason'
    BY <1>16, NextTextType DEF HumanEdit, Delivered, authors, papers, texts, people
<1>17. ASSUME SingleAgentRevision PROVE StopHasReason'
    BY <1>17, NextTextType, CleanType DEF SingleAgentRevision, Delivered, authors, papers, texts, people
<1>18. ASSUME Followup PROVE StopHasReason'
    BY <1>18 DEF Followup, Delivered, authors, papers, texts, people
<1>19. ASSUME UNCHANGED vars PROVE StopHasReason'
    BY <1>19 DEF vars, authors, papers, texts, people
<1> QED
    BY <1>1, <1>2, <1>3, <1>4, <1>5, <1>6, <1>7, <1>8, <1>9, <1>10, <1>11, <1>12, <1>13,
       <1>14, <1>15, <1>16, <1>17, <1>18, <1>19 DEF Next, Rest

-----------------------------------------------------------------------------
\* What the session takes over has its type.
LEMMA TakenType ==
    ASSUME TypeOK, SessionTyped, NEW text \in Nat, NEW from \in Nat
    PROVE  /\ Taken(text, from) \in
                 [report : SessionReport, review : SessionReview, unresolved : BOOLEAN,
                  stop : BOOLEAN, written : Nat]
           /\ Taken(text, from).report.text = text
           /\ text <= Taken(text, from).written
<1>1. Open(reportReview) \in BOOLEAN /\ reportReview.blocked \in BOOLEAN
    BY DEF TypeOK, Review, Open
<1>2. session.review.of \in Nat /\ session.written \in Nat
    BY DEF SessionTyped, SessionReview
<1> QED
    BY <1>1, <1>2 DEF Taken, SessionReport, SessionReview

LEMMA SessionParts ==
    ASSUME SessionTyped
    PROVE  /\ session.report.text \in Nat /\ session.report.basis \in Nat
           /\ session.written \in Nat /\ session.written + 1 \in Nat
           /\ session.report = [text |-> session.report.text, basis |-> session.report.basis]
           /\ session.review \in SessionReview
BY DEF SessionTyped, SessionReport

\* The texts of an edit and of a rewrite.
LEMMA EditedSession ==
    ASSUME TypeOK, SessionTyped, Edit
    PROVE  /\ SessionTyped'
           /\ session'.report.text = session'.written
           /\ session'.review = session.review /\ session'.unresolved = session.unresolved
           /\ origin' = report.no + 1 /\ report'.no = report.no + 1
<1>1. report'.no = report.no + 1 /\ report.no \in Nat
    BY DEF Edit, HumanEdit, NextText, TypeOK, Text
<1>2. session' = [session EXCEPT !.report.text = session.written + 1, !.written = @ + 1]
    BY DEF Edit
<1>3. session'.report = [session.report EXCEPT !.text = session.written + 1]
      /\ session'.written = session.written + 1
      /\ session'.review = session.review /\ session'.unresolved = session.unresolved
      /\ session'.stop = session.stop
    BY <1>2 DEF SessionTyped
<1>4. session'.report.text = session.written + 1 /\ session'.report \in SessionReport
    BY <1>3, SessionParts DEF SessionTyped, SessionReport
<1>5. session' \in [report : SessionReport, review : SessionReview, unresolved : BOOLEAN,
                    stop : BOOLEAN, written : Nat]
    BY <1>2, <1>4, SessionParts DEF SessionTyped, SessionReport
<1> QED
    BY <1>1, <1>3, <1>4, <1>5, SessionParts DEF Edit, SessionTyped

LEMMA RewrittenSession ==
    ASSUME TypeOK, SessionTyped, Rewrite
    PROVE  /\ SessionTyped'
           /\ session'.report.text = session'.written
           /\ session'.review = Unread /\ session'.unresolved = session.unresolved
           /\ origin' = report.no + 1 /\ report'.no = report.no + 1
<1>1. report'.no = report.no + 1 /\ report.no \in Nat
    BY DEF Rewrite, SingleAgentRevision, NextText, TypeOK, Text
<1>2. session' = [session EXCEPT !.report = [text |-> session.written + 1,
                                              basis |-> session.written + 1],
                                  !.written = @ + 1, !.review = Unread]
    BY DEF Rewrite
<1>3. session'.report = [text |-> session.written + 1, basis |-> session.written + 1]
      /\ session'.written = session.written + 1
      /\ session'.review = Unread /\ session'.unresolved = session.unresolved
    BY <1>2 DEF SessionTyped
<1>4. Unread \in SessionReview
    BY DEF Unread, SessionReview
<1>5. session' \in [report : SessionReport, review : SessionReview, unresolved : BOOLEAN,
                    stop : BOOLEAN, written : Nat]
    BY <1>2, <1>4, SessionParts DEF SessionTyped, SessionReport
<1> QED
    BY <1>1, <1>3, <1>5, SessionParts DEF Rewrite, SessionTyped

\* The session is well-typed.
LEMMA SessionTypeKept ==
    ASSUME TypeOK, SessionTyped, DeliveryNext \/ UNCHANGED dvars
    PROVE  SessionTyped'
<1>1. CASE Work \/ NothingToDeliver \/ UNCHANGED dvars
    BY <1>1 DEF Work, NothingToDeliver, dvars, SessionTyped
<1>2. CASE Deliver
    <2>1. PICK text \in Nat, from \in Nat : session' = Taken(text, from)
        BY <1>2, SessionParts DEF Deliver, Result
    <2>2. origin' \in Nat
        BY <1>2 DEF Deliver, TypeOK, Text
    <2>3. /\ session' \in [report : SessionReport, review : SessionReview, unresolved : BOOLEAN,
                           stop : BOOLEAN, written : Nat]
          /\ session'.report.text <= session'.written
        BY <2>1, TakenType
    <2> QED
        BY <2>2, <2>3 DEF SessionTyped
<1>3. CASE Edit
    BY <1>3, EditedSession
<1>4. CASE Rewrite
    BY <1>4, RewrittenSession
<1> QED
    BY <1>1, <1>2, <1>3, <1>4 DEF DeliveryNext

\* The session is empty until the first run ends.
LEMMA NothingKept ==
    ASSUME TypeOK, NothingYet, DeliveryNext \/ UNCHANGED dvars
    PROVE  NothingYet'
<1>1. CASE Deliver \/ NothingToDeliver \/ Edit \/ Rewrite
    BY <1>1 DEF NothingYet, Deliver, NothingToDeliver, Edit, Rewrite, Finish, HumanEdit,
       SingleAgentRevision, Delivered
<1>2. CASE UNCHANGED dvars
    BY <1>2 DEF NothingYet, dvars, vars
<1>3. CASE Work
    <2>1. (~existing /\ at # "end")' => ~existing /\ at # "end"
        BY <1>3 DEF Work, Initialize, SendAuthors, StopAuthors, LeaveAuthors, Author,
           LeadSynthesis, ResearchVerifier, PrepareFocusedReport, Writer, ReportVerifier,
           RouteBlocked, RouteClean, RouteExhausted, RouteCorrection, Routing, Passed, routed,
           Followup, Rest, vars
    <2> QED
        BY <1>3, <2>1 DEF NothingYet, Work
<1> QED
    BY <1>1, <1>2, <1>3 DEF DeliveryNext

\* The session's text is the graph's or an earlier one.
LEMMA OriginKept ==
    ASSUME TypeOK, SessionTyped, FromOrigin,
           DeliveryNext \/ UNCHANGED dvars
    PROVE  FromOrigin'
<1> USE DEF TypeOK, SessionTyped, FromOrigin, Text, Review
<1>1. CASE Work
    <2>0. UNCHANGED <<session, origin>>
        BY <1>1 DEF Work
    <2>1. ASSUME Initialize PROVE FromOrigin'
        BY <2>1, <2>0 DEF Initialize, InitialRoute, authors, papers, texts, people
    <2>2. ASSUME SendAuthors PROVE FromOrigin'
        BY <2>2, <2>0 DEF SendAuthors, authors, papers, texts, people
    <2>3. ASSUME StopAuthors PROVE FromOrigin'
        BY <2>3, <2>0 DEF StopAuthors, authors, papers, texts, people
    <2>4. ASSUME LeaveAuthors PROVE FromOrigin'
        BY <2>4, <2>0, Routes, AfterAuthorsType DEF LeaveAuthors, authors, papers, texts, people
    <2>5. ASSUME NEW p \in Papers, Author(p) PROVE FromOrigin'
        BY <2>5, <2>0 DEF Author, authors, papers, texts, people
    <2>6. ASSUME LeadSynthesis PROVE FromOrigin'
        BY <2>6, <2>0, NextTextType DEF LeadSynthesis, authors, papers, texts, people
    <2>7. ASSUME ResearchVerifier PROVE FromOrigin'
        BY <2>7, <2>0, ReviewsType DEF ResearchVerifier, authors, papers, texts, people
    <2>8. ASSUME PrepareFocusedReport PROVE FromOrigin'
        BY <2>8, <2>0, NextTextType DEF PrepareFocusedReport, authors, papers, texts, people, NextText
    <2>9. ASSUME Writer PROVE FromOrigin'
        BY <2>9, <2>0, NextTextType DEF Writer, authors, papers, texts, people, NextText
    <2>10. ASSUME ReportVerifier PROVE FromOrigin'
        BY <2>10, <2>0, ReviewsType DEF ReportVerifier, authors, papers, texts, people
    <2>11. ASSUME RouteBlocked PROVE FromOrigin'
        BY <2>11, <2>0 DEF RouteBlocked, Routing, routed, authors, papers, texts, people
    <2>12. ASSUME RouteClean PROVE FromOrigin'
        BY <2>12, <2>0 DEF RouteClean, Passed, Routing, routed, authors, papers, texts, people
    <2>13. ASSUME RouteExhausted PROVE FromOrigin'
        BY <2>13, <2>0 DEF RouteExhausted, Passed, Routing, routed, authors, papers, texts, people
    <2>14. ASSUME RouteCorrection PROVE FromOrigin'
        BY <2>14, <2>0 DEF RouteCorrection, Passed, Routing, routed, Responsible, authors, papers, texts, people
    <2>15. ASSUME Followup PROVE FromOrigin'
        BY <2>15, <2>0 DEF Followup, Delivered, authors, papers, texts, people
    <2>16. ASSUME Rest PROVE FromOrigin'
        BY <2>16, <2>0 DEF Rest, vars, authors, papers, texts, people
    <2> QED
        BY <1>1, <2>1, <2>2, <2>3, <2>4, <2>5, <2>6, <2>7, <2>8, <2>9, <2>10, <2>11, <2>12, <2>13, <2>14, <2>15, <2>16 DEF Work
<1>2. CASE Deliver
    BY <1>2 DEF Deliver, Finish, authors, papers, texts, people
<1>3. CASE NothingToDeliver
    BY <1>3 DEF NothingToDeliver, Finish, authors, papers, texts, people
<1>4. CASE Edit
    BY <1>4, EditedSession DEF Edit, HumanEdit, Delivered, authors, papers, texts, people
<1>5. CASE Rewrite
    BY <1>5, RewrittenSession, CleanType DEF Rewrite, SingleAgentRevision, Delivered, authors, papers, texts, people, Clean, NoText
<1>6. CASE UNCHANGED dvars
    BY <1>6 DEF dvars, vars, authors, papers, texts, people
<1> QED
    BY <1>1, <1>2, <1>3, <1>4, <1>5, <1>6 DEF DeliveryNext

\* The session's review is the graph's until it writes.
LEMMA SharedKept ==
    ASSUME TypeOK, SessionTyped, ReportThere, BackForFindings, FromOrigin,
           ReviewShared,
           DeliveryNext \/ UNCHANGED dvars
    PROVE  ReviewShared'
<1> USE DEF TypeOK, SessionTyped, ReportThere, BackForFindings, OnBrief, FromOrigin, ReviewShared,
       Text, Review
<1>1. CASE Work
    <2>0. UNCHANGED <<session, origin>>
        BY <1>1 DEF Work
    <2>1. ASSUME Initialize PROVE ReviewShared'
        BY <2>1, <2>0 DEF Initialize, InitialRoute, authors, papers, texts, people
    <2>2. ASSUME SendAuthors PROVE ReviewShared'
        BY <2>2, <2>0 DEF SendAuthors, authors, papers, texts, people
    <2>3. ASSUME StopAuthors PROVE ReviewShared'
        BY <2>3, <2>0 DEF StopAuthors, authors, papers, texts, people
    <2>4. ASSUME LeaveAuthors PROVE ReviewShared'
        BY <2>4, <2>0, Routes, AfterAuthorsType DEF LeaveAuthors, authors, papers, texts, people
    <2>5. ASSUME NEW p \in Papers, Author(p) PROVE ReviewShared'
        BY <2>5, <2>0 DEF Author, authors, papers, texts, people
    <2>6. ASSUME LeadSynthesis PROVE ReviewShared'
        BY <2>6, <2>0, NextTextType DEF LeadSynthesis, authors, papers, texts, people
    <2>7. ASSUME ResearchVerifier PROVE ReviewShared'
        BY <2>7, <2>0, ReviewsType DEF ResearchVerifier, authors, papers, texts, people
    <2>8. ASSUME PrepareFocusedReport PROVE ReviewShared'
        BY <2>8, <2>0, NextTextType DEF PrepareFocusedReport, authors, papers, texts, people, NextText
    <2>9. ASSUME Writer PROVE ReviewShared'
        BY <2>9, <2>0, NextTextType DEF Writer, authors, papers, texts, people, NextText
    <2>10. ASSUME ReportVerifier PROVE ReviewShared'
        BY <2>10, <2>0, ReviewsType DEF ReportVerifier, authors, papers, texts, people, Open
    <2>11. ASSUME RouteBlocked PROVE ReviewShared'
        BY <2>11, <2>0 DEF RouteBlocked, Routing, routed, authors, papers, texts, people
    <2>12. ASSUME RouteClean PROVE ReviewShared'
        BY <2>12, <2>0 DEF RouteClean, Passed, Routing, routed, authors, papers, texts, people
    <2>13. ASSUME RouteExhausted PROVE ReviewShared'
        BY <2>13, <2>0 DEF RouteExhausted, Passed, Routing, routed, authors, papers, texts, people
    <2>14. ASSUME RouteCorrection PROVE ReviewShared'
        BY <2>14, <2>0 DEF RouteCorrection, Passed, Routing, routed, Responsible, authors, papers, texts, people
    <2>15. ASSUME Followup PROVE ReviewShared'
        BY <2>15, <2>0 DEF Followup, Delivered, authors, papers, texts, people
    <2>16. ASSUME Rest PROVE ReviewShared'
        BY <2>16, <2>0 DEF Rest, vars, authors, papers, texts, people
    <2> QED
        BY <1>1, <2>1, <2>2, <2>3, <2>4, <2>5, <2>6, <2>7, <2>8, <2>9, <2>10, <2>11, <2>12, <2>13, <2>14, <2>15, <2>16 DEF Work
<1>2. CASE Deliver
    BY <1>2, SessionParts DEF Deliver, Finish, authors, papers, texts, people, Result, Taken
<1>3. CASE NothingToDeliver
    BY <1>3 DEF NothingToDeliver, Finish, authors, papers, texts, people
<1>4. CASE Edit
    BY <1>4, EditedSession DEF Edit, HumanEdit, Delivered, authors, papers, texts, people, Open
<1>5. CASE Rewrite
    BY <1>5, RewrittenSession, CleanType DEF Rewrite, SingleAgentRevision, Delivered, authors, papers, texts, people, Unread, Open, Clean, NoText
<1>6. CASE UNCHANGED dvars
    BY <1>6 DEF dvars, vars, authors, papers, texts, people
<1> QED
    BY <1>1, <1>2, <1>3, <1>4, <1>5, <1>6 DEF DeliveryNext

\* A revision ends without a new text for a reason only.
LEMMA WritesKept ==
    ASSUME TypeOK, ReportThere, BackForFindings, FromOrigin, WritesOrStops,
           DeliveryNext \/ UNCHANGED dvars
    PROVE  WritesOrStops'
<1> USE DEF TypeOK, ReportThere, BackForFindings, OnBrief, FromOrigin, WritesOrStops, ActiveReview
<1>1. CASE Work
    <2>0. UNCHANGED <<session, origin>>
        BY <1>1 DEF Work
    <2>1. ASSUME Initialize PROVE WritesOrStops'
        BY <2>1, <2>0 DEF Initialize, InitialRoute, authors, papers, texts, people
    <2>2. ASSUME SendAuthors PROVE WritesOrStops'
        BY <2>2, <2>0 DEF SendAuthors, authors, papers, texts, people
    <2>3. ASSUME StopAuthors PROVE WritesOrStops'
        BY <2>3, <2>0 DEF StopAuthors, authors, papers, texts, people
    <2>4. ASSUME LeaveAuthors PROVE WritesOrStops'
        BY <2>4, <2>0, Routes, AfterAuthorsType DEF LeaveAuthors, authors, papers, texts, people
    <2>5. ASSUME NEW p \in Papers, Author(p) PROVE WritesOrStops'
        BY <2>5, <2>0 DEF Author, authors, papers, texts, people
    <2>6. ASSUME LeadSynthesis PROVE WritesOrStops'
        BY <2>6, <2>0, NextTextType DEF LeadSynthesis, authors, papers, texts, people
    <2>7. ASSUME ResearchVerifier PROVE WritesOrStops'
        BY <2>7, <2>0, ReviewsType DEF ResearchVerifier, authors, papers, texts, people
    <2>8. ASSUME PrepareFocusedReport PROVE WritesOrStops'
        BY <2>8, <2>0, NextTextType DEF PrepareFocusedReport, authors, papers, texts, people
    <2>9. ASSUME Writer PROVE WritesOrStops'
        BY <2>9, <2>0, NextTextType DEF Writer, authors, papers, texts, people
    <2>10. ASSUME ReportVerifier PROVE WritesOrStops'
        BY <2>10, <2>0, ReviewsType DEF ReportVerifier, authors, papers, texts, people, Open
    <2>11. ASSUME RouteBlocked PROVE WritesOrStops'
        BY <2>11, <2>0 DEF RouteBlocked, Routing, routed, authors, papers, texts, people
    <2>12. ASSUME RouteClean PROVE WritesOrStops'
        BY <2>12, <2>0 DEF RouteClean, Passed, Routing, routed, authors, papers, texts, people, Open
    <2>13. ASSUME RouteExhausted PROVE WritesOrStops'
        BY <2>13, <2>0 DEF RouteExhausted, Passed, Routing, routed, authors, papers, texts, people
    <2>14. ASSUME RouteCorrection PROVE WritesOrStops'
        BY <2>14, <2>0 DEF RouteCorrection, Passed, Routing, routed, Responsible, authors, papers, texts, people
    <2>15. ASSUME Followup PROVE WritesOrStops'
        BY <2>15, <2>0 DEF Followup, Delivered, authors, papers, texts, people
    <2>16. ASSUME Rest PROVE WritesOrStops'
        BY <2>16, <2>0 DEF Rest, vars, authors, papers, texts, people
    <2> QED
        BY <1>1, <2>1, <2>2, <2>3, <2>4, <2>5, <2>6, <2>7, <2>8, <2>9, <2>10, <2>11, <2>12, <2>13, <2>14, <2>15, <2>16 DEF Work
<1>2. CASE Deliver
    BY <1>2 DEF Deliver, Finish, authors, papers, texts, people
<1>3. CASE NothingToDeliver
    BY <1>3 DEF NothingToDeliver, Finish, authors, papers, texts, people
<1>4. CASE Edit
    BY <1>4, EditedSession DEF Edit, HumanEdit, Delivered, authors, papers, texts, people
<1>5. CASE Rewrite
    BY <1>5, RewrittenSession, CleanType DEF Rewrite, SingleAgentRevision, Delivered, authors, papers, texts, people
<1>6. CASE UNCHANGED dvars
    BY <1>6 DEF dvars, vars, authors, papers, texts, people
<1> QED
    BY <1>1, <1>2, <1>3, <1>4, <1>5, <1>6 DEF DeliveryNext

-----------------------------------------------------------------------------
\* What holds of the graph holds of it inside its session, with what the session adds.
THEOREM DeliveryInductive == DeliverySpec => [](ConvergenceInv /\ DeliveryInv)
<1>1. DeliveryInit => ConvergenceInv /\ DeliveryInv
    <2> SUFFICES ASSUME DeliveryInit PROVE ConvergenceInv /\ DeliveryInv
        OBVIOUS
    <2>1. ConvergenceInv
        BY InitHolds DEF DeliveryInit
    <2>2. ReportThere /\ BackForFindings /\ StopHasReason
        BY CleanType DEF DeliveryInit, Init, ReportThere, BackForFindings, StopHasReason
    <2>3. SessionTyped /\ NothingYet
        BY DEF DeliveryInit, NewSession, SessionTyped, SessionReport, SessionReview, Unread,
           NothingYet
    <2>4. FromOrigin /\ ReviewShared /\ WritesOrStops
        BY CleanType DEF DeliveryInit, Init, NewSession, FromOrigin, ReviewShared,
           WritesOrStops, Clean
    <2> QED
        BY <2>1, <2>2, <2>3, <2>4 DEF DeliveryInv
<1>2. ConvergenceInv /\ DeliveryInv /\ [DeliveryNext]_dvars => (ConvergenceInv /\ DeliveryInv)'
    BY GraphSteps, TypeKept, PlacedKept, FreshKept, CountedKept, LeadKept, WriterKept, DoneKept,
       ReviewsKept, ReportsKept, BriefsKept, ThereKept, BackKept, ReasonKept, SessionTypeKept,
       NothingKept, OriginKept, SharedKept, WritesKept DEF ConvergenceInv, DeliveryInv
<1> QED
    BY <1>1, <1>2, PTL DEF DeliverySpec

\* The session's review and its stop, as they are taken from the graph.
LEMMA TakenReview ==
    ASSUME TypeOK, NEW text \in Nat, NEW from \in Nat
    PROVE  /\ Taken(text, from).report = [text |-> text, basis |-> from]
           /\ Taken(text, from).review.material = Open(reportReview)
           /\ Taken(text, from).review.data = reportReview.blocked
           /\ ~Taken(text, from).review.tool
           /\ reportReview.of = report.no => Taken(text, from).review \in R!ReviewsOf(text)
           /\ Taken(text, from).unresolved = (unresolved # {})
           /\ Taken(text, from).stop = (stop # "none")
           /\ text > session.written => Taken(text, from).written = text
           /\ ~(text > session.written) => Taken(text, from).written = session.written
<1>1. Open(reportReview) \in BOOLEAN /\ reportReview.blocked \in BOOLEAN
    BY DEF TypeOK, Review, Open
<1> QED
    BY <1>1 DEF Taken, R!ReviewsOf

\* Without a new report a revision leaves report and review, and stops for them.
LEMMA KeptIsRevised ==
    ASSUME ConvergenceInv, DeliveryInv, Deliver, existing, report.no = origin
    PROVE  R!Revised /\ session'.stop
<1> DEFINE text == session.report.text  basis == session.report.basis
<1>1. TypeOK /\ SessionTyped /\ at = "finish" /\ report.no # 0
      /\ reportReview' = reportReview /\ unresolved' = unresolved /\ stop' = stop
    BY DEF ConvergenceInv, DeliveryInv, Deliver, Finish, papers, texts
<1>2. session' = Taken(text, basis) /\ text \in Nat /\ basis \in Nat /\ text <= session.written
    BY <1>1, SessionParts DEF Deliver, Result, SessionTyped
<1>3. Open(reportReview) \/ reportReview.blocked
    BY <1>1 DEF DeliveryInv, WritesOrStops
<1>4. /\ session.review.material = Open(reportReview)
      /\ session.review.data = reportReview.blocked
      /\ ~session.review.tool
      /\ reportReview.of = report.no => session.review.of = text
      /\ Open(reportReview) \/ session.unresolved = (unresolved # {})
    BY <1>1 DEF DeliveryInv, ReviewShared
<1>5. stop # "none"
    <2>1. reportReview = Clean(report) => ~Open(reportReview) /\ ~reportReview.blocked
        BY DEF Clean, Open
    <2> QED
        BY <1>1, <1>3, <2>1 DEF ConvergenceInv, ReportsCurrent, ReportPassed
<1>6. session'.report = session.report /\ session'.written = session.written
    BY <1>1, <1>2, TakenReview, SessionParts
<1>7. session'.review = session.review
    <2>1. session.review \in SessionReview
        BY <1>1, SessionParts
    <2>2. session'.review = [of |-> session.review.of, material |-> session.review.material,
                             data |-> session.review.data, tool |-> FALSE]
        BY <1>2, <1>4 DEF Taken
    <2> QED
        BY <1>4, <2>1, <2>2 DEF SessionReview
<1>8. session'.unresolved \in (IF session.review.material THEN BOOLEAN ELSE {session.unresolved})
    BY <1>1, <1>2, <1>4, TakenReview
<1>9. session'.stop = TRUE
    BY <1>1, <1>2, <1>5, TakenReview
<1> QED
    BY <1>3, <1>4, <1>6, <1>7, <1>8, <1>9 DEF R!Revised

\* A new report comes with its own review, and the stop agrees with it.
LEMMA NewIsRevised ==
    ASSUME ConvergenceInv, DeliveryInv, Deliver, report.no # origin
    PROVE  /\ session'.report = [text |-> session.written + 1, basis |-> session.written + 1]
           /\ session'.written = session.written + 1
           /\ session'.review \in R!ReviewsOf(session.written + 1)
           /\ session'.unresolved \in BOOLEAN
           /\ session'.stop = (session'.review.data \/ session'.review.material
                                  \/ session'.unresolved)
<1> DEFINE text == session.written + 1
<1>1. TypeOK /\ SessionTyped /\ at = "finish" /\ report.no # 0
    BY DEF ConvergenceInv, DeliveryInv, Deliver, Finish
<1>2. session' = Taken(text, text) /\ text \in Nat /\ text > session.written
    BY <1>1, SessionParts DEF Deliver, Result
<1>3. reportReview.of = report.no
    BY <1>1 DEF DeliveryInv, FromOrigin
<1>4. (stop # "none") = (reportReview.blocked \/ Open(reportReview) \/ unresolved # {})
    <2>1. reportReview = Clean(report) => ~Open(reportReview) /\ ~reportReview.blocked
        BY DEF Clean, Open
    <2>2. stop = "none" => ~Open(reportReview) /\ ~reportReview.blocked /\ unresolved = {}
        BY <1>1, <2>1 DEF ConvergenceInv, ReportsCurrent, ReportPassed
    <2>3. stop # "none" => Open(reportReview) \/ reportReview.blocked \/ unresolved # {}
        BY <1>1 DEF DeliveryInv, StopHasReason
    <2> QED
        BY <2>2, <2>3
<1>5. /\ session'.review.material = Open(reportReview)
      /\ session'.review.data = reportReview.blocked
      /\ session'.unresolved = (unresolved # {})
      /\ session'.stop = (stop # "none")
      /\ session'.review \in R!ReviewsOf(text)
      /\ session'.report = [text |-> text, basis |-> text] /\ session'.written = text
    BY <1>1, <1>2, <1>3, TakenReview
<1> QED
    BY <1>4, <1>5

\* What the graph returns is what ReportSession and ResearchSession let it return.
THEOREM DeliveredAsPromised == DeliverySpec => DeliversAsPromised
<1>1. ConvergenceInv /\ DeliveryInv /\ [DeliveryNext]_dvars => Delivery
    <2> SUFFICES ASSUME ConvergenceInv, DeliveryInv, [DeliveryNext]_dvars,
                        at = "finish", at' = "end"
                 PROVE  IF ~existing
                        THEN IF report.no = 0 THEN stop # "none" ELSE R!Init'
                        ELSE R!Revised /\ ShownPhase' = IF session.stop' THEN "needs_revision"
                                          ELSE "ready_for_human_review"
        BY DEF Delivery
    <2>0. TypeOK /\ SessionTyped
        BY DEF ConvergenceInv, DeliveryInv
    <2>1. Deliver \/ NothingToDeliver
        BY DEF DeliveryNext, Work, Edit, Rewrite, HumanEdit, SingleAgentRevision, Delivered,
           Initialize, SendAuthors, StopAuthors, LeaveAuthors, Author, LeadSynthesis,
           ResearchVerifier, PrepareFocusedReport, Writer, ReportVerifier, RouteBlocked,
           RouteClean, RouteExhausted, RouteCorrection, Routing, Passed, Followup, Rest,
           dvars, vars
    <2>2. CASE report.no = 0
        <3>1. ~existing
            BY <2>2 DEF DeliveryInv, ReportThere
        <3>2. stop # "none"
            BY <2>2 DEF DeliveryInv, ReportThere
        <3> QED
            BY <2>2, <3>1, <3>2
    <2>3. CASE report.no # 0
        <3>1. Deliver
            BY <2>1, <2>3 DEF NothingToDeliver
        <3>2. ShownPhase' = IF stop # "none" THEN "needs_revision" ELSE "ready_for_human_review"
            BY <2>3, <3>1 DEF Deliver, Finish, FinishedPhase, ShownPhase
        <3>3. session'.stop = (stop # "none")
            <4>1. PICK text \in Nat, from \in Nat : session' = Taken(text, from)
                BY <2>0, <3>1, SessionParts DEF Deliver, Result
            <4> QED
                BY <2>0, <4>1, TakenReview
        <3>4. ShownPhase' = IF session'.stop THEN "needs_revision" ELSE "ready_for_human_review"
            BY <3>2, <3>3
        <3>5. CASE existing
            <4>1. R!Revised
                <5>1. CASE report.no = origin
                    BY <3>1, <3>5, <5>1, KeptIsRevised
                <5>2. CASE report.no # origin
                    BY <3>1, <5>2, NewIsRevised DEF R!Revised
                <5> QED
                    BY <5>1, <5>2
            <4> QED
                BY <3>4, <3>5, <4>1
        <3>6. CASE ~existing
            <4>1. origin = 0 /\ session.written = 0
                BY <3>6 DEF DeliveryInv, NothingYet
            <4>2. /\ session'.report = [text |-> 1, basis |-> 1] /\ session'.written = 1
                  /\ session'.review \in R!ReviewsOf(1) /\ session'.unresolved \in BOOLEAN
                  /\ session'.stop = (session'.review.data \/ session'.review.material
                                        \/ session'.unresolved)
                BY <2>3, <3>1, <4>1, NewIsRevised
            <4>3. R!Init'
                BY <3>4, <4>2 DEF R!Init, R!ReviewsOf
            <4> QED
                BY <2>3, <3>6, <4>3
        <3> QED
            BY <3>5, <3>6
    <2> QED
        BY <2>2, <2>3
<1> QED
    BY <1>1, DeliveryInductive, PTL DEF DeliverySpec, DeliversAsPromised

-----------------------------------------------------------------------------
(* The end of a run.                                                       *)

LEMMA ReadyCounted ==
    ASSUME TypeOK
    PROVE  /\ IsFiniteSet(Ready) /\ Cardinality(Ready) \in Nat
           /\ Cardinality(Papers) \in Nat /\ Cardinality(Ready) <= Cardinality(Papers)
<1>1. Ready \subseteq Papers
    BY DEF TypeOK, Ready
<1> QED
    BY <1>1, ConvergenceAssumption, FS_Subset, FS_CardinalityType

\* An author that answered is not asked again in the round.
LEMMA AuthorAnswers ==
    ASSUME TypeOK, AuthorsPlaced, NEW p \in Papers, Author(p)
    PROVE  Cardinality(Ready') = Cardinality(Ready) - 1 /\ Cardinality(Ready') \in Nat
<1>1. Ready' = Ready \ {p}
    BY DEF TypeOK, Author, Ready
<1>2. p \in Ready
    BY DEF TypeOK, AuthorsPlaced, Author, Ready
<1> QED
    BY <1>1, <1>2, ReadyCounted, FS_RemoveElement, FS_CardinalityType

LEMMA CostTypes ==
    ASSUME TypeOK
    PROVE  /\ RoundCost \in Nat /\ NodeCost \in Nat
           /\ 1 <= NodeCost /\ NodeCost <= RoundCost - 2
           /\ Distance \in Nat /\ Distance <= 2 * RoundCost
<1>1. RoundCost \in Nat /\ 12 <= RoundCost
    BY ReadyCounted DEF RoundCost
<1>2. NodeCost \in Nat /\ 1 <= NodeCost /\ NodeCost <= RoundCost - 2
    BY ReadyCounted DEF NodeCost, RoundCost
<1>3. CASE round = 0
    BY <1>1, <1>2, <1>3 DEF Distance
<1>4. CASE round = 1
    BY <1>1, <1>2, <1>4 DEF Distance
<1> QED
    BY <1>1, <1>2, <1>3, <1>4 DEF TypeOK

LEMMA NextCost ==
    ASSUME TypeOK'
    PROVE  NodeCost' \in Nat /\ NodeCost' <= RoundCost - 2
<1>1. Ready' \subseteq Papers
    BY DEF TypeOK, Ready
<1>2. /\ Cardinality(Papers) \in Nat
      /\ Cardinality(Ready') \in Nat /\ Cardinality(Ready') <= Cardinality(Papers)
    BY <1>1, ConvergenceAssumption, FS_Subset, FS_CardinalityType
<1> QED
    BY <1>2 DEF NodeCost, RoundCost

\* Within a round the nodes come one after another.
LEMMA SameRound ==
    ASSUME TypeOK, TypeOK', round' = round, NodeCost' < NodeCost \/ at' = "end",
           at \notin {"initialize", "end"}, at' # "initialize"
    PROVE  Distance' < Distance
<1>1. RoundCost' = RoundCost
    BY DEF RoundCost
<1>2. NodeCost' \in Nat /\ NodeCost \in Nat /\ RoundCost \in Nat /\ 1 <= NodeCost
    BY CostTypes, NextCost
<1>3. Distance = (1 - round) * RoundCost + NodeCost
    BY DEF Distance
<1>4. CASE at' = "end"
    <2>1. Distance' = 0
        BY <1>4 DEF Distance
    <2>2. round \in {0, 1}
        BY DEF TypeOK
    <2> QED
        BY <1>2, <1>3, <2>1, <2>2
<1>5. CASE at' # "end"
    <2>1. Distance' = (1 - round) * RoundCost + NodeCost'
        BY <1>1, <1>5 DEF Distance
    <2>2. round \in {0, 1}
        BY DEF TypeOK
    <2>3. NodeCost' < NodeCost
        BY <1>5
    <2>4. CASE round = 0
        <3>1. (1 - round) * RoundCost = RoundCost
            BY <1>2, <2>4
        <3> QED
            BY <1>2, <1>3, <2>1, <2>3, <3>1
    <2>5. CASE round = 1
        <3>1. (1 - round) * RoundCost = 0
            BY <1>2, <2>5
        <3> QED
            BY <1>2, <1>3, <2>1, <2>3, <3>1
    <2> QED
        BY <2>2, <2>4, <2>5
<1> QED
    BY <1>4, <1>5

LEMMA NearerEnd ==
    ASSUME TypeOK, TypeOK', AuthorsPlaced, Next, at # "end", ~UNCHANGED vars
    PROVE  Distance' < Distance
<1>0. /\ Cardinality(Ready) \in Nat /\ RoundCost \in Nat /\ RoundCost' = RoundCost
      /\ 12 <= RoundCost
    BY ReadyCounted DEF RoundCost
<1>a. NodeCost' \in Nat /\ NodeCost' <= RoundCost - 2
    BY NextCost
<1>1. ASSUME Initialize PROVE Distance' < Distance
    <2>1. round' = 0 /\ at' \notin {"initialize", "end"} /\ at = "initialize"
        BY <1>1 DEF Initialize, InitialRoute
    <2> QED
        BY <2>1, <1>0, <1>a DEF Distance
<1>2. ASSUME SendAuthors PROVE Distance' < Distance
    <2>1. Ready' = Ready /\ at = "prepare_authors" /\ at' = "responsible_author" /\ round' = round
        BY <1>2 DEF SendAuthors, Ready
    <2>2. NodeCost' < NodeCost
        BY <2>1, <1>0 DEF NodeCost
    <2> QED
        BY <2>1, <2>2, SameRound
<1>3. ASSUME StopAuthors PROVE Distance' < Distance
    <2>1. at = "prepare_authors" /\ at' = "finish" /\ round' = round
        BY <1>3 DEF StopAuthors, authors
    <2>2. NodeCost' < NodeCost
        BY <2>1, <1>0 DEF NodeCost
    <2> QED
        BY <2>1, <2>2, SameRound
<1>4. ASSUME LeaveAuthors PROVE Distance' < Distance
    <2>1. /\ at = "prepare_authors" /\ round' = round
          /\ at' \in {"lead_synthesis", "prepare_focused_report", "writer"}
        BY <1>4, AfterAuthorsType DEF LeaveAuthors, authors
    <2>2. NodeCost' < NodeCost
        BY <2>1, <1>0 DEF NodeCost
    <2> QED
        BY <2>1, <2>2, SameRound
<1>5. ASSUME NEW p \in Papers, Author(p) PROVE Distance' < Distance
    <2>1. /\ at = "responsible_author" /\ round' = round
          /\ at' \in {"responsible_author", "prepare_authors"}
        BY <1>5 DEF Author
    <2>2. Cardinality(Ready') = Cardinality(Ready) - 1 /\ Cardinality(Ready') \in Nat
        BY <1>5, AuthorAnswers
    <2>3. NodeCost' < NodeCost
        BY <2>1, <2>2, <1>0 DEF NodeCost
    <2> QED
        BY <2>1, <2>3, SameRound
<1>6. ASSUME \/ LeadSynthesis \/ ResearchVerifier \/ PrepareFocusedReport \/ Writer
             \/ ReportVerifier
      PROVE  Distance' < Distance
    <2>1. round' = round /\ at \notin {"initialize", "end"} /\ at' # "initialize"
        BY <1>6 DEF LeadSynthesis, ResearchVerifier, PrepareFocusedReport, Writer,
           ReportVerifier, authors
    <2>2. NodeCost' < NodeCost
        BY <1>6 DEF LeadSynthesis, ResearchVerifier, PrepareFocusedReport, Writer,
           ReportVerifier, NodeCost
    <2> QED
        BY <2>1, <2>2, SameRound
<1>7. ASSUME RouteBlocked \/ RouteClean \/ RouteExhausted PROVE Distance' < Distance
    <2>1. /\ round' = round /\ at = "route_review" /\ active' = active
          /\ \/ at' = "finish"
             \/ at' = "writer" /\ active = "synthesis_review"
        BY <1>7 DEF RouteBlocked, RouteClean, RouteExhausted, Passed, Routing, routed
    <2>2. NodeCost' < NodeCost
        BY <2>1 DEF NodeCost
    <2> QED
        BY <2>1, <2>2, SameRound
<1>8. ASSUME RouteCorrection PROVE Distance' < Distance
    <2>1. /\ round = 0 /\ round' = 1 /\ at = "route_review"
          /\ at' \notin {"initialize", "end"}
        BY <1>8 DEF RouteCorrection, Passed, Routing, Responsible, TypeOK
    <2>2. Distance = RoundCost + NodeCost /\ Distance' = NodeCost'
        BY <2>1, <1>0, <1>a, CostTypes DEF Distance
    <2> QED
        BY <2>2, <1>0, <1>a, CostTypes
<1>9. ASSUME Finish PROVE Distance' < Distance
    <2>1. round' = round /\ at = "finish" /\ at' = "end"
        BY <1>9 DEF Finish, authors
    <2> QED
        BY <2>1, SameRound
<1> QED
    BY <1>1, <1>2, <1>3, <1>4, <1>5, <1>6, <1>7, <1>8, <1>9
       DEF Next, HumanEdit, SingleAgentRevision, Followup, Delivered, Rest

\* Every step of a run brings its end nearer.
THEOREM RunsNearTheirEnd == Spec => NearsEnd
<1>1. ConvergenceInv /\ ConvergenceInv' /\ [Next]_vars =>
          [at # "end" => Distance' < Distance]_vars
    BY NearerEnd DEF ConvergenceInv
<1> QED
    BY <1>1, ConvergenceInductive, PTL DEF Spec, NearsEnd

\* No run is further from its end than two rounds: with 24 papers, the most a Lead
\* may plan, that are 120 steps, and the recursion_limit of a session is 280.
THEOREM RunsAreShort ==
    Spec => [](Distance \in 0..(4 * Cardinality(Papers) + 24))
<1>1. ConvergenceInv => Distance \in 0..(4 * Cardinality(Papers) + 24)
    BY CostTypes, ReadyCounted DEF ConvergenceInv, RoundCost
<1> QED
    BY <1>1, ConvergenceInductive, PTL
=============================================================================
