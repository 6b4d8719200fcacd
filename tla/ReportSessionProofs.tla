------------------------- MODULE ReportSessionProofs -------------------------
(***************************************************************************)
(* Proofs about ReportSession for any requests, ids and runs.  A text that *)
(* is newer than the version it will get exists only between its writer    *)
(* and finish; wherever a request can look at the report, the report is    *)
(* the snapshot of its version.  So the session is a book of versions      *)
(* (ReportBook): what a text on its way has not reached yet is no page.    *)
(***************************************************************************)
EXTENDS ReportSession, TLAPS

\* A run at human_review has a request of a known shape to answer.
Held == At("human_review") => resume # None /\ resume.action # "abandon"

\* Between its writer and finish a text is newer than its version; each run
\* writes one text at most.
Numbered ==
    /\ written <= runs + 1
    /\ thread = "busy" => runs >= 1
    /\ node \in {"writer", "quick_writer", "research_revision"} \/ At("human_review")
         => written <= runs
    /\ node = "verifier" => output = "report" /\ asked = "revise" /\ version < written
    /\ node = "finish" /\ output = "report" => asked = "revise" /\ version < written
    /\ node = "research_revision" => asked = "revise"

\* The work of an id was started if and only if the id was handled.
Handled == \A id \in Ids : begun[id] = IF id \in handled THEN 1 ELSE 0

WorkInv == TypeOK /\ Held /\ Numbered /\ Handled

\* Versions in the snapshots, and the report wherever a request may look at it.
Snapshots ==
    /\ \A a, b \in shown : a.version = b.version => a.text = b.text
    /\ \A a \in shown : a.version <= version
    /\ ~OnItsWay => Current \in shown

\* The text a request was aimed at was a snapshot.
Aimed ==
    /\ \A r \in Requests : inflight[r] # None /\ inflight[r].action # "abandon" =>
           inflight[r].base = None \/ inflight[r].base \in shown
    /\ resume # None => resume.base = None \/ resume.base \in shown

\* A review is of the text a model wrote last, unless that text is on its way.
Reviewed ==
    /\ ~OnItsWay => review.of \in {0, report.basis}
    /\ node = "verifier" => report.text = report.basis
    /\ node = "finish" /\ output = "report" =>
           report.text = report.basis /\ (mode # "single" => review.of = report.basis)
    /\ node = "end" => /\ review.of = report.basis /\ ~Material(review, unresolved, stop)
                       /\ thread = "idle"

\* No text has two versions, and a text on its way has none.
Distinct ==
    /\ \A a, b \in shown : a.text = b.text => a.version = b.version
    /\ \A a \in shown : a.text <= written
    /\ report.text <= written
    /\ OnItsWay => report.text = report.basis /\ \A a \in shown : a.text # report.text

\* What the versions keep until an abandonment comes down on an unnumbered text, and
\* the reviews also until a team finishes a single agent's text.
TextInv ==
    /\ "draft" \notin lapses => Snapshots /\ Aimed /\ Distinct
    /\ "draft" \notin lapses /\ "unverified" \notin lapses => Reviewed

-----------------------------------------------------------------------------
(* Requests and what human_review makes of them.                           *)

LEMMA Constants == MaxRuns \in Nat /\ None \notin Ids
BY ReportAssumption

LEMMA RequestShapes ==
    ASSUME NEW x \in Request
    PROVE  /\ x.action \in {"ask", "revise", "accept", "manual_complete", "abandon"}
           /\ x.action = "abandon" => x.phase \in Phases
           /\ x.action # "abandon" => x.id \in Ids \cup {None} /\ x.base \in Base \cup {None}
           /\ x.action = "manual_complete" => x.id = None /\ x.base \in Base
           /\ x.action \in {"ask", "accept"} => x.id = None
           /\ x.action # "abandon" /\ x.id # None => x.id \in Ids /\ x.base \in Base
BY Constants DEF Request

Edited ==
    /\ resume.action = "manual_complete" /\ resume.base.version = version
    /\ report' = [report EXCEPT !.text = written + 1] /\ written' = written + 1
    /\ version' = version + 1 /\ phase' = "human_completed" /\ output' = "report"
    /\ shown' = shown \cup {[version |-> version + 1, text |-> written + 1]}
    /\ thread' = "idle" /\ resume' = None
    /\ UNCHANGED <<review, unresolved, stop, caseReview, asked, handled, node, mode, begun>>

Accepted ==
    /\ resume.action = "accept"
    /\ ~NotRun /\ ~Material(review, unresolved, stop)
    /\ phase' = "human_reviewed_not_released"
    /\ node' = "end" /\ thread' = "idle" /\ resume' = None
    /\ UNCHANGED <<report, review, unresolved, stop, caseReview, version, asked, output,
                   handled, mode, history>>

Worked ==
    /\ resume.action \in {"ask", "revise"}
    /\ resume.id = None \/ (resume.base = Current /\ resume.id \in Ids \ handled)
    /\ asked' = resume.action
    /\ handled' = handled \cup ({resume.id} \ {None})
    /\ begun' = IF resume.id = None THEN begun ELSE [begun EXCEPT ![resume.id] = @ + 1]
    /\ phase' = "working"
    /\ node' \in {"writer", "quick_writer", "research_revision"}
    /\ node' = "research_revision" => resume.action = "revise"
    /\ resume' = None
    /\ UNCHANGED <<report, review, unresolved, stop, caseReview, version, output, thread,
                   mode, written, shown>>

LEMMA HumanReviewSteps ==
    ASSUME TypeOK, Held, HumanReview
    PROVE  /\ UNCHANGED <<clients, lapses>>
           /\ Refuse \/ Edited \/ Accepted \/ Worked
<1>1. resume \in Request /\ resume.action # "abandon" /\ UNCHANGED <<clients, lapses>>
    BY DEF TypeOK, Held, HumanReview
<1>2. CASE resume.action = "manual_complete"
    BY <1>1, <1>2 DEF HumanReview, CompleteManually, Edited
<1>3. CASE resume.action = "accept"
    BY <1>1, <1>3 DEF HumanReview, Accept, Accepted
<1>4. CASE resume.action \in {"ask", "revise"}
    <2>1. Work
        BY <1>4 DEF HumanReview
    <2>2. CASE resume.id # None /\ ~ValidTarget(resume.base, resume.id)
        BY <1>1, <2>1, <2>2 DEF Work
    <2>3. CASE ~(resume.id # None /\ ~ValidTarget(resume.base, resume.id))
        <3>1. resume.id = None \/ (resume.base = Current /\ resume.id \in Ids \ handled)
            BY <2>3, <1>1, RequestShapes DEF ValidTarget
        <3> QED
            BY <3>1, <1>1, <2>1, <2>3, <1>4 DEF Work, Targets, Worked
    <2> QED
        BY <2>2, <2>3
<1> QED
    BY <1>1, <1>2, <1>3, <1>4, RequestShapes

\* A request that is posted comes with the report as it is read.
PostedAny ==
    \E r \in Requests, request \in Request :
        /\ inflight' = [inflight EXCEPT ![r] = request]
        /\ UNCHANGED <<values, server, created, runs, history, lapses>>
        /\ request.action # "abandon" =>
               request.base = None \/ (request.base = Current /\ node = "human_review")

LEMMA PostSteps ==
    ASSUME TypeOK, NEW r \in Requests,
           \/ \E action \in {"ask", "revise"} : PostMessage(r, action)
           \/ \E id \in Ids : PostTargeted(r, id)
           \/ PostAccept(r) \/ PostManual(r) \/ PostAbandon(r)
    PROVE  PostedAny
<1>0. Current \in Base /\ AbandonedPhase \in Phases
    BY Constants DEF TypeOK, Current, Base, Report, AbandonedPhase, Phases, Texts
<1>1. ASSUME NEW action \in {"ask", "revise"}, PostMessage(r, action) PROVE PostedAny
    <2>1. [action |-> action, id |-> None, base |-> None] \in Request
        BY DEF Request
    <2> QED
        BY <1>1, <2>1 DEF PostMessage, Posted, PostedAny
<1>2. ASSUME NEW id \in Ids, PostTargeted(r, id) PROVE PostedAny
    <2>1. [action |-> "revise", id |-> id, base |-> Current] \in Request
        BY <1>0 DEF Request
    <2> QED
        BY <1>2, <2>1 DEF PostTargeted, Interrupted, Posted, PostedAny
<1>3. CASE PostAccept(r)
    <2>1. [action |-> "accept", id |-> None, base |-> None] \in Request
        BY DEF Request
    <2> QED
        BY <1>3, <2>1 DEF PostAccept, Posted, PostedAny
<1>4. CASE PostManual(r)
    <2>1. [action |-> "manual_complete", id |-> None, base |-> Current] \in Request
        BY <1>0 DEF Request
    <2> QED
        BY <1>4, <2>1 DEF PostManual, Interrupted, Posted, PostedAny
<1>5. CASE PostAbandon(r)
    <2>1. [action |-> "abandon", phase |-> AbandonedPhase] \in Request
        BY <1>0 DEF Request
    <2> QED
        BY <1>5, <2>1 DEF PostAbandon, Posted, PostedAny
<1> QED
    BY <1>1, <1>2, <1>3, <1>4, <1>5

\* What creating a run does, if the server takes it.
Created(r) ==
    /\ inflight[r] # None /\ inflight[r].action # "abandon"
    /\ inflight' = [inflight EXCEPT ![r] = None]
    /\ thread # "busy" /\ node # "end" /\ runs # MaxRuns
    /\ thread' = "busy" /\ resume' = (IF Interrupted THEN inflight[r] ELSE None)
    /\ mode' \in {"single", "team"} /\ runs' = runs + 1
    /\ created' = created \cup ({inflight[r].id} \ {None})
    /\ lapses' = lapses \cup
          IF node = "finish" /\ output = "report" /\ review.of # report.text /\ mode' = "team"
          THEN {"unverified"} ELSE {}
    /\ UNCHANGED <<values, node, history>>

Abandoned(r) ==
    /\ inflight[r] # None /\ inflight[r].action = "abandon"
    /\ inflight' = [inflight EXCEPT ![r] = None]
    /\ thread # "busy"
    /\ node' = "human_review" /\ thread' = "idle" /\ resume' = None
    /\ phase' = inflight[r].phase /\ output' = "failed_question"
    /\ shown' = shown \cup {Current}
    /\ lapses' = lapses \cup (IF OnItsWay THEN {"draft"} ELSE {})
                        \cup (IF node = "end" THEN {"closed"} ELSE {})
    /\ UNCHANGED <<report, review, unresolved, stop, caseReview, version, asked,
                   handled, mode, written, begun, created, runs>>

\* The server answers without doing anything.
Dropped(r) ==
    /\ inflight' = [inflight EXCEPT ![r] = None]
    /\ UNCHANGED <<values, server, created, runs, history, lapses>>

LEMMA ServerSteps ==
    ASSUME NEW r \in Requests
    PROVE  /\ CreateRun(r) => Created(r) \/ Dropped(r)
           /\ WriteAbandon(r) => Abandoned(r) \/ Dropped(r)
<1>1. CreateRun(r) => Created(r) \/ Dropped(r)
    BY DEF CreateRun, Created, Dropped
<1>2. WriteAbandon(r) => Abandoned(r) \/ Dropped(r)
    BY DEF WriteAbandon, Abandoned, Dropped
<1> QED
    BY <1>1, <1>2

Resumed ==
    /\ At("human_review") /\ UNCHANGED <<clients, lapses>>
    /\ Refuse \/ Edited \/ Accepted \/ Worked

LEMMA NextCases ==
    ASSUME TypeOK, Held, Next
    PROVE  \/ PostedAny
           \/ \E r \in Requests : Created(r) \/ Abandoned(r) \/ Dropped(r)
           \/ Resumed \/ Answer \/ QuestionLimit \/ Write \/ Verify \/ Finish \/ Revise \/ Fail
<1>1. ASSUME NEW r \in Requests,
             \/ \E action \in {"ask", "revise"} : PostMessage(r, action)
             \/ \E id \in Ids : PostTargeted(r, id)
             \/ PostAccept(r) \/ PostManual(r) \/ PostAbandon(r)
      PROVE  PostedAny
    BY <1>1, PostSteps
<1>2. ASSUME NEW r \in Requests, CreateRun(r) \/ WriteAbandon(r)
      PROVE  Created(r) \/ Abandoned(r) \/ Dropped(r)
    BY <1>2, ServerSteps
<1>3. CASE HumanReview
    BY <1>3, HumanReviewSteps DEF HumanReview, Resumed
<1> QED
    BY <1>1, <1>2, <1>3 DEF Next, Graph

-----------------------------------------------------------------------------
(* Types and counts.                                                       *)

LEMMA HeldStep ==
    ASSUME TypeOK, Held, Next
    PROVE  Held'
<1>1. CASE PostedAny
    BY <1>1 DEF PostedAny, server, Held, At
<1>2. CASE \E r \in Requests : Created(r)
    BY <1>2 DEF Created, Interrupted, Held, At
<1>3. CASE \E r \in Requests : Abandoned(r)
    BY <1>3 DEF Abandoned, Held, At
<1>4. CASE \E r \in Requests : Dropped(r)
    BY <1>4 DEF Dropped, server, Held, At
<1>5. CASE Resumed /\ Refuse
    BY <1>5 DEF Refuse, At, Held
<1>6. CASE Resumed /\ Edited
    BY <1>6 DEF Edited, At, Held
<1>7. CASE Resumed /\ Accepted
    BY <1>7 DEF Accepted, At, Held
<1>8. CASE Resumed /\ Worked
    BY <1>8 DEF Worked, At, Held
<1>9. CASE Answer
    BY <1>9 DEF Answer, At, Held
<1>10. CASE QuestionLimit
    BY <1>10 DEF QuestionLimit, At, Held
<1>11. CASE Write
    BY <1>11 DEF Write, At, Held
<1>12. CASE Verify
    BY <1>12 DEF Verify, At, Held
<1>13. CASE Finish
    BY <1>13 DEF Finish, At, Held
<1>14. CASE Revise
    BY <1>14 DEF Revise, At, Held
<1>15. CASE Fail
    BY <1>15 DEF Fail, Held, At
<1> QED
    BY <1>1, <1>2, <1>3, <1>4, <1>5, <1>6, <1>7, <1>8,
       <1>9, <1>10, <1>11, <1>12, <1>13, <1>14, <1>15, NextCases DEF Resumed

LEMMA NumberedStep ==
    ASSUME WorkInv, Next
    PROVE  Numbered'
<1>1. CASE PostedAny
    BY <1>1 DEF PostedAny, values, server, history, WorkInv, Numbered, At
<1>2. CASE \E r \in Requests : Created(r)
    BY <1>2 DEF Created, values, history, WorkInv, Numbered, TypeOK, Texts
<1>3. CASE \E r \in Requests : Abandoned(r)
    BY <1>3 DEF Abandoned, WorkInv, Numbered, At
<1>4. CASE \E r \in Requests : Dropped(r)
    BY <1>4 DEF Dropped, values, server, history, WorkInv, Numbered, At
<1>5. CASE Resumed /\ Refuse
    BY <1>5 DEF Resumed, Refuse, clients, history, WorkInv, Numbered, Held, TypeOK
<1>6. CASE Resumed /\ Edited
    BY <1>6 DEF Resumed, Edited, At, clients, WorkInv, Numbered, TypeOK, Texts
<1>7. CASE Resumed /\ Accepted
    BY <1>7 DEF Resumed, Accepted, clients, history, WorkInv, Numbered
<1>8. CASE Resumed /\ Worked
    BY <1>8 DEF Resumed, Worked, clients, WorkInv, Numbered
<1>9. CASE Answer
    BY <1>9 DEF Answer, At, clients, history, WorkInv, Numbered
<1>10. CASE QuestionLimit
    BY <1>10 DEF QuestionLimit, At, clients, history, WorkInv, Numbered
<1>11. CASE Write
    BY <1>11 DEF Write, At, clients, WorkInv, Numbered, TypeOK, Texts
<1>12. CASE Verify
    BY <1>12 DEF Verify, At, clients, history, WorkInv, Numbered
<1>13. CASE Finish
    BY <1>13 DEF Finish, At, clients, WorkInv, Numbered
<1>14. CASE Revise
    BY <1>14 DEF Revise, Revised, At, clients, WorkInv, Numbered, TypeOK, Texts
<1>15. CASE Fail
    BY <1>15 DEF Fail, values, clients, history, WorkInv, Numbered, At
<1> QED
    BY <1>1, <1>2, <1>3, <1>4, <1>5, <1>6, <1>7, <1>8,
       <1>9, <1>10, <1>11, <1>12, <1>13, <1>14, <1>15, NextCases DEF Resumed, WorkInv

LEMMA HandledStep ==
    ASSUME WorkInv, Next
    PROVE  Handled'
<1>1. CASE PostedAny
    BY <1>1 DEF PostedAny, values, history, WorkInv, Handled
<1>2. CASE \E r \in Requests : Created(r)
    BY <1>2 DEF Created, values, history, WorkInv, Handled
<1>3. CASE \E r \in Requests : Abandoned(r)
    BY <1>3 DEF Abandoned, WorkInv, Handled
<1>4. CASE \E r \in Requests : Dropped(r)
    BY <1>4 DEF Dropped, values, history, WorkInv, Handled
<1>5. CASE Resumed /\ Refuse
    BY <1>5 DEF Refuse, values, history, WorkInv, Handled
<1>6. CASE Resumed /\ Edited
    BY <1>6 DEF Edited, WorkInv, Handled
<1>7. CASE Resumed /\ Accepted
    BY <1>7 DEF Accepted, history, WorkInv, Handled
<1>8. CASE Resumed /\ Worked
    BY <1>8 DEF Worked, WorkInv, Handled, TypeOK
<1>9. CASE Answer
    BY <1>9 DEF Answer, history, WorkInv, Handled
<1>10. CASE QuestionLimit
    BY <1>10 DEF QuestionLimit, history, WorkInv, Handled
<1>11. CASE Write
    BY <1>11 DEF Write, WorkInv, Handled
<1>12. CASE Verify
    BY <1>12 DEF Verify, history, WorkInv, Handled
<1>13. CASE Finish
    BY <1>13 DEF Finish, WorkInv, Handled
<1>14. CASE Revise
    BY <1>14 DEF Revise, WorkInv, Handled
<1>15. CASE Fail
    BY <1>15 DEF Fail, values, history, WorkInv, Handled
<1> QED
    BY <1>1, <1>2, <1>3, <1>4, <1>5, <1>6, <1>7, <1>8,
       <1>9, <1>10, <1>11, <1>12, <1>13, <1>14, <1>15, NextCases DEF Resumed, WorkInv

TypeServer ==
    /\ node \in Nodes /\ thread \in {"idle", "busy", "error"}
    /\ resume \in Request \cup {None}
    /\ resume # None => node = "human_review" /\ thread = "busy"
    /\ mode \in {"single", "team"}
    /\ inflight \in [Requests -> Request \cup {None}]
    /\ created \subseteq Ids /\ runs \in 0..MaxRuns /\ lapses \subseteq Lapses
TypeTexts ==
    /\ report \in Report /\ review \in Review
    /\ version \in 1..written /\ written \in Texts /\ shown \subseteq Base
TypeRest ==
    /\ unresolved \in BOOLEAN /\ stop \in BOOLEAN /\ caseReview \in BOOLEAN
    /\ phase \in Phases /\ asked \in {"none", "ask", "revise"}
    /\ output \in {"none", "answer", "report", "failed_question"}
    /\ handled \subseteq Ids /\ begun \in [Ids -> 0..MaxRuns]

LEMMA ServerTyped ==
    ASSUME WorkInv, Next
    PROVE  TypeServer'
<1>1. CASE PostedAny
    BY <1>1 DEF PostedAny, server, WorkInv, TypeServer, TypeOK
<1>2. CASE \E r \in Requests : Created(r)
    BY <1>2, RequestShapes, Constants DEF Created, Interrupted, Lapses, WorkInv, TypeServer, TypeOK
<1>3. CASE \E r \in Requests : Abandoned(r)
    BY <1>3 DEF Abandoned, Lapses, WorkInv, TypeServer, TypeOK, Nodes
<1>4. CASE \E r \in Requests : Dropped(r)
    BY <1>4 DEF Dropped, server, WorkInv, TypeServer, TypeOK
<1>5. CASE Resumed /\ Refuse
    BY <1>5 DEF Resumed, Refuse, clients, WorkInv, TypeServer, TypeOK
<1>6. CASE Resumed /\ Edited
    BY <1>6 DEF Resumed, Edited, clients, WorkInv, TypeServer, TypeOK
<1>7. CASE Resumed /\ Accepted
    BY <1>7 DEF Resumed, Accepted, clients, WorkInv, TypeServer, TypeOK, Nodes
<1>8. CASE Resumed /\ Worked
    BY <1>8 DEF Resumed, Worked, clients, WorkInv, TypeServer, TypeOK, Nodes
<1>9. CASE Answer
    BY <1>9 DEF Answer, At, clients, WorkInv, TypeServer, TypeOK, Nodes
<1>10. CASE QuestionLimit
    BY <1>10 DEF QuestionLimit, At, clients, WorkInv, TypeServer, TypeOK, Nodes
<1>11. CASE Write
    BY <1>11 DEF Write, At, clients, WorkInv, TypeServer, TypeOK, Nodes
<1>12. CASE Verify
    BY <1>12 DEF Verify, At, clients, WorkInv, TypeServer, TypeOK, Nodes
<1>13. CASE Finish
    BY <1>13 DEF Finish, At, clients, WorkInv, TypeServer, TypeOK, Nodes
<1>14. CASE Revise
    BY <1>14 DEF Revise, At, clients, WorkInv, TypeServer, TypeOK, Nodes
<1>15. CASE Fail
    BY <1>15 DEF Fail, clients, WorkInv, TypeServer, TypeOK
<1> QED
    BY <1>1, <1>2, <1>3, <1>4, <1>5, <1>6, <1>7, <1>8,
       <1>9, <1>10, <1>11, <1>12, <1>13, <1>14, <1>15, NextCases DEF Resumed, WorkInv

LEMMA TextsTyped ==
    ASSUME WorkInv, Next
    PROVE  TypeTexts'
<1>1. CASE PostedAny
    BY <1>1 DEF PostedAny, values, history, WorkInv, TypeTexts, TypeOK
<1>2. CASE \E r \in Requests : Created(r)
    BY <1>2 DEF Created, values, history, WorkInv, TypeTexts, TypeOK
<1>3. CASE \E r \in Requests : Abandoned(r)
    BY <1>3, Constants DEF Abandoned, WorkInv, TypeTexts, TypeOK, Texts, Base, Report,
       Current
<1>4. CASE \E r \in Requests : Dropped(r)
    BY <1>4 DEF Dropped, values, history, WorkInv, TypeTexts, TypeOK
<1>5. CASE Resumed /\ Refuse
    BY <1>5 DEF Refuse, values, history, WorkInv, TypeTexts, TypeOK
<1>6. CASE Resumed /\ Edited
    BY <1>6, Constants DEF Resumed, Edited, WorkInv, TypeTexts, TypeOK, Texts, Base, Report,
       Numbered
<1>7. CASE Resumed /\ Accepted
    BY <1>7 DEF Accepted, history, WorkInv, TypeTexts, TypeOK
<1>8. CASE Resumed /\ Worked
    BY <1>8 DEF Worked, WorkInv, TypeTexts, TypeOK
<1>9. CASE Answer
    BY <1>9 DEF Answer, history, WorkInv, TypeTexts, TypeOK
<1>10. CASE QuestionLimit
    BY <1>10 DEF QuestionLimit, history, WorkInv, TypeTexts, TypeOK
<1>11. CASE Write
    BY <1>11, Constants DEF Write, At, WorkInv, TypeTexts, TypeOK, Texts, Report, Numbered
<1>12. CASE Verify
    BY <1>12 DEF Verify, history, WorkInv, TypeTexts, TypeOK, Report, Review, ReviewsOf
<1>13. CASE Finish
    BY <1>13, Constants DEF Finish, At, WorkInv, TypeTexts, TypeOK, Texts, Base, Report,
       Review, Numbered, FinishedVersion, Unreviewed
<1>14. CASE Revise
    BY <1>14, Constants DEF Revise, Revised, At, WorkInv, TypeTexts, TypeOK, Texts, Base,
       Report, Review, Numbered, ReviewsOf
<1>15. CASE Fail
    BY <1>15 DEF Fail, values, history, WorkInv, TypeTexts, TypeOK
<1> QED
    BY <1>1, <1>2, <1>3, <1>4, <1>5, <1>6, <1>7, <1>8,
       <1>9, <1>10, <1>11, <1>12, <1>13, <1>14, <1>15, NextCases DEF Resumed, WorkInv

LEMMA RestTyped ==
    ASSUME WorkInv, Next
    PROVE  TypeRest'
<1>1. CASE PostedAny
    BY <1>1 DEF PostedAny, values, history, WorkInv, TypeRest, TypeOK
<1>2. CASE \E r \in Requests : Created(r)
    BY <1>2 DEF Created, values, history, WorkInv, TypeRest, TypeOK
<1>3. CASE \E r \in Requests : Abandoned(r)
    BY <1>3, RequestShapes DEF Abandoned, WorkInv, TypeRest, TypeOK
<1>4. CASE \E r \in Requests : Dropped(r)
    BY <1>4 DEF Dropped, values, history, WorkInv, TypeRest, TypeOK
<1>5. CASE Resumed /\ Refuse
    BY <1>5 DEF Refuse, values, history, WorkInv, TypeRest, TypeOK
<1>6. CASE Resumed /\ Edited
    BY <1>6 DEF Edited, WorkInv, TypeRest, TypeOK, Phases
<1>7. CASE Resumed /\ Accepted
    BY <1>7 DEF Accepted, history, WorkInv, TypeRest, TypeOK, Phases
<1>8. CASE Resumed /\ Worked
    BY <1>8, Constants DEF Resumed, Worked, At, WorkInv, TypeRest, TypeOK, Phases, Handled,
       Numbered
<1>9. CASE Answer
    BY <1>9 DEF Answer, history, WorkInv, TypeRest, TypeOK
<1>10. CASE QuestionLimit
    BY <1>10 DEF QuestionLimit, history, WorkInv, TypeRest, TypeOK, Phases, AbandonedPhase
<1>11. CASE Write
    BY <1>11 DEF Write, WorkInv, TypeRest, TypeOK
<1>12. CASE Verify
    BY <1>12 DEF Verify, history, WorkInv, TypeRest, TypeOK
<1>13. CASE Finish
    BY <1>13 DEF Finish, WorkInv, TypeRest, TypeOK, Phases
<1>14. CASE Revise
    BY <1>14 DEF Revise, Revised, WorkInv, TypeRest, TypeOK, Phases
<1>15. CASE Fail
    BY <1>15 DEF Fail, values, history, WorkInv, TypeRest, TypeOK
<1> QED
    BY <1>1, <1>2, <1>3, <1>4, <1>5, <1>6, <1>7, <1>8,
       <1>9, <1>10, <1>11, <1>12, <1>13, <1>14, <1>15, NextCases DEF Resumed, WorkInv

LEMMA WorkStep == WorkInv /\ Next => WorkInv'
BY ServerTyped, TextsTyped, RestTyped, HeldStep, NumberedStep, HandledStep
   DEF WorkInv, TypeOK, TypeServer, TypeTexts, TypeRest

-----------------------------------------------------------------------------
(* Versions, texts and reviews, up to the lapse that each does not stand.  *)

\* What went wrong stays on record.
LEMMA LapsesGrow ==
    ASSUME WorkInv, Next
    PROVE  lapses \subseteq lapses'
<1>1. CASE PostedAny \/ Resumed
    BY <1>1 DEF PostedAny, Resumed
<1>2. CASE \E r \in Requests : Created(r) \/ Abandoned(r) \/ Dropped(r)
    BY <1>2 DEF Created, Abandoned, Dropped
<1>3. CASE Answer \/ QuestionLimit \/ Write \/ Verify \/ Finish \/ Revise \/ Fail
    BY <1>3 DEF Answer, QuestionLimit, Write, Verify, Finish, Revise, Fail
<1> QED
    BY <1>1, <1>2, <1>3, NextCases DEF WorkInv

LEMMA SnapshotsStep ==
    ASSUME WorkInv, Snapshots, Next, "draft" \notin lapses'
    PROVE  Snapshots'
<1>1. CASE PostedAny
    BY <1>1 DEF PostedAny, values, server, history, Snapshots, OnItsWay, Current
<1>2. CASE \E r \in Requests : Created(r)
    BY <1>2 DEF Created, values, history, Snapshots, OnItsWay, Current
<1>3. CASE \E r \in Requests : Abandoned(r)
    BY <1>3 DEF Abandoned, Snapshots, OnItsWay, Current
<1>4. CASE \E r \in Requests : Dropped(r)
    BY <1>4 DEF Dropped, values, server, history, Snapshots, OnItsWay, Current
<1>5. CASE Resumed /\ Refuse
    BY <1>5 DEF Refuse, values, history, Snapshots, OnItsWay, Current
<1>6. CASE Resumed /\ Edited
    BY <1>6 DEF Edited, WorkInv, Snapshots, Current, TypeOK, Texts, Base
<1>7. CASE Resumed /\ Accepted
    BY <1>7 DEF Resumed, Accepted, history, WorkInv, Snapshots, OnItsWay, Current, TypeOK, Held
<1>8. CASE Resumed /\ Worked
    BY <1>8 DEF Resumed, Worked, WorkInv, Snapshots, OnItsWay, Current, TypeOK, Held
<1>9. CASE Answer
    BY <1>9 DEF Answer, history, WorkInv, Snapshots, OnItsWay, Current, Numbered
<1>10. CASE QuestionLimit
    BY <1>10 DEF QuestionLimit, history, WorkInv, Snapshots, OnItsWay, Current, Numbered
<1>11. CASE Write
    BY <1>11 DEF Write, Snapshots, OnItsWay
<1>12. CASE Verify
    BY <1>12 DEF Verify, history, WorkInv, Snapshots, OnItsWay, Current, Numbered
<1>13. CASE Finish
    BY <1>13 DEF Finish, WorkInv, Snapshots, OnItsWay, Current, Numbered, TypeOK, Texts, Base,
       FinishedVersion
<1>14. CASE Revise
    BY <1>14 DEF Revise, At, WorkInv, Snapshots, OnItsWay, Current, TypeOK, Texts, Base
<1>15. CASE Fail
    BY <1>15 DEF Fail, values, history, Snapshots, OnItsWay, Current
<1> QED
    BY <1>1, <1>2, <1>3, <1>4, <1>5, <1>6, <1>7, <1>8,
       <1>9, <1>10, <1>11, <1>12, <1>13, <1>14, <1>15, NextCases DEF Resumed, WorkInv

\* A snapshot stays.
LEMMA ShownGrows ==
    ASSUME WorkInv, Next
    PROVE  shown \subseteq shown'
<1>1. CASE PostedAny
    BY <1>1 DEF PostedAny, history
<1>2. CASE \E r \in Requests : Created(r)
    BY <1>2 DEF Created, history
<1>3. CASE \E r \in Requests : Abandoned(r)
    BY <1>3 DEF Abandoned
<1>4. CASE \E r \in Requests : Dropped(r)
    BY <1>4 DEF Dropped, history
<1>5. CASE Resumed /\ Refuse
    BY <1>5 DEF Refuse, history
<1>6. CASE Resumed /\ Edited
    BY <1>6 DEF Edited
<1>7. CASE Resumed /\ Accepted
    BY <1>7 DEF Accepted, history
<1>8. CASE Resumed /\ Worked
    BY <1>8 DEF Worked
<1>9. CASE Answer
    BY <1>9 DEF Answer, history
<1>10. CASE QuestionLimit
    BY <1>10 DEF QuestionLimit, history
<1>11. CASE Write
    BY <1>11 DEF Write
<1>12. CASE Verify
    BY <1>12 DEF Verify, history
<1>13. CASE Finish
    BY <1>13 DEF Finish
<1>14. CASE Revise
    BY <1>14 DEF Revise
<1>15. CASE Fail
    BY <1>15 DEF Fail, history
<1> QED
    BY <1>1, <1>2, <1>3, <1>4, <1>5, <1>6, <1>7, <1>8,
       <1>9, <1>10, <1>11, <1>12, <1>13, <1>14, <1>15, NextCases DEF Resumed, WorkInv

LEMMA AimedStep ==
    ASSUME WorkInv, Snapshots, Aimed, Next
    PROVE  Aimed'
<1>1. CASE PostedAny
    BY <1>1 DEF PostedAny, server, history, Snapshots, OnItsWay, Aimed
<1>2. CASE \E r \in Requests : Created(r)
    BY <1>2 DEF Created, history, Aimed
<1>3. CASE \E r \in Requests : Abandoned(r)
    BY <1>3 DEF Abandoned, Aimed
<1>4. CASE \E r \in Requests : Dropped(r)
    BY <1>4 DEF Dropped, server, history, Aimed
<1>5. CASE Resumed /\ Refuse
    BY <1>5 DEF Resumed, Refuse, clients, history, Aimed
<1>6. CASE Resumed /\ Edited
    BY <1>6 DEF Resumed, Edited, clients, Aimed
<1>7. CASE Resumed /\ Accepted
    BY <1>7 DEF Resumed, Accepted, clients, history, Aimed
<1>8. CASE Resumed /\ Worked
    BY <1>8 DEF Resumed, Worked, clients, Aimed
<1>9. CASE Answer
    BY <1>9 DEF Answer, clients, history, Aimed
<1>10. CASE QuestionLimit
    BY <1>10 DEF QuestionLimit, clients, history, Aimed
<1>11. CASE Write
    BY <1>11 DEF Write, clients, Aimed
<1>12. CASE Verify
    BY <1>12 DEF Verify, clients, history, Aimed
<1>13. CASE Finish
    BY <1>13 DEF Finish, clients, Aimed
<1>14. CASE Revise
    BY <1>14 DEF Revise, clients, Aimed
<1>15. CASE Fail
    BY <1>15 DEF Fail, clients, history, Aimed
<1> QED
    BY <1>1, <1>2, <1>3, <1>4, <1>5, <1>6, <1>7, <1>8,
       <1>9, <1>10, <1>11, <1>12, <1>13, <1>14, <1>15, NextCases DEF Resumed, WorkInv

LEMMA ReviewedStep ==
    ASSUME WorkInv, Reviewed, Next, "draft" \notin lapses', "unverified" \notin lapses'
    PROVE  Reviewed'
<1>1. CASE PostedAny
    BY <1>1 DEF PostedAny, values, server, Reviewed, OnItsWay
<1>2. CASE \E r \in Requests : Created(r)
    BY <1>2 DEF Created, values, WorkInv, TypeOK, Reviewed, OnItsWay, Material
<1>3. CASE \E r \in Requests : Abandoned(r)
    BY <1>3 DEF Abandoned, Reviewed, OnItsWay
<1>4. CASE \E r \in Requests : Dropped(r)
    BY <1>4 DEF Dropped, values, server, Reviewed, OnItsWay
<1>5. CASE Resumed /\ Refuse
    BY <1>5 DEF Resumed, Refuse, values, WorkInv, Reviewed, OnItsWay, TypeOK, Held
<1>6. CASE Resumed /\ Edited
    BY <1>6 DEF Resumed, Edited, WorkInv, Reviewed, OnItsWay, TypeOK, Held
<1>7. CASE Resumed /\ Accepted
    BY <1>7 DEF Resumed, Accepted, WorkInv, Reviewed, OnItsWay, TypeOK, NotRun, Held
<1>8. CASE Resumed /\ Worked
    BY <1>8 DEF Resumed, Worked, WorkInv, Reviewed, OnItsWay, TypeOK, Held
<1>9. CASE Answer
    BY <1>9 DEF Answer, WorkInv, Reviewed, OnItsWay, Numbered
<1>10. CASE QuestionLimit
    BY <1>10 DEF QuestionLimit, WorkInv, Reviewed, OnItsWay, Numbered
<1>11. CASE Write
    BY <1>11 DEF Write, Reviewed, OnItsWay
<1>12. CASE Verify
    BY <1>12 DEF Verify, At, Reviewed, ReviewsOf
<1>13. CASE Finish
    BY <1>13 DEF Finish, At, Reviewed, OnItsWay, Unreviewed
<1>14. CASE Revise
    BY <1>14 DEF Revise, Revised, At, Reviewed, OnItsWay, ReviewsOf
<1>15. CASE Fail
    BY <1>15 DEF Fail, values, Reviewed, OnItsWay
<1> QED
    BY <1>1, <1>2, <1>3, <1>4, <1>5, <1>6, <1>7, <1>8,
       <1>9, <1>10, <1>11, <1>12, <1>13, <1>14, <1>15, NextCases DEF Resumed, WorkInv

\* A new text is newer than every page, and a text gets its version once.
LEMMA DistinctStep ==
    ASSUME WorkInv, Snapshots, Distinct, Next, "draft" \notin lapses'
    PROVE  Distinct'
<1>0. /\ written \in Nat /\ version \in Nat /\ shown \subseteq Base
      /\ node = "verifier" => output = "report"
    BY Constants DEF WorkInv, TypeOK, Texts, Numbered
<1>1. CASE PostedAny
    BY <1>0, <1>1 DEF PostedAny, values, server, history, Distinct, Snapshots, OnItsWay, Current
<1>2. CASE \E r \in Requests : Created(r)
    BY <1>0, <1>2 DEF Created, values, history, Distinct, Snapshots, OnItsWay, Current
<1>3. CASE \E r \in Requests : Abandoned(r)
    BY <1>0, <1>3 DEF Abandoned, Distinct, Snapshots, OnItsWay, Current
<1>4. CASE \E r \in Requests : Dropped(r)
    BY <1>0, <1>4 DEF Dropped, values, server, history, Distinct, Snapshots, OnItsWay, Current
<1>5. CASE Resumed /\ Refuse
    BY <1>0, <1>5 DEF Refuse, values, history, Distinct, Snapshots, OnItsWay, Current
<1>6. CASE Resumed /\ Edited
    BY <1>0, <1>6 DEF Resumed, At, Edited, WorkInv, TypeOK, Texts, Report, Base, Distinct, Snapshots, OnItsWay, Current
<1>7. CASE Resumed /\ Accepted
    BY <1>0, <1>7 DEF Resumed, At, Accepted, history, Distinct, Snapshots, OnItsWay, Current
<1>8. CASE Resumed /\ Worked
    BY <1>0, <1>8 DEF Resumed, At, Worked, Distinct, Snapshots, OnItsWay, Current
<1>9. CASE Answer
    BY <1>0, <1>9 DEF Answer, history, Distinct, Snapshots, OnItsWay, Current
<1>10. CASE QuestionLimit
    BY <1>0, <1>10 DEF QuestionLimit, history, Distinct, Snapshots, OnItsWay, Current
<1>11. CASE Write
    BY <1>0, <1>11 DEF Write, At, WorkInv, TypeOK, Texts, Base, Distinct, Snapshots, OnItsWay, Current
<1>12. CASE Verify
    BY <1>0, <1>12 DEF Verify, At, history, Distinct, Snapshots, OnItsWay, Current
<1>13. CASE Finish
    <2>1. CASE output = "report"
        BY <1>0, <1>13, <2>1 DEF Finish, At, Distinct, Snapshots, OnItsWay, FinishedVersion, Base
    <2>2. CASE output # "report"
        <3>1. Current \in shown /\ version' = version
            BY <1>0, <1>13, <2>2 DEF Finish, At, Snapshots, OnItsWay, FinishedVersion
        <3> QED
            BY <1>0, <1>13, <2>2, <3>1 DEF Finish, Distinct, OnItsWay, Current
    <2> QED
        BY <2>1, <2>2
<1>14. CASE Revise
    <2>1. Current \in shown /\ ~OnItsWay'
        BY <1>14 DEF Revise, At, Snapshots, OnItsWay
    <2>2. CASE report'.text = report.text /\ written' = written
        <3>1. shown' = shown
            BY <1>0, <1>14, <2>1, <2>2 DEF Revise, Current
        <3> QED
            BY <2>1, <2>2, <3>1 DEF Distinct
    <2>3. CASE report'.text = written + 1 /\ written' = written + 1
        <3>1. shown' = shown \cup {[version |-> version', text |-> written + 1]}
            BY <1>14, <2>3 DEF Revise
        <3> QED
            BY <1>0, <2>1, <2>3, <3>1 DEF Distinct, Base, Texts
    <2>4. \/ report'.text = report.text /\ written' = written
          \/ report'.text = written + 1 /\ written' = written + 1
        BY <1>14 DEF Revise, Revised
    <2> QED
        BY <2>2, <2>3, <2>4
<1>15. CASE Fail
    BY <1>0, <1>15 DEF Fail, values, history, Distinct, Snapshots, OnItsWay, Current
<1> QED
    BY <1>1, <1>2, <1>3, <1>4, <1>5, <1>6, <1>7, <1>8,
       <1>9, <1>10, <1>11, <1>12, <1>13, <1>14, <1>15, NextCases DEF Resumed, WorkInv

-----------------------------------------------------------------------------
LEMMA WorkInit == Init => WorkInv
<1> SUFFICES ASSUME Init PROVE WorkInv
    OBVIOUS
<1>1. /\ node = "human_review" /\ thread = "idle" /\ resume = None /\ mode = "team"
      /\ report = [text |-> 1, basis |-> 1] /\ version = 1 /\ written = 1
      /\ asked = "none" /\ output = "none" /\ handled = {} /\ created = {} /\ runs = 0
      /\ inflight = [r \in Requests |-> None] /\ shown = {[version |-> 1, text |-> 1]}
      /\ begun = [i \in Ids |-> 0] /\ lapses = {}
    BY DEF Init
<1>2. /\ review \in Review /\ unresolved \in BOOLEAN /\ stop \in BOOLEAN /\ caseReview \in BOOLEAN
      /\ phase \in Phases
    <2>1. CASE review = Unreviewed /\ stop = FALSE /\ unresolved = FALSE /\ caseReview = FALSE
                 /\ phase = "single_agent_unreviewed"
        BY <2>1, Constants DEF Review, Texts, Unreviewed, Phases
    <2>2. CASE /\ review \in ReviewsOf(1) /\ unresolved \in BOOLEAN /\ caseReview \in BOOLEAN
               /\ stop = (review.data \/ review.material \/ unresolved)
               /\ phase = IF stop THEN "needs_revision" ELSE "ready_for_human_review"
        <3>1. review \in Review
            BY <2>2, Constants DEF Review, ReviewsOf, Texts
        <3>2. stop \in BOOLEAN
            BY <2>2
        <3>3. phase \in Phases
            BY <2>2 DEF Phases
        <3> QED
            BY <2>2, <3>1, <3>2, <3>3
    <2> QED
        BY <2>1, <2>2 DEF Init
<1>3. TypeServer
    BY <1>1, Constants DEF TypeServer, Nodes
<1>4. TypeTexts
    BY <1>1, <1>2, Constants DEF TypeTexts, Report, Texts, Base
<1>5. TypeRest
    BY <1>1, <1>2, Constants DEF TypeRest
<1>6. Held /\ Numbered /\ Handled
    BY <1>1 DEF Held, Numbered, Handled, At
<1> QED
    BY <1>3, <1>4, <1>5, <1>6 DEF WorkInv, TypeOK, TypeServer, TypeTexts, TypeRest

LEMMA TextInit == Init => Snapshots /\ Aimed /\ Reviewed /\ Distinct
<1> SUFFICES ASSUME Init PROVE Snapshots /\ Aimed /\ Reviewed /\ Distinct
    OBVIOUS
<1>1. Snapshots /\ Aimed
    BY DEF Init, Snapshots, Aimed, Current
<1>2. Reviewed
    BY DEF Init, Reviewed, OnItsWay, Unreviewed, ReviewsOf
<1>3. Distinct
    BY DEF Init, Distinct, OnItsWay
<1> QED
    BY <1>1, <1>2, <1>3

LEMMA Stutters ==
    ASSUME UNCHANGED vars
    PROVE  /\ WorkInv => WorkInv'
           /\ (Snapshots => Snapshots') /\ (Aimed => Aimed')
           /\ Reviewed => Reviewed'
           /\ Distinct => Distinct'
<1>1. /\ UNCHANGED <<report, review, unresolved, stop, caseReview, version, phase, asked>>
      /\ UNCHANGED <<output, handled, node, thread, resume, mode, inflight, created, runs>>
      /\ UNCHANGED <<written, shown, begun, lapses>>
    BY DEF vars, values, server, clients, history
<1>2. TypeOK => TypeOK'
    BY <1>1 DEF TypeOK
<1>3. Held /\ Numbered /\ Handled => Held' /\ Numbered' /\ Handled'
    BY <1>1 DEF Held, Numbered, Handled, At
<1>4. (Snapshots => Snapshots') /\ (Aimed => Aimed')
    BY <1>1 DEF Snapshots, Aimed, OnItsWay, Current
<1>5. Reviewed => Reviewed'
    BY <1>1 DEF Reviewed, OnItsWay, Material
<1>6. Distinct => Distinct'
    BY <1>1 DEF Distinct, OnItsWay
<1> QED
    BY <1>2, <1>3, <1>4, <1>5, <1>6 DEF WorkInv

\* The inductive invariant of the report loop, for any requests, ids and runs: where
\* a text may be newer than its version, and that a handled id was begun once
\* (report_session.py: finish, human_review; research_session.py: revision_handler).
THEOREM WorkInductive == Spec => []WorkInv
<1>1. WorkInv /\ [Next]_vars => WorkInv'
    BY WorkStep, Stutters
<1> QED
    BY <1>1, WorkInit, PTL DEF Spec

\* The report loop is well-typed, late requests and late abandonments included.
THEOREM ReportTyped == Spec => []TypeOK
<1>1. WorkInv => TypeOK
    BY DEF WorkInv
<1> QED
    BY <1>1, WorkInductive, PTL

\* However often a targeted revision is sent, its work is started once.
THEOREM StartedOnce == Spec => []OncePerRequest
<1>1. WorkInv => OncePerRequest
    BY DEF WorkInv, Handled, OncePerRequest
<1> QED
    BY <1>1, WorkInductive, PTL

LEMMA TextStep == WorkInv /\ TextInv /\ [Next]_vars => TextInv'
<1>1. CASE UNCHANGED vars
    BY <1>1, Stutters DEF TextInv, vars
<1>2. ASSUME WorkInv, TextInv, Next
      PROVE  TextInv'
    <2>1. lapses \subseteq lapses'
        BY <1>2, LapsesGrow
    <2>2. "draft" \notin lapses' => Snapshots' /\ Aimed' /\ Distinct'
        BY <1>2, <2>1, SnapshotsStep, AimedStep, DistinctStep DEF TextInv
    <2>3. "draft" \notin lapses' /\ "unverified" \notin lapses' => Reviewed'
        BY <1>2, <2>1, ReviewedStep DEF TextInv
    <2> QED
        BY <2>2, <2>3 DEF TextInv
<1> QED
    BY <1>1, <1>2

\* Of all that late and overlapping requests can do, only an abandonment that comes
\* down on an unnumbered text costs the snapshots their versions and the requests
\* their aim, and only this and a team that finishes a single agent's text cost the
\* report its review (report_sessions.py: abandon_question_action, resume_run).
THEOREM SnapshotsHold == Spec => []TextInv
<1>1. Init => TextInv
    BY TextInit DEF TextInv
<1> QED
    BY <1>1, TextStep, WorkInductive, PTL DEF Spec

\* A version names one text for good, unless an abandonment comes down on a text its
\* writer has left and finish has not numbered.
THEOREM VersionsNameTexts == Spec => []VersionNamesText
<1>1. TextInv => VersionNamesText
    BY DEF TextInv, Snapshots, VersionNamesText, OnItsWay
<1> QED
    BY <1>1, SnapshotsHold, PTL

\* Whatever requests, runs and failures come together, a report that is accepted had
\* its independent review, or one of the two lapses that leave a text without one
\* came before.
THEOREM AcceptedReviewed == Spec => []UnreviewedByLapse
<1>1. TextInv => UnreviewedByLapse
    BY DEF TextInv, Reviewed, UnreviewedByLapse, AcceptedWasReviewed
<1> QED
    BY <1>1, SnapshotsHold, PTL

\* A manual edit and a targeted revision start from the text they were aimed at, as
\* long as versions name one text.
THEOREM WorkFitsItsBase == Spec => BasedOnWhatWasSeen
<1> DEFINE A == node = "human_review" /\ resume # None /\ resume' = None /\ thread' # "error"
          /\ "draft" \notin lapses => resume.base = None \/ resume.base.text = report.text
<1>1. WorkInv /\ TextInv /\ [Next]_vars => [A]_vars
    <2> SUFFICES ASSUME WorkInv, Snapshots, Aimed, Next, node = "human_review", resume # None,
                        resume' = None, thread' # "error"
                 PROVE  resume.base = None \/ resume.base.text = report.text
        BY DEF TextInv
    <2>1. thread = "busy" /\ resume \in Request /\ resume.action # "abandon"
        BY DEF WorkInv, TypeOK, Held, At
    <2>2. Edited \/ Accepted \/ Worked
        BY <2>1, NextCases DEF WorkInv, PostedAny, Created, Abandoned, Dropped, Resumed, Refuse, server,
           Answer, QuestionLimit, Write, Verify, Finish, Revise, Fail, At
    <2>3. resume.action = "accept" => resume.base = None
        BY <2>1 DEF Request
    <2>4. resume.base # None => resume.base \in shown /\ Current \in shown
        BY DEF Aimed, Snapshots, OnItsWay
    <2>5. resume.id = None /\ resume.action \in {"ask", "revise"} => resume.base = None
        BY <2>1, Constants DEF Request
    <2>6. CASE Edited
        BY <2>4, <2>6 DEF Edited, Snapshots, Current
    <2>7. CASE Worked
        BY <2>5, <2>7 DEF Worked, Current
    <2>8. CASE Accepted
        BY <2>3, <2>8 DEF Accepted
    <2> QED
        BY <2>2, <2>6, <2>7, <2>8
<1> QED
    BY <1>1, SnapshotsHold, WorkInductive, PTL DEF Spec, BasedOnWhatWasSeen

\* A question leaves the report, its review and its version as they are.
THEOREM QuestionsKeepReports == Spec => QuestionKeepsReport
<1> DEFINE A == asked = "ask" /\ asked' = "ask" /\ node # "human_review" =>
          UNCHANGED <<report, review, version, unresolved, stop>>
<1>1. WorkInv /\ [Next]_vars => [A]_vars
    <2> SUFFICES ASSUME WorkInv, Next, asked = "ask", node # "human_review"
                 PROVE  UNCHANGED <<report, review, version, unresolved, stop>>
        OBVIOUS
    <2>1. /\ node \notin {"verifier", "research_revision"} /\ version \in Nat
          /\ node = "finish" => output # "report"
        BY DEF WorkInv, Numbered, TypeOK
    <2>2. ~Resumed /\ ~Verify /\ ~Revise /\ ~Write
        BY <2>1 DEF Resumed, Verify, Revise, Write, At
    <2>3. CASE Finish
        BY <2>1, <2>3 DEF Finish, FinishedVersion, At
    <2>4. CASE PostedAny \/ \E r \in Requests : Created(r) \/ Abandoned(r) \/ Dropped(r)
        BY <2>4 DEF PostedAny, Created, Abandoned, Dropped, values
    <2>5. CASE Answer \/ QuestionLimit \/ Fail
        BY <2>5 DEF Answer, QuestionLimit, Fail, values
    <2> QED
        BY <2>2, <2>3, <2>4, <2>5, NextCases DEF WorkInv
<1> QED
    BY <1>1, WorkInductive, PTL DEF Spec, QuestionKeepsReport

-----------------------------------------------------------------------------
(* The session implements the book of its report.                          *)

\* The book is kept up to the first lapse.
BookInv == WorkInv /\ Snapshots /\ Reviewed /\ Distinct

\* What a reader of the book sees stays.
SameBook ==
    /\ shown' = shown /\ version' = version /\ handled' = handled
    /\ OnItsWay' = OnItsWay /\ report' = report /\ review'.of = review.of
    /\ Material(review, unresolved, stop)' = Material(review, unresolved, stop)
    /\ (node = "end")' = (node = "end")

LEMMA SameBookStutters == SameBook => UNCHANGED Book!bvars
BY DEF SameBook, Book!bvars

\* The server's and the clients' steps, and answers to questions, are no reader's.
LEMMA QuietSteps ==
    ASSUME BookInv, lapses' = {},
           \/ PostedAny \/ Answer \/ QuestionLimit \/ Fail \/ (Resumed /\ Refuse)
           \/ \E r \in Requests : Created(r) \/ Abandoned(r) \/ Dropped(r)
    PROVE  SameBook
<1>1. CASE PostedAny \/ \E r \in Requests : Dropped(r)
    BY <1>1 DEF PostedAny, Dropped, values, server, history, SameBook, OnItsWay, Material
<1>2. CASE Answer \/ QuestionLimit
    BY <1>2 DEF Answer, QuestionLimit, At, history, SameBook, OnItsWay, Material
<1>3. CASE Fail \/ (Resumed /\ Refuse)
    BY <1>3 DEF Fail, Refuse, values, history, SameBook, OnItsWay, Material
<1>4. CASE \E r \in Requests : Created(r)
    BY <1>4 DEF Created, values, history, SameBook, OnItsWay, Material
<1>5. CASE \E r \in Requests : Abandoned(r)
    <2>1. ~OnItsWay /\ node # "end" /\ node' = "human_review"
        BY <1>5 DEF Abandoned
    <2>2. Current \in shown
        BY <2>1 DEF BookInv, Snapshots
    <2> QED
        BY <1>5, <2>1, <2>2 DEF Abandoned, SameBook, OnItsWay, Material
<1> QED
    BY <1>1, <1>2, <1>3, <1>4, <1>5

LEMMA BookTypes ==
    ASSUME BookInv
    PROVE  /\ written \in Nat /\ version \in Nat /\ shown \subseteq Base
           /\ report.text \in Texts /\ report.basis \in Texts /\ report.basis # 0
           /\ Material(review, unresolved, stop) \in BOOLEAN
           /\ written \in Texts
BY Constants DEF BookInv, WorkInv, TypeOK, Texts, Report, Review, Material

\* Each kind of work is one entry of the book.
LEMMA WorkBegins ==
    ASSUME BookInv, Resumed, Worked
    PROVE  SameBook \/ \E id \in Ids : Book!Begin(id)
<1>1. node = "human_review" /\ node' \notin {"verifier", "finish", "end"}
    BY DEF Resumed, At, Worked
<1>2. CASE resume.id = None
    <2>1. handled' = handled
        BY <1>2 DEF Worked
    <2> QED
        BY <1>1, <2>1 DEF Worked, SameBook, OnItsWay, Material
<1>3. CASE resume.id # None
    <2>1. resume.id \in Ids /\ resume.id \notin handled /\ handled' = handled \cup {resume.id}
        BY <1>3 DEF Worked
    <2>2. Book!Begin(resume.id)
        BY <1>1, <2>1 DEF Worked, Book!Begin, OnItsWay, Material
    <2> QED
        BY <2>1, <2>2
<1> QED
    BY <1>2, <1>3

LEMMA WriterDrafts ==
    ASSUME BookInv, BookInv', Write \/ Verify
    PROVE  Book!Draft
<1>1. OnItsWay' /\ node # "end" /\ node' # "end"
    BY DEF BookInv, WorkInv, Numbered, Write, Verify, At, OnItsWay
<1>2. Material(review, unresolved, stop)' \in BOOLEAN
    BY DEF BookInv, WorkInv, TypeOK, Review, Material
<1>3. shown' = shown /\ version' = version /\ handled' = handled
    BY DEF Write, Verify, history
<1> QED
    BY <1>1, <1>2, <1>3 DEF Book!Draft

LEMMA FinishPublishes ==
    ASSUME BookInv, BookInv', Finish
    PROVE  SameBook \/ \E t \in Texts : Book!Publish(t)
<1>1. node = "finish" /\ node' = "human_review" /\ handled' = handled /\ report' = report
    BY DEF Finish, At
<1>2. CASE output # "report"
    <2>1. Current \in shown /\ version' = version
        BY <1>1, <1>2, BookTypes DEF BookInv, Snapshots, OnItsWay, Finish, FinishedVersion
    <2>2. shown' = shown /\ review' = review
        BY <1>2, <2>1 DEF Finish, Current
    <2> QED
        BY <1>1, <1>2, <2>1, <2>2 DEF Finish, SameBook, OnItsWay, Material
<1>3. CASE output = "report"
    <2>1. OnItsWay /\ ~OnItsWay'
        BY <1>1, <1>3 DEF OnItsWay
    <2>2. /\ report.text = report.basis /\ \A a \in shown : a.text # report.text
          /\ report.text \in Texts
        BY <2>1, BookTypes DEF BookInv, Distinct
    <2>3. version' = version + 1
        BY <1>3 DEF Finish, FinishedVersion
    <2>4. shown' = shown \cup {[version |-> version + 1, text |-> report.text]}
        BY <2>3 DEF Finish
    <2>5. review'.of \in {0, report.text}
        BY <1>1, <1>3, <2>2 DEF Finish, Unreviewed, BookInv, Reviewed
    <2>6. Material(review, unresolved, stop)' \in BOOLEAN
        BY DEF BookInv, WorkInv, TypeOK, Review, Material
    <2>7. Book!Add(report.text)
        BY <1>1, <2>2, <2>3, <2>4 DEF Book!Add, Book!Page
    <2>8. Book!Publish(report.text)
        BY <1>1, <2>1, <2>2, <2>5, <2>6, <2>7 DEF Book!Publish
    <2> QED
        BY <2>2, <2>8
<1> QED
    BY <1>2, <1>3

LEMMA RevisionEnters ==
    ASSUME BookInv, BookInv', Revise
    PROVE  Book!Stop \/ Book!Review \/ \E t \in Texts : Book!Publish(t)
<1>1. /\ node = "research_revision" /\ node' = "human_review" /\ handled' = handled
      /\ ~OnItsWay /\ ~OnItsWay'
    BY DEF Revise, At, OnItsWay
<1>2. Current \in shown
    BY <1>1 DEF BookInv, Snapshots
<1>3. Material(review, unresolved, stop)' \in BOOLEAN
    BY DEF BookInv, WorkInv, TypeOK, Review, Material
<1>4. CASE UNCHANGED <<report, review>> /\ stop' = TRUE
    <2>1. version' = version /\ shown' = shown
        BY <1>2, <1>4, BookTypes DEF Revise, Current
    <2>2. Material(review, unresolved, stop)' = TRUE
        BY <1>4 DEF Material
    <2> QED
        BY <1>1, <1>4, <2>1, <2>2 DEF Book!Stop
<1>5. CASE /\ report' = [text |-> written + 1, basis |-> written + 1]
           /\ review'.of = written + 1
    <2>1. written + 1 \in Texts
        BY <1>5 DEF BookInv, WorkInv, TypeOK, Report
    <2>2. report.text # written + 1 /\ \A a \in shown : a.text # written + 1
        BY BookTypes DEF BookInv, Distinct, Base, Texts
    <2>3. version' = version + 1
        BY <1>5, <2>2 DEF Revise
    <2>4. shown' = shown \cup {[version |-> version + 1, text |-> written + 1]}
        BY <1>5, <2>3 DEF Revise
    <2>5. Book!Add(written + 1)
        BY <1>1, <2>2, <2>3, <2>4 DEF Book!Add, Book!Page
    <2>6. Book!Publish(written + 1)
        BY <1>1, <1>3, <1>5, <2>5 DEF Book!Publish
    <2> QED
        BY <2>1, <2>6
<1>6. CASE /\ report' = [text |-> report.text, basis |-> report.text]
           /\ review'.of = report.text
    <2>1. version' = version /\ shown' = shown
        BY <1>2, <1>6, BookTypes DEF Revise, Current
    <2> QED
        BY <1>1, <1>2, <1>3, <1>6, <2>1 DEF Book!Review, Book!Page, Current
<1>7. CASE ~(UNCHANGED <<report, review>> /\ stop' = TRUE)
    <2>1. /\ \/ report' = [text |-> written + 1, basis |-> written + 1]
             \/ report' = [text |-> report.text, basis |-> report.text]
          /\ review' \in ReviewsOf(report'.text)
        BY <1>7 DEF Revise, Revised
    <2>2. review'.of = report'.text
        BY <2>1 DEF ReviewsOf
    <2>3. CASE report' = [text |-> written + 1, basis |-> written + 1]
        BY <1>5, <2>2, <2>3
    <2>4. CASE report' = [text |-> report.text, basis |-> report.text]
        BY <1>6, <2>2, <2>4
    <2> QED
        BY <2>1, <2>3, <2>4
<1> QED
    BY <1>4, <1>7

LEMMA EditAdds ==
    ASSUME BookInv, BookInv', Resumed, Edited
    PROVE  \E t \in Texts : Book!Edit(t)
<1>1. /\ node = "human_review" /\ node' = node /\ ~OnItsWay /\ ~OnItsWay'
      /\ handled' = handled /\ report'.basis = report.basis
    BY DEF Resumed, Edited, At, OnItsWay, BookInv, WorkInv, TypeOK, Report
<1>2. written + 1 \in Texts
    BY DEF Edited, BookInv, WorkInv, TypeOK
<1>3. \A a \in shown : a.text # written + 1
    BY BookTypes DEF BookInv, Distinct, Base, Texts
<1>4. Book!Add(written + 1)
    BY <1>1, <1>3 DEF Edited, Book!Add, Book!Page
<1>5. Book!Edit(written + 1)
    BY <1>1, <1>4, BookTypes DEF Edited, Book!Edit, Material
<1> QED
    BY <1>2, <1>5

LEMMA AcceptCloses ==
    ASSUME BookInv, Resumed, Accepted
    PROVE  Book!Accept
<1>1. node = "human_review" /\ node' = "end" /\ ~OnItsWay /\ ~OnItsWay'
    BY DEF Resumed, Accepted, At, OnItsWay
<1>2. review.of = report.basis
    BY <1>1 DEF Accepted, NotRun, BookInv, Reviewed
<1> QED
    BY <1>1, <1>2, BookTypes DEF Accepted, history, Book!Accept, Material

LEMMA BookStep ==
    ASSUME BookInv, BookInv', [Next]_vars, lapses' = {}
    PROVE  [Book!Next]_(Book!bvars)
<1>1. CASE SameBook
    BY <1>1, SameBookStutters
<1>2. CASE UNCHANGED vars
    <2>1. SameBook
        BY <1>2 DEF vars, values, server, history, SameBook, OnItsWay, Material
    <2> QED
        BY <1>1, <2>1
<1>3. CASE \/ PostedAny \/ Answer \/ QuestionLimit \/ Fail \/ (Resumed /\ Refuse)
           \/ \E r \in Requests : Created(r) \/ Abandoned(r) \/ Dropped(r)
    BY <1>1, <1>3, QuietSteps
<1>4. CASE Resumed /\ Worked
    BY <1>1, <1>4, WorkBegins DEF Book!Next
<1>5. CASE Resumed /\ Edited
    BY <1>5, EditAdds DEF Book!Next
<1>6. CASE Resumed /\ Accepted
    BY <1>6, AcceptCloses DEF Book!Next
<1>7. CASE Write \/ Verify
    BY <1>7, WriterDrafts DEF Book!Next
<1>8. CASE Finish
    BY <1>1, <1>8, FinishPublishes DEF Book!Next
<1>9. CASE Revise
    BY <1>9, RevisionEnters DEF Book!Next
<1> QED
    BY <1>2, <1>3, <1>4, <1>5, <1>6, <1>7, <1>8, <1>9, NextCases
       DEF BookInv, WorkInv, Resumed

LEMMA BookInit == Init => Book!Init
<1> SUFFICES ASSUME Init PROVE Book!Init
    OBVIOUS
<1>1. 1 \in Texts /\ ~OnItsWay /\ node # "end"
    BY Constants DEF Init, Texts, OnItsWay
<1>2. /\ shown = {[version |-> 1, text |-> 1]} /\ version = 1 /\ report.basis = 1
      /\ handled = {} /\ review.of \in {0, 1}
    BY DEF Init, Unreviewed, ReviewsOf
<1>3. Material(review, unresolved, stop) \in BOOLEAN
    BY WorkInit DEF WorkInv, TypeOK, Review, Material
<1> QED
    BY <1>1, <1>2, <1>3 DEF Book!Init, Book!Page

\* Whatever requests, runs and failures come together, every step of a report session
\* up to its first lapse is a step of a book to which pages are added one by one, with
\* a text each, and that is closed by an acceptance of a reviewed text.
THEOREM BookImplemented == Spec => ImplementsBook
<1>1. lapses = {} /\ WorkInv /\ TextInv => BookInv
    BY DEF TextInv, BookInv
<1>2. WorkInv /\ WorkInv' /\ TextInv /\ TextInv' /\ [Next]_vars
        => [Book!Next \/ lapses' # {}]_(Book!bvars)
    <2> SUFFICES ASSUME WorkInv, WorkInv', TextInv, TextInv', [Next]_vars, lapses' = {}
                 PROVE  [Book!Next]_(Book!bvars)
        OBVIOUS
    <2>1. lapses \subseteq lapses'
        BY LapsesGrow DEF vars
    <2>2. BookInv
        BY <1>1, <2>1
    <2>3. BookInv'
        BY DEF TextInv, BookInv
    <2> QED
        BY <2>2, <2>3, BookStep
<1> QED
    BY <1>2, BookInit, WorkInductive, SnapshotsHold, PTL DEF Spec, ImplementsBook
=============================================================================
