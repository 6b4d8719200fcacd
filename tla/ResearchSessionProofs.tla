----------------------- MODULE ResearchSessionProofs -----------------------
(***************************************************************************)
(* Proofs about ResearchSession, for any number of requests, tasks,        *)
(* messages and runs.  The invariant says what saved work belongs to the   *)
(* session, what a saved review is about, and what the nodes find when     *)
(* they start.                                                             *)
(***************************************************************************)
EXTENDS ResearchSession, TLAPS

\* A failed attempt is one of a task of the session, and a single agent has at
\* most one task without a paper.
AttemptsBelong ==
    /\ Failed \subseteq tasks
    /\ mode = "single" => \A t, u \in Unfinished : t = u

\* A saved review is about the papers as they are.
ReviewOfPapers ==
    review # None => papers # {} /\ review.papers = papers /\ handoff # None

\* What a node finds when it is reached.
NodesReady ==
    /\ node = "case_review" => papers # {} /\ handoff # None
    /\ node = "remaining_research" => review = None
    /\ report # "none" => node \in {"report", "research"}
    /\ resume # None => edits < runs

SessionInv ==
    /\ TypeOK /\ AttemptsBelong /\ ReviewOfPapers /\ NodesReady
    /\ ReportStandsOnReview /\ IncompleteIsDirected

-----------------------------------------------------------------------------
LEMMA InitHolds == Init => SessionInv
<1> SUFFICES ASSUME Init PROVE SessionInv
    OBVIOUS
<1>0. MaxRuns \in Nat
    BY ResearchSessionAssumption
<1>1. TypeOfWork
  <2>1. /\ mode \in {"single", "team"} /\ papers \subseteq tasks /\ tasks \subseteq Tasks
        /\ handoff \in Handoff \cup {None} /\ review \in Review \cup {None}
        /\ feedback \in BOOLEAN /\ continuing \in BOOLEAN /\ phase \in Phases
        /\ stop \in {"none", "research", "review", "convergence"}
        /\ report \in {"none", "single", "converged"}
      BY DEF Init, Phases
  <2>2. failed \in [Tasks -> Failure \cup {None}]
      BY DEF Init
  <2>3. edits = 0 /\ runs = 0
      BY DEF Init
  <2>4. edits \in 0..runs
      BY <2>3
  <2> QED
      BY <2>1, <2>2, <2>4 DEF TypeOfWork
<1>2. TypeOfServer
    BY <1>0 DEF Init, TypeOfServer
<1>3. TypeOfRequests
    BY DEF Init, TypeOfRequests
<1>4. AttemptsBelong /\ ReviewOfPapers /\ NodesReady
    BY DEF Init, AttemptsBelong, ReviewOfPapers, NodesReady, Failed, Unfinished
<1>5. ReportStandsOnReview /\ IncompleteIsDirected
    BY DEF Init, ReportStandsOnReview, IncompleteIsDirected, Incomplete
<1> QED
    BY <1>1, <1>2, <1>3, <1>4, <1>5 DEF SessionInv, TypeOK

\* A request changes nothing but itself.
LEMMA PostFrame ==
    ASSUME NEW r \in Requests, Post(r)
    PROVE  /\ UNCHANGED <<mode, values, server, guidance, history>>
           /\ TypeOK => \E request \in Request : inflight' = [inflight EXCEPT ![r] = request]
<1>1. UNCHANGED <<mode, values, server, guidance, history>>
    BY DEF Post, PostStart, PostAcknowledge, PostContinue, PostNative, PostGuidance, PostRecover,
       Posted
<1>2. ASSUME TypeOK PROVE \E request \in Request : inflight' = [inflight EXCEPT ![r] = request]
  <2> USE <1>2, ResearchSessionAssumption DEF TypeOK, TypeOfWork, TypeOfServer, TypeOfRequests,
      Posted, Request, Resumes
  <2>1. CASE PostStart(r)
      BY <2>1 DEF PostStart
  <2>2. CASE PostAcknowledge(r)
      BY <2>2 DEF PostAcknowledge
  <2>3. CASE PostContinue(r)
      BY <2>3 DEF PostContinue
  <2>4. CASE PostNative(r)
    <3>1. ASSUME NEW run \in 1..runs,
                 Posted(r, [kind |-> "continue_remaining", plan |-> run])
          PROVE  \E request \in Request : inflight' = [inflight EXCEPT ![r] = request]
      <4>1. run \in 1..MaxRuns
          OBVIOUS
      <4>2. [kind |-> "continue_remaining", plan |-> run] \in Resumes
          BY <4>1 DEF Runs
      <4> QED
          BY <3>1, <4>2
    <3>2. ASSUME NEW depth \in {"focused", "full"},
                 Posted(r, [kind |-> "review_saved_workpapers", plan |-> depth,
                            papers |-> papers])
          PROVE  \E request \in Request : inflight' = [inflight EXCEPT ![r] = request]
        BY <3>2
    <3>3. CASE review # None /\ Posted(r, [kind |-> "write_after_incomplete_review",
                                          review |-> review, papers |-> papers])
        BY <3>3
    <3>4. CASE review # None /\ Posted(r, [kind |-> "amend_reviewed_workpapers",
                                          review |-> review, papers |-> papers,
                                          edits |-> edits])
      <4>1. edits \in 0..MaxRuns
          OBVIOUS
      <4>2. [kind |-> "amend_reviewed_workpapers", review |-> review, papers |-> papers,
             edits |-> edits] \in Resumes
          BY <4>1, <3>4
      <4> QED
          BY <3>4, <4>2
    <3> QED
        BY <2>4, <3>1, <3>2, <3>3, <3>4 DEF PostNative
  <2>5. ASSUME NEW m \in Messages, PostGuidance(r, m)
        PROVE  \E request \in Request : inflight' = [inflight EXCEPT ![r] = request]
      BY <2>5 DEF PostGuidance
  <2>6. ASSUME NEW t \in Tasks, PostRecover(r, t)
        PROVE  \E request \in Request : inflight' = [inflight EXCEPT ![r] = request]
      BY <2>6 DEF PostRecover
  <2> QED
      BY <2>1, <2>2, <2>3, <2>4, <2>5, <2>6 DEF Post
<1> QED
    BY <1>1, <1>2

LEMMA HandoffType ==
    ASSUME NEW h \in Handoff, NEW d \in Directions
    PROVE  /\ [h EXCEPT !.direction = d] \in Handoff
           /\ [h EXCEPT !.direction = d].direction = d
           /\ [h EXCEPT !.direction = d].plan = h.plan
BY DEF Handoff

LEMMA NewHandoff ==
    ASSUME NEW p \in {"focused", "full"}
    PROVE  LET h == [plan |-> p, direction |-> "none"] IN
           h \in Handoff /\ h.plan = p /\ h.direction = "none"
BY DEF Handoff, Directions

\* An attention was reached by a run with fewer edits than runs.
LEMMA EditsType ==
    ASSUME TypeOK, NodesReady, resume # None, edits' \in {edits, edits + 1}, runs' = runs
    PROVE  edits' \in 0..runs'
<1>1. edits \in 0..runs /\ edits < runs /\ runs \in Nat
    BY ResearchSessionAssumption DEF TypeOK, TypeOfWork, TypeOfServer, NodesReady
<1> QED
    BY <1>1

LEMMA FailureType ==
    ASSUME TypeOK, thread = "busy"
    PROVE  [plan |-> plan, asks |-> guidance, run |-> runs] \in Failure
BY ResearchSessionAssumption DEF TypeOK, TypeOfServer, TypeOfRequests, Failure, Runs

\* What a resume carries.
LEMMA ResumeFields ==
    ASSUME NEW d \in Resumes
    PROVE  /\ d.kind = "review_saved_workpapers" => d.plan \in {"focused", "full"}
           /\ d.kind \in {"write_after_incomplete_review", "amend_reviewed_workpapers"}
                => d.review \in Review
           /\ d.kind = "recover_workpaper" => d.task \in Tasks /\ d.seen # None
BY NoneAssumption DEF Resumes

\* A raised error, and the outcome of research.
Raised ==
    /\ resume' = None /\ thread' = "error" /\ usage' \in {"zero", "known", "unknown"}
    /\ error' \in {"fresh_research_cannot_restart_existing_session",
                   "only_incomplete_research_can_continue_remaining_tasks",
                   "recovery_task_or_data_scope_mismatch", "decision_refused",
                   "review_recovery_requires_same_question_and_artifacts"}
    /\ UNCHANGED <<mode, values, node, plan, last, runs, inflight, guidance, told, directed>>
Came ==
    /\ resume' = None /\ usage' \in {"zero", "known", "unknown"} /\ continuing' = FALSE
    /\ UNCHANGED <<mode, review, feedback, edits, plan, last, runs, inflight, guidance, history>>
    /\ stop' \in {"none", "research"}
    /\ \/ /\ node' = "research_attention" /\ thread' = "interrupted"
          /\ handoff' = None /\ phase' = "needs_attention" /\ report' = report
       \/ /\ node' = "convergence" /\ thread' = "busy" /\ Cardinality(papers') = 1
          /\ papers' # {} /\ phase' = "reviewing" /\ report' = report
          /\ handoff' = [plan |-> "focused", direction |-> "none"]
       \/ /\ node' = "case_review" /\ thread' = "busy" /\ papers' # {}
          /\ phase' = "reviewing" /\ report' = report
          /\ handoff' = [plan |-> "full", direction |-> "none"]
       \/ /\ node' = "report" /\ thread' = "interrupted" /\ report' = "single"
          /\ phase' = "reported" /\ handoff' = None
Worked ==
    /\ papers \subseteq papers' /\ papers' \subseteq tasks' /\ tasks' \subseteq Tasks
    /\ failed' \in [Tasks -> Failure \cup {None}]
    /\ Failed \subseteq {t \in Tasks : failed'[t] # None}
    /\ \A t \in papers : failed'[t] = failed[t]
    /\ AttemptsBelong'

\* The outcome of a review, and of a direction.
Reviewed ==
    /\ review' \in Review /\ review'.papers = papers /\ continuing' = FALSE
    /\ feedback' \in BOOLEAN /\ resume' = None /\ usage' \in {"zero", "known", "unknown"}
    /\ UNCHANGED <<mode, papers, tasks, failed, handoff, edits, report, plan, last, runs,
                   inflight, guidance, history>>
    /\ \/ /\ Complete(review') /\ (review'.material => feedback') /\ node' = "convergence"
          /\ phase' = "writing" /\ stop' = stop /\ thread' = "busy"
       \/ /\ node' = "research_attention" /\ phase' = "needs_attention" /\ stop' = "review"
          /\ thread' = "interrupted"
Wrote ==
    /\ Incomplete(review) /\ resume # None /\ edits' \in {edits, edits + 1}
    /\ handoff' \in Handoff /\ handoff'.direction # "none"
    /\ handoff' # None /\ (review.material => handoff'.direction = "amend")
    /\ directed' = review /\ phase' = "writing" /\ stop' = "none" /\ continuing' = FALSE
    /\ feedback' = FALSE /\ node' = "convergence" /\ resume' = None /\ thread' = "busy"
    /\ UNCHANGED <<mode, papers, tasks, failed, review, report, plan, last, usage, runs,
                   inflight, guidance, told, error>>

LEMMA ReviewOutcome ==
    ASSUME TypeOK, CaseReview
    PROVE  Running("case_review") /\ (Raised \/ Reviewed)
<1> USE DEF TypeOK, TypeOfWork, TypeOfServer, TypeOfRequests
<1> DEFINE prev == IF continuing THEN review ELSE None
<1>1. Running("case_review") /\ runs \in Runs
    BY ResearchSessionAssumption DEF CaseReview, Running, Runs
<1>2. CASE Raise("review_recovery_requires_same_question_and_artifacts", FALSE)
    BY <1>1, <1>2 DEF Raise, Raised
<1>3. CASE ReviewStep(prev)
  <2>1. PICK counter \in BOOLEAN, verifier \in BOOLEAN, material \in BOOLEAN :
          /\ review' = [papers |-> papers, asks |-> guidance, run |-> runs,
                        counter |-> counter, verifier |-> verifier, material |-> material]
          /\ continuing' = FALSE
          /\ IF counter /\ verifier
             THEN /\ feedback' = material /\ phase' = "writing" /\ UNCHANGED stop
                  /\ Goto("convergence")
             ELSE /\ phase' = "needs_attention" /\ stop' = "review" /\ UNCHANGED feedback
                  /\ Goto("research_attention")
          /\ UNCHANGED <<papers, tasks, failed, handoff, edits, report>>
      BY <1>3 DEF ReviewStep
  <2>2. review' \in Review /\ review'.papers = papers /\ review'.material = material
        /\ (Complete(review') <=> counter /\ verifier)
      BY <2>1, <1>1 DEF Review, Complete
  <2>3. feedback' \in BOOLEAN /\ (counter /\ verifier /\ material => feedback')
      BY <2>1
  <2> QED
      BY <1>1, <2>1, <2>2, <2>3 DEF Goto, Reviewed
<1> QED
    BY <1>1, <1>2, <1>3 DEF CaseReview

LEMMA DirectionOutcome ==
    ASSUME TypeOK, ReviewOfPapers, WriteAfterIncomplete \/ AmendReviewed
    PROVE  node = "research_attention" /\ (Raised \/ Wrote)
<1> USE DEF TypeOK, TypeOfWork, TypeOfServer, TypeOfRequests
<1>1. node = "research_attention" /\ thread = "busy" /\ resume # None
    BY DEF WriteAfterIncomplete, AmendReviewed, Resumed, Running
<1>2. ASSUME Refused PROVE Raised
    BY <1>2 DEF Refused, Raise, Raised
<1>3. ASSUME Incomplete(review), NEW d \in {"write", "amend"}, Directed(d, resume),
             resume.review = review, edits' \in {edits, edits + 1},
             review.material => d = "amend"
      PROVE  Wrote
  <2>1. handoff \in Handoff /\ d \in Directions
      BY <1>3 DEF Incomplete, ReviewOfPapers, Directions
  <2>2. handoff' = [handoff EXCEPT !.direction = d]
      BY <1>3 DEF Directed
  <2>3. handoff' \in Handoff /\ handoff'.direction = d
      BY <2>1, <2>2, HandoffType
  <2>4. handoff' # None
      BY <2>3, NoneAssumption
  <2> QED
      BY <1>1, <1>3, <2>3, <2>4 DEF Directed, Proceed, Wrote
<1>4. CASE WriteAfterIncomplete
    BY <1>1, <1>2, <1>3, <1>4 DEF WriteAfterIncomplete, Writable, OnCurrentReview
<1>5. CASE AmendReviewed
    BY <1>1, <1>2, <1>3, <1>5 DEF AmendReviewed, OnCurrentReview
<1> QED
    BY <1>1, <1>4, <1>5

LEMMA TeamOutcome ==
    ASSUME NEW retained, NEW all, NEW ran, NEW submitted,
           TeamResearch(retained, all, ran, submitted), mode = "team"
    PROVE  Came
BY DEF TeamResearch, TeamReady, NeedsAttention, ResearchResult, Goto, Came

LEMMA SingleOutcome ==
    ASSUME NEW retained, NEW t, NEW submitted, SingleResearch(retained, t, submitted)
    PROVE  Came
BY DEF SingleResearch, NeedsAttention, ResearchResult, Goto, Came

LEMMA ResultWorked ==
    ASSUME TypeOK, thread = "busy", AttemptsBelong, mode' = mode,
           NEW all \in SUBSET Tasks, NEW ran \in SUBSET all, NEW submitted \in SUBSET ran,
           ran \cap papers = {}, Failed \ papers \subseteq all,
           mode = "single" => \E t \in Tasks : all = {t},
           ResearchResult(papers, all, ran, submitted)
    PROVE  Worked
<1> USE DEF TypeOK, TypeOfWork, ResearchResult
<1>1. failed' \in [Tasks -> Failure \cup {None}]
    BY FailureType
<1>2. /\ papers \subseteq papers' /\ papers' \subseteq tasks' /\ tasks' \subseteq Tasks
      /\ tasks' = papers \cup all
    OBVIOUS
<1>3. \A t \in papers : failed'[t] = failed[t]
    OBVIOUS
<1>4. \A t \in Tasks : failed[t] # None => failed'[t] # None
    BY FailureType, NoneAssumption
<1>5. \A t \in Tasks : failed'[t] # None => failed[t] # None \/ t \in ran
    OBVIOUS
<1>6. AttemptsBelong'
    BY <1>2, <1>5 DEF AttemptsBelong, Failed, Unfinished
<1> QED
    BY <1>1, <1>2, <1>3, <1>4, <1>6 DEF Worked, Failed

LEMMA ResearchOutcome ==
    ASSUME TypeOK, AttemptsBelong, Research
    PROVE  Raised \/ (thread = "busy" /\ papers = {} /\ report = "none" /\ Came /\ Worked)
<1>1. CASE Started
    BY <1>1 DEF Research, Raise, Raised, TypeOK, TypeOfServer
<1>2. CASE ~Started
  <2>0. papers = {} /\ tasks = {} /\ report = "none" /\ thread = "busy" /\ Failed = {}
    BY <1>2 DEF Started, Research, Running, AttemptsBelong
  <2>1. CASE mode = "single"
    <3>0. PICK t \in Tasks : \E s \in SUBSET {t} : SingleResearch({}, t, s)
        BY <1>2, <2>1 DEF Research
    <3>1. PICK s \in SUBSET {t} : SingleResearch({}, t, s)
        BY <3>0
    <3>2. Came /\ ResearchResult({}, {t}, {t}, s) /\ mode' = mode
        BY <3>1, SingleOutcome DEF SingleResearch, Came
    <3>3. Worked
        BY <3>2, <2>0, ResultWorked, {t} \in SUBSET Tasks
    <3> QED
        BY <2>0, <3>2, <3>3
  <2>2. CASE mode # "single"
    <3>0. PICK all \in SUBSET Tasks : \E ran \in SUBSET all : \E s \in SUBSET ran :
              TeamResearch({}, all, ran, s)
        BY <1>2, <2>2 DEF Research
    <3>4. PICK ran \in SUBSET all : \E s \in SUBSET ran : TeamResearch({}, all, ran, s)
        BY <3>0
    <3>1. PICK s \in SUBSET ran : TeamResearch({}, all, ran, s)
        BY <3>4
    <3>2. Came /\ ResearchResult({}, all, ran, s) /\ mode' = mode
        BY <3>1, <2>2, TeamOutcome DEF TeamResearch, Came, TypeOK, TypeOfWork
    <3>3. Worked
        BY <3>2, <2>0, <2>2, ResultWorked
    <3> QED
        BY <2>0, <3>2, <3>3
  <2> QED
    BY <2>1, <2>2
<1> QED
    BY <1>1, <1>2

LEMMA RemainingOutcome ==
    ASSUME TypeOK, AttemptsBelong, RemainingResearch
    PROVE  Raised \/ (Running("remaining_research") /\ CanContinue /\ Came /\ Worked)
<1>0. thread = "busy" /\ Running("remaining_research")
    BY DEF RemainingResearch, Running
<1>1. CASE ~CanContinue
    BY <1>1 DEF RemainingResearch, Raise, Raised, TypeOK, TypeOfServer
<1>2. CASE CanContinue /\ mode = "single"
  <2>1. CASE Failed \ papers = {}
    <3>0. PICK t \in Tasks \ tasks : \E s \in SUBSET {t} : SingleResearch(papers, t, s)
        BY <1>2, <2>1 DEF RemainingResearch, ContinueSingle
    <3>1. PICK s \in SUBSET {t} : SingleResearch(papers, t, s)
        BY <3>0
    <3>2. Came /\ ResearchResult(papers, {t}, {t}, s) /\ mode' = mode
        BY <3>1, SingleOutcome DEF SingleResearch, Came
    <3>3. Worked
        BY <3>2, <2>1, <1>0, ResultWorked, {t} \in SUBSET Tasks DEF TypeOK, TypeOfWork
    <3> QED
        BY <1>0, <1>2, <3>2, <3>3
  <2>2. CASE Failed \ papers # {}
    <3>1. PICK t \in Failed \ papers :
              IF SameWorker(t) THEN \E s \in SUBSET {t} : SingleResearch(papers, t, s)
              ELSE Raise("recovery_task_or_data_scope_mismatch", FALSE)
        BY <1>2, <2>2 DEF RemainingResearch, ContinueSingle
    <3>2. CASE ~SameWorker(t)
        BY <3>1, <3>2 DEF Raise, Raised, TypeOK, TypeOfServer
    <3>3. CASE SameWorker(t)
      <4>1. PICK s \in SUBSET {t} : SingleResearch(papers, t, s)
          BY <3>1, <3>3
      <4>2. Came /\ ResearchResult(papers, {t}, {t}, s) /\ mode' = mode
          BY <4>1, SingleOutcome DEF SingleResearch, Came
      <4>3. Failed \ papers \subseteq {t} /\ t \in Tasks
          BY <1>2 DEF AttemptsBelong, Unfinished, Failed
      <4>4. Worked
          BY <4>2, <4>3, <1>0, ResultWorked, {t} \in SUBSET Tasks
      <4> QED
          BY <1>0, <1>2, <4>2, <4>4
    <3> QED
        BY <3>2, <3>3
  <2> QED
    BY <2>1, <2>2
<1>3. CASE CanContinue /\ mode # "single"
  <2> DEFINE Foreign == {t \in Unfinished : ~SameWorker(t)}
             New == IF papers = {} THEN Tasks \ tasks ELSE {}
  <2>1. CASE Raise("recovery_task_or_data_scope_mismatch", Unfinished # Foreign)
      BY <2>1 DEF Raise, Raised, TypeOK, TypeOfServer
  <2>2. CASE ~Raise("recovery_task_or_data_scope_mismatch", Unfinished # Foreign)
    <3>0. PICK new \in SUBSET New : \E ran \in SUBSET ((Unfinished \ Foreign) \cup new) :
              \E s \in SUBSET ran : TeamResearch(papers, Unfinished \cup new, ran, s)
        BY <1>3, <2>2 DEF RemainingResearch, ContinueTeam
    <3>5. PICK ran \in SUBSET ((Unfinished \ Foreign) \cup new) :
              \E s \in SUBSET ran : TeamResearch(papers, Unfinished \cup new, ran, s)
        BY <3>0
    <3>1. PICK s \in SUBSET ran : TeamResearch(papers, Unfinished \cup new, ran, s)
        BY <3>5
    <3>2. Came /\ ResearchResult(papers, Unfinished \cup new, ran, s) /\ mode' = mode
        BY <3>1, <1>3, TeamOutcome DEF TeamResearch, Came, TypeOK, TypeOfWork
    <3>3. /\ Unfinished \cup new \in SUBSET Tasks /\ ran \in SUBSET (Unfinished \cup new)
          /\ ran \cap papers = {} /\ Failed \ papers \subseteq Unfinished \cup new
        BY <3>1 DEF Unfinished, TypeOK, TypeOfWork, AttemptsBelong
    <3>4. Worked
        BY <3>2, <3>3, <1>0, <1>3, ResultWorked
    <3> QED
        BY <1>0, <1>3, <3>2, <3>4
  <2> QED
    BY <2>1, <2>2
<1> QED
    BY <1>1, <1>2, <1>3

\* Types of the saved work.
LEMMA WorkTyped ==
    ASSUME TypeOK, AttemptsBelong, ReviewOfPapers, NodesReady, [Next]_vars
    PROVE  TypeOfWork'
<1> USE DEF TypeOK, TypeOfWork, TypeOfServer, TypeOfRequests, ReviewOfPapers, NodesReady
<1>1. ASSUME NEW r \in Requests, Post(r) PROVE TypeOfWork'
    BY <1>1, PostFrame, ResearchSessionAssumption DEF values, server, history
<1>2. ASSUME NEW r \in Requests, CreateRun(r) PROVE TypeOfWork'
    BY <1>2, ResearchSessionAssumption DEF CreateRun, ActionOf, Offered, AtAttention,
       values, server, history
<1>3. ASSUME NEW r \in Requests, WriteGuidance(r) PROVE TypeOfWork'
    BY <1>3, ResearchSessionAssumption DEF WriteGuidance, values, server, history
<1>4. ASSUME Research PROVE TypeOfWork'
  <2>1. CASE Raised
      BY <2>1 DEF Raised, values, history
  <2>2. CASE thread = "busy" /\ papers = {} /\ report = "none" /\ Came /\ Worked
      BY <2>2, NewHandoff, NoneAssumption DEF Came, Worked, history, Phases
  <2> QED
      BY <1>4, <2>1, <2>2, ResearchOutcome
<1>5. ASSUME RemainingResearch PROVE TypeOfWork'
  <2>1. CASE Raised
      BY <2>1 DEF Raised, values, history
  <2>2. CASE Running("remaining_research") /\ CanContinue /\ Came /\ Worked
      BY <2>2, NewHandoff, NoneAssumption DEF Came, Worked, CanContinue, Running,
         history, Phases
  <2> QED
      BY <1>5, <2>1, <2>2, RemainingOutcome
<1>6. ASSUME CaseReview PROVE TypeOfWork'
  <2>1. CASE Raised
      BY <2>1 DEF Raised, values, history
  <2>2. CASE Running("case_review") /\ Reviewed
      BY <2>2 DEF Reviewed, Running, history, Phases
  <2> QED
      BY <1>6, <2>1, <2>2, ReviewOutcome
<1>7. ASSUME Converge PROVE TypeOfWork'
    BY <1>7, ResearchSessionAssumption DEF Converge, Goto, Running, values, server,
       history, Phases
<1>8. ASSUME Fail PROVE TypeOfWork'
    BY <1>8, ResearchSessionAssumption DEF Fail, Raise, Running, values, server,
       history
<1>9. ASSUME Acknowledge PROVE TypeOfWork'
    BY <1>9, ResearchSessionAssumption DEF Acknowledge, Resumed, Running, Proceed,
       values, server, history, Phases
<1>10. ASSUME Continue PROVE TypeOfWork'
    BY <1>10, ResearchSessionAssumption DEF Continue, Resumed, Running, Proceed,
       Refused, Raise, values, server, history
<1>11. ASSUME Recover PROVE TypeOfWork'
  <2>1. CASE Refused
      BY <1>11, <2>1 DEF Refused, Raise, values, history
  <2>2. CASE ~Refused
    <3>1. /\ resume # None /\ failed[resume.task] # None /\ resume.task \in Tasks
          /\ papers' = papers \cup {resume.task} /\ edits' \in {edits, edits + 1}
          /\ continuing' = TRUE /\ review' = None /\ stop' = "none"
          /\ UNCHANGED <<mode, tasks, failed, handoff, feedback, phase, report, runs>>
        BY <1>11, <2>2, ResumeFields DEF Recover, Resumed, Running, Proceed
    <3>2. papers' \subseteq tasks
        BY <3>1 DEF AttemptsBelong, Failed
    <3>3. edits' \in 0..runs'
        BY <3>1, EditsType
    <3> QED
        BY <3>1, <3>2, <3>3
  <2> QED
      BY <2>1, <2>2
<1>12. ASSUME ReviewSaved PROVE TypeOfWork'
  <2>1. CASE Refused
      BY <1>12, <2>1 DEF Refused, Raise, values, history
  <2>2. CASE ~Refused
    <3>1. /\ resume # None /\ resume.kind = "review_saved_workpapers"
          /\ handoff' = [plan |-> resume.plan, direction |-> "none"]
          /\ phase' = "reviewing" /\ stop' = "none" /\ continuing' = FALSE
          /\ UNCHANGED <<mode, papers, tasks, failed, review, feedback, edits, report, runs>>
        BY <1>12, <2>2 DEF ReviewSaved, Resumed, Running, Proceed
    <3>2. handoff' \in Handoff
        BY <3>1, ResumeFields, NewHandoff
    <3> QED
        BY <3>1, <3>2 DEF Phases
  <2> QED
      BY <2>1, <2>2
<1>13. ASSUME WriteAfterIncomplete PROVE TypeOfWork'
  <2>1. CASE Raised
      BY <2>1 DEF Raised, values, history
  <2>2. CASE node = "research_attention" /\ Wrote
    <3>1. edits' \in 0..runs'
        BY <2>2, EditsType DEF Wrote
    <3> QED
        BY <2>2, <3>1 DEF Wrote, Phases
  <2> QED
      BY <1>13, <2>1, <2>2, DirectionOutcome
<1>14. ASSUME AmendReviewed PROVE TypeOfWork'
  <2>1. CASE Raised
      BY <2>1 DEF Raised, values, history
  <2>2. CASE node = "research_attention" /\ Wrote
    <3>1. edits' \in 0..runs'
        BY <2>2, EditsType DEF Wrote
    <3> QED
        BY <2>2, <3>1 DEF Wrote, Phases
  <2> QED
      BY <1>14, <2>1, <2>2, DirectionOutcome
<1>15. ASSUME UNCHANGED vars PROVE TypeOfWork'
    BY <1>15 DEF vars, values, server, history
<1> QED
    BY <1>1, <1>2, <1>3, <1>4, <1>5, <1>6, <1>7, <1>8, <1>9, <1>10, <1>11, <1>12,
       <1>13, <1>14, <1>15 DEF Next, Step, Attention

\* Types of the thread and its run.
LEMMA ServerTyped ==
    ASSUME TypeOK, AttemptsBelong, ReviewOfPapers, NodesReady, [Next]_vars
    PROVE  TypeOfServer'
<1> USE DEF TypeOK, TypeOfWork, TypeOfServer, TypeOfRequests
<1>1. ASSUME NEW r \in Requests, Post(r) PROVE TypeOfServer'
    BY <1>1, PostFrame, ResearchSessionAssumption DEF values, server, history
<1>2. ASSUME NEW r \in Requests, CreateRun(r) PROVE TypeOfServer'
    BY <1>2, ResearchSessionAssumption DEF CreateRun, ActionOf, Offered, AtAttention,
       values, server, history, Resumes, Request, Runs
<1>3. ASSUME NEW r \in Requests, WriteGuidance(r) PROVE TypeOfServer'
    BY <1>3, ResearchSessionAssumption DEF WriteGuidance, values, server, history
<1>4. ASSUME Research PROVE TypeOfServer'
  <2>1. CASE Raised
      BY <2>1 DEF Raised, values, history
  <2>2. CASE thread = "busy" /\ papers = {} /\ report = "none" /\ Came /\ Worked
      BY <2>2, NewHandoff, NoneAssumption DEF Came, Worked, history
  <2> QED
      BY <1>4, <2>1, <2>2, ResearchOutcome
<1>5. ASSUME RemainingResearch PROVE TypeOfServer'
  <2>1. CASE Raised
      BY <2>1 DEF Raised, values, history
  <2>2. CASE Running("remaining_research") /\ CanContinue /\ Came /\ Worked
      BY <2>2, NewHandoff, NoneAssumption DEF Came, Worked, CanContinue, Running,
         history
  <2> QED
      BY <1>5, <2>1, <2>2, RemainingOutcome
<1>6. ASSUME CaseReview PROVE TypeOfServer'
  <2>1. CASE Raised
      BY <2>1 DEF Raised, values, history
  <2>2. CASE Running("case_review") /\ Reviewed
      BY <2>2 DEF Reviewed, Running, history
  <2> QED
      BY <1>6, <2>1, <2>2, ReviewOutcome
<1>7. ASSUME Converge PROVE TypeOfServer'
    BY <1>7, ResearchSessionAssumption DEF Converge, Goto, Running, values, server,
       history
<1>8. ASSUME Fail PROVE TypeOfServer'
    BY <1>8, ResearchSessionAssumption DEF Fail, Raise, Running, values, server,
       history
<1>9. ASSUME Acknowledge PROVE TypeOfServer'
    BY <1>9, ResearchSessionAssumption DEF Acknowledge, Resumed, Running, Proceed,
       values, server, history
<1>10. ASSUME Continue PROVE TypeOfServer'
    BY <1>10, ResearchSessionAssumption DEF Continue, Resumed, Running, Proceed,
       Refused, Raise, values, server, history
<1>11. ASSUME Recover PROVE TypeOfServer'
    BY <1>11, ResumeFields, ResearchSessionAssumption DEF Recover, Resumed, Running,
       Proceed, Refused, Raise, CanContinue, Failed, AttemptsBelong, values, server,
       history
<1>12. ASSUME ReviewSaved PROVE TypeOfServer'
    BY <1>12, ResearchSessionAssumption, ResumeFields, NewHandoff, NoneAssumption DEF
       ReviewSaved, Resumed, Running, Proceed, Refused, Raise, values, server, history
<1>13. ASSUME WriteAfterIncomplete PROVE TypeOfServer'
  <2>1. CASE Raised
      BY <2>1 DEF Raised, values, history
  <2>2. CASE node = "research_attention" /\ Wrote
      BY <2>2, ResearchSessionAssumption DEF Wrote
  <2> QED
      BY <1>13, <2>1, <2>2, DirectionOutcome
<1>14. ASSUME AmendReviewed PROVE TypeOfServer'
  <2>1. CASE Raised
      BY <2>1 DEF Raised, values, history
  <2>2. CASE node = "research_attention" /\ Wrote
      BY <2>2, ResearchSessionAssumption DEF Wrote
  <2> QED
      BY <1>14, <2>1, <2>2, DirectionOutcome
<1>15. ASSUME UNCHANGED vars PROVE TypeOfServer'
    BY <1>15 DEF vars, values, server, history
<1> QED
    BY <1>1, <1>2, <1>3, <1>4, <1>5, <1>6, <1>7, <1>8, <1>9, <1>10, <1>11, <1>12,
       <1>13, <1>14, <1>15 DEF Next, Step, Attention

\* Types of the requests.
LEMMA RequestsTyped ==
    ASSUME TypeOK, AttemptsBelong, ReviewOfPapers, NodesReady, [Next]_vars
    PROVE  TypeOfRequests'
<1> USE DEF TypeOK, TypeOfWork, TypeOfServer, TypeOfRequests
<1>1. ASSUME NEW r \in Requests, Post(r) PROVE TypeOfRequests'
    BY <1>1, PostFrame, ResearchSessionAssumption DEF values, server, history
<1>2. ASSUME NEW r \in Requests, CreateRun(r) PROVE TypeOfRequests'
    BY <1>2, ResearchSessionAssumption DEF CreateRun, ActionOf, Offered, AtAttention,
       values, server, history
<1>3. ASSUME NEW r \in Requests, WriteGuidance(r) PROVE TypeOfRequests'
    BY <1>3, ResearchSessionAssumption DEF WriteGuidance, values, server, history,
       Request, Resumes
<1>4. ASSUME Research PROVE TypeOfRequests'
  <2>1. CASE Raised
      BY <2>1 DEF Raised, values, history
  <2>2. CASE thread = "busy" /\ papers = {} /\ report = "none" /\ Came /\ Worked
      BY <2>2, NewHandoff, NoneAssumption DEF Came, Worked, history
  <2> QED
      BY <1>4, <2>1, <2>2, ResearchOutcome
<1>5. ASSUME RemainingResearch PROVE TypeOfRequests'
  <2>1. CASE Raised
      BY <2>1 DEF Raised, values, history
  <2>2. CASE Running("remaining_research") /\ CanContinue /\ Came /\ Worked
      BY <2>2, NewHandoff, NoneAssumption DEF Came, Worked, CanContinue, Running,
         history
  <2> QED
      BY <1>5, <2>1, <2>2, RemainingOutcome
<1>6. ASSUME CaseReview PROVE TypeOfRequests'
  <2>1. CASE Raised
      BY <2>1 DEF Raised, values, history
  <2>2. CASE Running("case_review") /\ Reviewed
      BY <2>2 DEF Reviewed, Running, history
  <2> QED
      BY <1>6, <2>1, <2>2, ReviewOutcome
<1>7. ASSUME Converge PROVE TypeOfRequests'
    BY <1>7, ResearchSessionAssumption DEF Converge, Goto, Running, values, server,
       history
<1>8. ASSUME Fail PROVE TypeOfRequests'
    BY <1>8, ResearchSessionAssumption DEF Fail, Raise, Running, values, server,
       history
<1>9. ASSUME Acknowledge PROVE TypeOfRequests'
    BY <1>9, ResearchSessionAssumption DEF Acknowledge, Resumed, Running, Proceed,
       values, server, history
<1>10. ASSUME Continue PROVE TypeOfRequests'
    BY <1>10, ResearchSessionAssumption DEF Continue, Resumed, Running, Proceed,
       Refused, Raise, values, server, history
<1>11. ASSUME Recover PROVE TypeOfRequests'
    BY <1>11, ResumeFields, ResearchSessionAssumption DEF Recover, Resumed, Running,
       Proceed, Refused, Raise, CanContinue, Failed, AttemptsBelong, values, server,
       history
<1>12. ASSUME ReviewSaved PROVE TypeOfRequests'
    BY <1>12, ResearchSessionAssumption, ResumeFields, NewHandoff, NoneAssumption DEF
       ReviewSaved, Resumed, Running, Proceed, Refused, Raise, values, server, history
<1>13. ASSUME WriteAfterIncomplete PROVE TypeOfRequests'
  <2>1. CASE Raised
      BY <2>1 DEF Raised, values, history
  <2>2. CASE node = "research_attention" /\ Wrote
      BY <2>2, ResearchSessionAssumption DEF Wrote
  <2> QED
      BY <1>13, <2>1, <2>2, DirectionOutcome
<1>14. ASSUME AmendReviewed PROVE TypeOfRequests'
  <2>1. CASE Raised
      BY <2>1 DEF Raised, values, history
  <2>2. CASE node = "research_attention" /\ Wrote
      BY <2>2, ResearchSessionAssumption DEF Wrote
  <2> QED
      BY <1>14, <2>1, <2>2, DirectionOutcome
<1>15. ASSUME UNCHANGED vars PROVE TypeOfRequests'
    BY <1>15 DEF vars, values, server, history
<1> QED
    BY <1>1, <1>2, <1>3, <1>4, <1>5, <1>6, <1>7, <1>8, <1>9, <1>10, <1>11, <1>12,
       <1>13, <1>14, <1>15 DEF Next, Step, Attention

\* Attempts belong to the session.
LEMMA AttemptsKept ==
    ASSUME TypeOK, AttemptsBelong, ReviewOfPapers, NodesReady, [Next]_vars
    PROVE  AttemptsBelong'
<1> USE DEF TypeOK, TypeOfWork, AttemptsBelong, Failed, Unfinished
<1>1. ASSUME NEW r \in Requests, Post(r) PROVE AttemptsBelong'
    BY <1>1, PostFrame, ResearchSessionAssumption DEF values, server, history
<1>2. ASSUME NEW r \in Requests, CreateRun(r) PROVE AttemptsBelong'
    BY <1>2, ResearchSessionAssumption DEF CreateRun, ActionOf, Offered, AtAttention,
       values, server, history
<1>3. ASSUME NEW r \in Requests, WriteGuidance(r) PROVE AttemptsBelong'
    BY <1>3, ResearchSessionAssumption DEF WriteGuidance, values, server, history
<1>4. ASSUME Research PROVE AttemptsBelong'
  <2>1. CASE Raised
      BY <2>1 DEF Raised, values, history
  <2>2. CASE thread = "busy" /\ papers = {} /\ report = "none" /\ Came /\ Worked
      BY <2>2, NewHandoff, NoneAssumption DEF Came, Worked, history
  <2> QED
      BY <1>4, <2>1, <2>2, ResearchOutcome
<1>5. ASSUME RemainingResearch PROVE AttemptsBelong'
  <2>1. CASE Raised
      BY <2>1 DEF Raised, values, history
  <2>2. CASE Running("remaining_research") /\ CanContinue /\ Came /\ Worked
      BY <2>2, NewHandoff, NoneAssumption DEF Came, Worked, CanContinue, Running,
         history
  <2> QED
      BY <1>5, <2>1, <2>2, RemainingOutcome
<1>6. ASSUME CaseReview PROVE AttemptsBelong'
  <2>1. CASE Raised
      BY <2>1 DEF Raised, values, history
  <2>2. CASE Running("case_review") /\ Reviewed
      BY <2>2 DEF Reviewed, Running, history
  <2> QED
      BY <1>6, <2>1, <2>2, ReviewOutcome
<1>7. ASSUME Converge PROVE AttemptsBelong'
    BY <1>7, ResearchSessionAssumption DEF Converge, Goto, Running, values, server,
       history
<1>8. ASSUME Fail PROVE AttemptsBelong'
    BY <1>8, ResearchSessionAssumption DEF Fail, Raise, Running, values, server,
       history
<1>9. ASSUME Acknowledge PROVE AttemptsBelong'
    BY <1>9, ResearchSessionAssumption DEF Acknowledge, Resumed, Running, Proceed,
       values, server, history
<1>10. ASSUME Continue PROVE AttemptsBelong'
    BY <1>10, ResearchSessionAssumption DEF Continue, Resumed, Running, Proceed,
       Refused, Raise, values, server, history
<1>11. ASSUME Recover PROVE AttemptsBelong'
    BY <1>11, ResumeFields, ResearchSessionAssumption DEF Recover, Resumed, Running,
       Proceed, Refused, Raise, CanContinue, Failed, AttemptsBelong, values, server,
       history
<1>12. ASSUME ReviewSaved PROVE AttemptsBelong'
    BY <1>12, ResearchSessionAssumption, ResumeFields, NewHandoff, NoneAssumption DEF
       ReviewSaved, Resumed, Running, Proceed, Refused, Raise, values, server, history
<1>13. ASSUME WriteAfterIncomplete PROVE AttemptsBelong'
  <2>1. CASE Raised
      BY <2>1 DEF Raised, values, history
  <2>2. CASE node = "research_attention" /\ Wrote
      BY <2>2, ResearchSessionAssumption DEF Wrote
  <2> QED
      BY <1>13, <2>1, <2>2, DirectionOutcome
<1>14. ASSUME AmendReviewed PROVE AttemptsBelong'
  <2>1. CASE Raised
      BY <2>1 DEF Raised, values, history
  <2>2. CASE node = "research_attention" /\ Wrote
      BY <2>2, ResearchSessionAssumption DEF Wrote
  <2> QED
      BY <1>14, <2>1, <2>2, DirectionOutcome
<1>15. ASSUME UNCHANGED vars PROVE AttemptsBelong'
    BY <1>15 DEF vars, values, server, history
<1> QED
    BY <1>1, <1>2, <1>3, <1>4, <1>5, <1>6, <1>7, <1>8, <1>9, <1>10, <1>11, <1>12,
       <1>13, <1>14, <1>15 DEF Next, Step, Attention

\* Papers change only where no review is saved.
LEMMA ReviewKept ==
    ASSUME TypeOK, AttemptsBelong, ReviewOfPapers, NodesReady, [Next]_vars
    PROVE  ReviewOfPapers'
<1> USE DEF TypeOK, TypeOfWork, TypeOfServer, ReviewOfPapers, NodesReady
<1>1. ASSUME NEW r \in Requests, Post(r) PROVE ReviewOfPapers'
    BY <1>1, PostFrame, ResearchSessionAssumption DEF values, server, history
<1>2. ASSUME NEW r \in Requests, CreateRun(r) PROVE ReviewOfPapers'
    BY <1>2, ResearchSessionAssumption DEF CreateRun, ActionOf, Offered, AtAttention,
       values, server, history
<1>3. ASSUME NEW r \in Requests, WriteGuidance(r) PROVE ReviewOfPapers'
    BY <1>3, ResearchSessionAssumption DEF WriteGuidance, values, server, history
<1>4. ASSUME Research PROVE ReviewOfPapers'
  <2>1. CASE Raised
      BY <2>1 DEF Raised, values, history
  <2>2. CASE thread = "busy" /\ papers = {} /\ report = "none" /\ Came /\ Worked
      BY <2>2, NewHandoff, NoneAssumption DEF Came, Worked, history
  <2> QED
      BY <1>4, <2>1, <2>2, ResearchOutcome
<1>5. ASSUME RemainingResearch PROVE ReviewOfPapers'
  <2>1. CASE Raised
      BY <2>1 DEF Raised, values, history
  <2>2. CASE Running("remaining_research") /\ CanContinue /\ Came /\ Worked
      BY <2>2, NewHandoff, NoneAssumption DEF Came, Worked, CanContinue, Running,
         history
  <2> QED
      BY <1>5, <2>1, <2>2, RemainingOutcome
<1>6. ASSUME CaseReview PROVE ReviewOfPapers'
  <2>1. CASE Raised
      BY <2>1 DEF Raised, values, history
  <2>2. CASE Running("case_review") /\ Reviewed
      BY <2>2 DEF Reviewed, Running, history, Phases
  <2> QED
      BY <1>6, <2>1, <2>2, ReviewOutcome
<1>7. ASSUME Converge PROVE ReviewOfPapers'
    BY <1>7, ResearchSessionAssumption DEF Converge, Goto, Running, values, server,
       history
<1>8. ASSUME Fail PROVE ReviewOfPapers'
    BY <1>8, ResearchSessionAssumption DEF Fail, Raise, Running, values, server,
       history
<1>9. ASSUME Acknowledge PROVE ReviewOfPapers'
    BY <1>9, ResearchSessionAssumption DEF Acknowledge, Resumed, Running, Proceed,
       values, server, history
<1>10. ASSUME Continue PROVE ReviewOfPapers'
    BY <1>10, ResearchSessionAssumption DEF Continue, Resumed, Running, Proceed,
       Refused, Raise, values, server, history
<1>11. ASSUME Recover PROVE ReviewOfPapers'
    BY <1>11, ResumeFields, ResearchSessionAssumption DEF Recover, Resumed, Running,
       Proceed, Refused, Raise, CanContinue, Failed, AttemptsBelong, values, server,
       history
<1>12. ASSUME ReviewSaved PROVE ReviewOfPapers'
    BY <1>12, ResearchSessionAssumption, ResumeFields, NewHandoff, NoneAssumption DEF
       ReviewSaved, Resumed, Running, Proceed, Refused, Raise, values, server, history
<1>13. ASSUME WriteAfterIncomplete PROVE ReviewOfPapers'
  <2>1. CASE Raised
      BY <2>1 DEF Raised, values, history
  <2>2. CASE node = "research_attention" /\ Wrote
      BY <2>2, ResearchSessionAssumption DEF Wrote
  <2> QED
      BY <1>13, <2>1, <2>2, DirectionOutcome
<1>14. ASSUME AmendReviewed PROVE ReviewOfPapers'
  <2>1. CASE Raised
      BY <2>1 DEF Raised, values, history
  <2>2. CASE node = "research_attention" /\ Wrote
      BY <2>2, ResearchSessionAssumption DEF Wrote
  <2> QED
      BY <1>14, <2>1, <2>2, DirectionOutcome
<1>15. ASSUME UNCHANGED vars PROVE ReviewOfPapers'
    BY <1>15 DEF vars, values, server, history
<1> QED
    BY <1>1, <1>2, <1>3, <1>4, <1>5, <1>6, <1>7, <1>8, <1>9, <1>10, <1>11, <1>12,
       <1>13, <1>14, <1>15 DEF Next, Step, Attention

\* Every route to a node brings what it needs.
LEMMA NodesKept ==
    ASSUME TypeOK, AttemptsBelong, ReviewOfPapers, NodesReady, [Next]_vars
    PROVE  NodesReady'
<1> USE DEF TypeOK, TypeOfWork, TypeOfServer, ReviewOfPapers, NodesReady
<1>1. ASSUME NEW r \in Requests, Post(r) PROVE NodesReady'
    BY <1>1, PostFrame, ResearchSessionAssumption DEF values, server, history
<1>2. ASSUME NEW r \in Requests, CreateRun(r) PROVE NodesReady'
    BY <1>2, ResearchSessionAssumption DEF CreateRun, ActionOf, Offered, AtAttention,
       values, server, history
<1>3. ASSUME NEW r \in Requests, WriteGuidance(r) PROVE NodesReady'
    BY <1>3, ResearchSessionAssumption DEF WriteGuidance, values, server, history
<1>4. ASSUME Research PROVE NodesReady'
  <2>1. CASE Raised
      BY <2>1 DEF Raised, values, history
  <2>2. CASE thread = "busy" /\ papers = {} /\ report = "none" /\ Came /\ Worked
      BY <2>2, NewHandoff, NoneAssumption DEF Came, Worked, history
  <2> QED
      BY <1>4, <2>1, <2>2, ResearchOutcome
<1>5. ASSUME RemainingResearch PROVE NodesReady'
  <2>1. CASE Raised
      BY <2>1 DEF Raised, values, history
  <2>2. CASE Running("remaining_research") /\ CanContinue /\ Came /\ Worked
      BY <2>2, NewHandoff, NoneAssumption DEF Came, Worked, CanContinue, Running,
         history
  <2> QED
      BY <1>5, <2>1, <2>2, RemainingOutcome
<1>6. ASSUME CaseReview PROVE NodesReady'
  <2>1. CASE Raised
      BY <2>1 DEF Raised, values, history
  <2>2. CASE Running("case_review") /\ Reviewed
      BY <2>2 DEF Reviewed, Running, history
  <2> QED
      BY <1>6, <2>1, <2>2, ReviewOutcome
<1>7. ASSUME Converge PROVE NodesReady'
    BY <1>7, ResearchSessionAssumption DEF Converge, Goto, Running, values, server,
       history
<1>8. ASSUME Fail PROVE NodesReady'
    BY <1>8, ResearchSessionAssumption DEF Fail, Raise, Running, values, server,
       history
<1>9. ASSUME Acknowledge PROVE NodesReady'
    BY <1>9, ResearchSessionAssumption DEF Acknowledge, Resumed, Running, Proceed,
       values, server, history
<1>10. ASSUME Continue PROVE NodesReady'
    BY <1>10, ResearchSessionAssumption DEF Continue, Resumed, Running, Proceed,
       Refused, Raise, values, server, history, CanContinue
<1>11. ASSUME Recover PROVE NodesReady'
    BY <1>11, ResumeFields, ResearchSessionAssumption DEF Recover, Resumed, Running,
       Proceed, Refused, Raise, CanContinue, Failed, AttemptsBelong, values, server,
       history
<1>12. ASSUME ReviewSaved PROVE NodesReady'
    BY <1>12, ResearchSessionAssumption, ResumeFields, NewHandoff, NoneAssumption DEF
       ReviewSaved, Resumed, Running, Proceed, Refused, Raise, values, server, history
<1>13. ASSUME WriteAfterIncomplete PROVE NodesReady'
  <2>1. CASE Raised
      BY <2>1 DEF Raised, values, history
  <2>2. CASE node = "research_attention" /\ Wrote
      BY <2>2, ResearchSessionAssumption DEF Wrote
  <2> QED
      BY <1>13, <2>1, <2>2, DirectionOutcome
<1>14. ASSUME AmendReviewed PROVE NodesReady'
  <2>1. CASE Raised
      BY <2>1 DEF Raised, values, history
  <2>2. CASE node = "research_attention" /\ Wrote
      BY <2>2, ResearchSessionAssumption DEF Wrote
  <2> QED
      BY <1>14, <2>1, <2>2, DirectionOutcome
<1>15. ASSUME UNCHANGED vars PROVE NodesReady'
    BY <1>15 DEF vars, values, server, history
<1> QED
    BY <1>1, <1>2, <1>3, <1>4, <1>5, <1>6, <1>7, <1>8, <1>9, <1>10, <1>11, <1>12,
       <1>13, <1>14, <1>15 DEF Next, Step, Attention

\* What converges stands on a review.
LEMMA StandsKept ==
    ASSUME TypeOK, AttemptsBelong, ReviewOfPapers, NodesReady, ReportStandsOnReview, [Next]_vars
    PROVE  ReportStandsOnReview'
<1> USE DEF TypeOK, TypeOfWork, TypeOfServer, ReviewOfPapers, NodesReady,
          ReportStandsOnReview, Incomplete, Complete
<1>1. ASSUME NEW r \in Requests, Post(r) PROVE ReportStandsOnReview'
    BY <1>1, PostFrame, ResearchSessionAssumption DEF values, server, history
<1>2. ASSUME NEW r \in Requests, CreateRun(r) PROVE ReportStandsOnReview'
    BY <1>2, ResearchSessionAssumption DEF CreateRun, ActionOf, Offered, AtAttention,
       values, server, history
<1>3. ASSUME NEW r \in Requests, WriteGuidance(r) PROVE ReportStandsOnReview'
    BY <1>3, ResearchSessionAssumption DEF WriteGuidance, values, server, history
<1>4. ASSUME Research PROVE ReportStandsOnReview'
  <2>1. CASE Raised
      BY <2>1 DEF Raised, values, history
  <2>2. CASE thread = "busy" /\ papers = {} /\ report = "none" /\ Came /\ Worked
      BY <2>2, NewHandoff, NoneAssumption DEF Came, Worked, history, Complete
  <2> QED
      BY <1>4, <2>1, <2>2, ResearchOutcome
<1>5. ASSUME RemainingResearch PROVE ReportStandsOnReview'
  <2>1. CASE Raised
      BY <2>1 DEF Raised, values, history
  <2>2. CASE Running("remaining_research") /\ CanContinue /\ Came /\ Worked
      BY <2>2, NewHandoff, NoneAssumption DEF Came, Worked, CanContinue, Running,
         history
  <2> QED
      BY <1>5, <2>1, <2>2, RemainingOutcome
<1>6. ASSUME CaseReview PROVE ReportStandsOnReview'
  <2>1. CASE Raised
      BY <2>1 DEF Raised, values, history
  <2>2. CASE Running("case_review") /\ Reviewed
    <3>1. node' # "convergence" => report' # "converged"
        BY <2>2 DEF Reviewed, Running
    <3>2. CASE node' = "convergence"
      <4>1. /\ review' # None /\ review'.papers = papers' /\ handoff' # None
            /\ Complete(review') /\ (review'.material => feedback')
          BY <2>2, <3>2, NoneAssumption DEF Reviewed, Running
      <4> QED
          BY <4>1
    <3> QED
        BY <2>2, <3>1, <3>2 DEF Reviewed
  <2> QED
      BY <1>6, <2>1, <2>2, ReviewOutcome
<1>7. ASSUME Converge PROVE ReportStandsOnReview'
    BY <1>7, ResearchSessionAssumption DEF Converge, Goto, Running, values, server,
       history
<1>8. ASSUME Fail PROVE ReportStandsOnReview'
    BY <1>8, ResearchSessionAssumption DEF Fail, Raise, Running, values, server,
       history
<1>9. ASSUME Acknowledge PROVE ReportStandsOnReview'
    BY <1>9, ResearchSessionAssumption DEF Acknowledge, Resumed, Running, Proceed,
       values, server, history
<1>10. ASSUME Continue PROVE ReportStandsOnReview'
    BY <1>10, ResearchSessionAssumption DEF Continue, Resumed, Running, Proceed,
       Refused, Raise, values, server, history
<1>11. ASSUME Recover PROVE ReportStandsOnReview'
    BY <1>11, ResumeFields, ResearchSessionAssumption DEF Recover, Resumed, Running,
       Proceed, Refused, Raise, CanContinue, Failed, AttemptsBelong, values, server,
       history
<1>12. ASSUME ReviewSaved PROVE ReportStandsOnReview'
    BY <1>12, ResearchSessionAssumption, ResumeFields, NewHandoff, NoneAssumption DEF
       ReviewSaved, Resumed, Running, Proceed, Refused, Raise, values, server, history
<1>13. ASSUME WriteAfterIncomplete PROVE ReportStandsOnReview'
  <2>1. CASE Raised
      BY <2>1 DEF Raised, values, history
  <2>2. CASE node = "research_attention" /\ Wrote
      BY <2>2, ResearchSessionAssumption DEF Wrote
  <2> QED
      BY <1>13, <2>1, <2>2, DirectionOutcome
<1>14. ASSUME AmendReviewed PROVE ReportStandsOnReview'
  <2>1. CASE Raised
      BY <2>1 DEF Raised, values, history
  <2>2. CASE node = "research_attention" /\ Wrote
      BY <2>2, ResearchSessionAssumption DEF Wrote
  <2> QED
      BY <1>14, <2>1, <2>2, DirectionOutcome
<1>15. ASSUME UNCHANGED vars PROVE ReportStandsOnReview'
    BY <1>15 DEF vars, values, server, history
<1> QED
    BY <1>1, <1>2, <1>3, <1>4, <1>5, <1>6, <1>7, <1>8, <1>9, <1>10, <1>11, <1>12,
       <1>13, <1>14, <1>15 DEF Next, Step, Attention

\* Directions are for the review they were given on.
LEMMA DirectedKept ==
    ASSUME TypeOK, AttemptsBelong, ReviewOfPapers, NodesReady, IncompleteIsDirected, [Next]_vars
    PROVE  IncompleteIsDirected'
<1> USE DEF TypeOK, TypeOfWork, TypeOfServer, ReviewOfPapers, NodesReady,
          IncompleteIsDirected, Incomplete
<1>1. ASSUME NEW r \in Requests, Post(r) PROVE IncompleteIsDirected'
    BY <1>1, PostFrame, ResearchSessionAssumption DEF values, server, history
<1>2. ASSUME NEW r \in Requests, CreateRun(r) PROVE IncompleteIsDirected'
    BY <1>2, ResearchSessionAssumption DEF CreateRun, ActionOf, Offered, AtAttention,
       values, server, history
<1>3. ASSUME NEW r \in Requests, WriteGuidance(r) PROVE IncompleteIsDirected'
    BY <1>3, ResearchSessionAssumption DEF WriteGuidance, values, server, history
<1>4. ASSUME Research PROVE IncompleteIsDirected'
  <2>1. CASE Raised
      BY <2>1 DEF Raised, values, history
  <2>2. CASE thread = "busy" /\ papers = {} /\ report = "none" /\ Came /\ Worked
      BY <2>2, NewHandoff, NoneAssumption DEF Came, Worked, history
  <2> QED
      BY <1>4, <2>1, <2>2, ResearchOutcome
<1>5. ASSUME RemainingResearch PROVE IncompleteIsDirected'
  <2>1. CASE Raised
      BY <2>1 DEF Raised, values, history
  <2>2. CASE Running("remaining_research") /\ CanContinue /\ Came /\ Worked
      BY <2>2, NewHandoff, NoneAssumption DEF Came, Worked, CanContinue, Running,
         history
  <2> QED
      BY <1>5, <2>1, <2>2, RemainingOutcome
<1>6. ASSUME CaseReview PROVE IncompleteIsDirected'
  <2>1. CASE Raised
      BY <2>1 DEF Raised, values, history
  <2>2. CASE Running("case_review") /\ Reviewed
      BY <2>2 DEF Reviewed, Running, history, Phases
  <2> QED
      BY <1>6, <2>1, <2>2, ReviewOutcome
<1>7. ASSUME Converge PROVE IncompleteIsDirected'
    BY <1>7, ResearchSessionAssumption DEF Converge, Goto, Running, values, server,
       history
<1>8. ASSUME Fail PROVE IncompleteIsDirected'
    BY <1>8, ResearchSessionAssumption DEF Fail, Raise, Running, values, server,
       history
<1>9. ASSUME Acknowledge PROVE IncompleteIsDirected'
    BY <1>9, ResearchSessionAssumption DEF Acknowledge, Resumed, Running, Proceed,
       values, server, history
<1>10. ASSUME Continue PROVE IncompleteIsDirected'
    BY <1>10, ResearchSessionAssumption DEF Continue, Resumed, Running, Proceed,
       Refused, Raise, values, server, history
<1>11. ASSUME Recover PROVE IncompleteIsDirected'
    BY <1>11, ResumeFields, ResearchSessionAssumption DEF Recover, Resumed, Running,
       Proceed, Refused, Raise, CanContinue, Failed, AttemptsBelong, values, server,
       history
<1>12. ASSUME ReviewSaved PROVE IncompleteIsDirected'
    BY <1>12, ResearchSessionAssumption, ResumeFields, NewHandoff, NoneAssumption DEF
       ReviewSaved, Resumed, Running, Proceed, Refused, Raise, values, server, history
<1>13. ASSUME WriteAfterIncomplete PROVE IncompleteIsDirected'
  <2>1. CASE Raised
      BY <2>1 DEF Raised, values, history
  <2>2. CASE node = "research_attention" /\ Wrote
      BY <2>2, ResearchSessionAssumption DEF Wrote
  <2> QED
      BY <1>13, <2>1, <2>2, DirectionOutcome
<1>14. ASSUME AmendReviewed PROVE IncompleteIsDirected'
  <2>1. CASE Raised
      BY <2>1 DEF Raised, values, history
  <2>2. CASE node = "research_attention" /\ Wrote
      BY <2>2, ResearchSessionAssumption DEF Wrote
  <2> QED
      BY <1>14, <2>1, <2>2, DirectionOutcome
<1>15. ASSUME UNCHANGED vars PROVE IncompleteIsDirected'
    BY <1>15 DEF vars, values, server, history
<1> QED
    BY <1>1, <1>2, <1>3, <1>4, <1>5, <1>6, <1>7, <1>8, <1>9, <1>10, <1>11, <1>12,
       <1>13, <1>14, <1>15 DEF Next, Step, Attention

\* What KeepsWork asks of a step.
Kept ==
    /\ papers \subseteq papers'
    /\ Failed \subseteq {t \in Tasks : failed'[t] # None}
    /\ \A t \in papers : failed'[t] = failed[t]
    /\ edits <= edits'
    /\ report # "none" => report' = report /\ papers' = papers

\* Every step keeps saved work.
LEMMA StepKeeps ==
    ASSUME TypeOK, AttemptsBelong, ReviewOfPapers, NodesReady, [Next]_vars
    PROVE  Kept
<1> USE DEF TypeOK, TypeOfWork, TypeOfServer, AttemptsBelong, NodesReady, Kept, Failed,
          Unfinished
<1>1. ASSUME NEW r \in Requests, Post(r) PROVE Kept
    BY <1>1, PostFrame, ResearchSessionAssumption DEF values, server, history
<1>2. ASSUME NEW r \in Requests, CreateRun(r) PROVE Kept
    BY <1>2, ResearchSessionAssumption DEF CreateRun, ActionOf, Offered, AtAttention,
       values, server, history
<1>3. ASSUME NEW r \in Requests, WriteGuidance(r) PROVE Kept
    BY <1>3, ResearchSessionAssumption DEF WriteGuidance, values, server, history
<1>4. ASSUME Research PROVE Kept
  <2>1. CASE Raised
      BY <2>1 DEF Raised, values, history
  <2>2. CASE thread = "busy" /\ papers = {} /\ report = "none" /\ Came /\ Worked
      BY <2>2, NewHandoff, NoneAssumption DEF Came, Worked, history
  <2> QED
      BY <1>4, <2>1, <2>2, ResearchOutcome
<1>5. ASSUME RemainingResearch PROVE Kept
  <2>1. CASE Raised
      BY <2>1 DEF Raised, values, history
  <2>2. CASE Running("remaining_research") /\ CanContinue /\ Came /\ Worked
      BY <2>2, NewHandoff, NoneAssumption DEF Came, Worked, CanContinue, Running,
         history
  <2> QED
      BY <1>5, <2>1, <2>2, RemainingOutcome
<1>6. ASSUME CaseReview PROVE Kept
  <2>1. CASE Raised
      BY <2>1 DEF Raised, values, history
  <2>2. CASE Running("case_review") /\ Reviewed
      BY <2>2 DEF Reviewed, Running, history
  <2> QED
      BY <1>6, <2>1, <2>2, ReviewOutcome
<1>7. ASSUME Converge PROVE Kept
    BY <1>7, ResearchSessionAssumption DEF Converge, Goto, Running, values, server,
       history
<1>8. ASSUME Fail PROVE Kept
    BY <1>8, ResearchSessionAssumption DEF Fail, Raise, Running, values, server,
       history
<1>9. ASSUME Acknowledge PROVE Kept
    BY <1>9, ResearchSessionAssumption DEF Acknowledge, Resumed, Running, Proceed,
       values, server, history
<1>10. ASSUME Continue PROVE Kept
    BY <1>10, ResearchSessionAssumption DEF Continue, Resumed, Running, Proceed,
       Refused, Raise, values, server, history
<1>11. ASSUME Recover PROVE Kept
    BY <1>11, ResumeFields, ResearchSessionAssumption DEF Recover, Resumed, Running,
       Proceed, Refused, Raise, CanContinue, Failed, AttemptsBelong, values, server,
       history
<1>12. ASSUME ReviewSaved PROVE Kept
    BY <1>12, ResearchSessionAssumption, ResumeFields, NewHandoff, NoneAssumption DEF
       ReviewSaved, Resumed, Running, Proceed, Refused, Raise, values, server, history
<1>13. ASSUME WriteAfterIncomplete PROVE Kept
  <2>1. CASE Raised
      BY <2>1 DEF Raised, values, history
  <2>2. CASE node = "research_attention" /\ Wrote
      BY <2>2, ResearchSessionAssumption DEF Wrote
  <2> QED
      BY <1>13, <2>1, <2>2, DirectionOutcome
<1>14. ASSUME AmendReviewed PROVE Kept
  <2>1. CASE Raised
      BY <2>1 DEF Raised, values, history
  <2>2. CASE node = "research_attention" /\ Wrote
      BY <2>2, ResearchSessionAssumption DEF Wrote
  <2> QED
      BY <1>14, <2>1, <2>2, DirectionOutcome
<1>15. ASSUME UNCHANGED vars PROVE Kept
    BY <1>15 DEF vars, values, server, history
<1> QED
    BY <1>1, <1>2, <1>3, <1>4, <1>5, <1>6, <1>7, <1>8, <1>9, <1>10, <1>11, <1>12,
       <1>13, <1>14, <1>15 DEF Next, Step, Attention

THEOREM SessionInvariant == Spec => []SessionInv
<1>1. SessionInv /\ [Next]_vars => SessionInv'
    BY WorkTyped, ServerTyped, RequestsTyped, AttemptsKept, ReviewKept, NodesKept, StandsKept,
       DirectedKept DEF SessionInv, TypeOK
<1> QED
    BY InitHolds, <1>1, PTL DEF Spec

\* Types, for every instance.
THEOREM SessionTypes == Spec => []TypeOK
<1>1. SessionInv => TypeOK
    BY DEF SessionInv
<1> QED
    BY SessionInvariant, <1>1, PTL

\* No report without a review of exactly its papers, a direction, or a focused
\* plan (after_research, review_node, attention), whatever requests come when.
THEOREM ReportsReviewed == Spec => []ReportStandsOnReview
<1>1. SessionInv => ReportStandsOnReview
    BY DEF SessionInv
<1> QED
    BY SessionInvariant, <1>1, PTL

\* An incomplete review is written up only as a human directed for it
\* (write_after_incomplete_review, amend_reviewed_workpapers).
THEOREM DirectionsApply == Spec => []IncompleteIsDirected
<1>1. SessionInv => IncompleteIsDirected
    BY DEF SessionInv
<1> QED
    BY SessionInvariant, <1>1, PTL

\* No request or run loses saved work (run_research, recover_workpaper).
THEOREM WorkKept == Spec => KeepsWork
<1>1. SessionInv /\ [Next]_vars => [Kept]_vars
    BY StepKeeps DEF SessionInv
<1>2. Kept => [Kept]_vars
    OBVIOUS
<1> QED
    BY SessionInvariant, <1>1, PTL DEF Spec, KeepsWork, Kept
=============================================================================
