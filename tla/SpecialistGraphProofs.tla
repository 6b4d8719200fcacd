------------------------ MODULE SpecialistGraphProofs ------------------------
(***************************************************************************)
(* Proofs about SpecialistGraph for any requests, ceilings, batches and    *)
(* runs.  Each step of a worker either leaves the notebook as it is or     *)
(* sends one request that is new to it, and a call that ends the work is   *)
(* alone in its response, so what the model knew is what was observed.     *)
(* What a checkpoint holds has the same properties, so that a raise, which *)
(* falls back to it, and the restart after it keep them.                   *)
(* Each step also spends some of what a run may still do.                  *)
(***************************************************************************)
EXTENDS SpecialistGraph, FiniteSetTheorems, TLAPS

\* What a step may do to the notebook: nothing, one call of a port or reader, or the
\* fall back to the checkpoint.
Kept == UNCHANGED <<dispatched, observed, madeIn, sent, lost>>
Sent(q) ==
    /\ lost' = lost
    /\ Cardinality(dispatched) < maxTools
    /\ dispatched' = dispatched \cup {q} /\ sent' = [sent EXCEPT ![q] = @ + 1]
ReadSent ==
    \E r \in Reads, what \in {"success", "failed"} :
        /\ r \notin dispatched /\ Sent(r)
        /\ observed' = [observed EXCEPT ![r] = what] /\ madeIn' = [madeIn EXCEPT ![r] = runs]
MethodSent ==
    \E m \in Methods : m \notin dispatched /\ Sent(m) /\ UNCHANGED <<observed, madeIn>>
NoteSent == \E n \in Notes : Sent(n) /\ UNCHANGED <<observed, madeIn>>

\* What was observed was sent, in a run whose turns can be found.
ObservedSent ==
    \A r \in Reads : observed[r] # None =>
        r \in dispatched /\ madeIn[r] \in archived \cup {runs}

\* The model was shown nothing that is no success, and a call that ends the work
\* is alone, with nothing observed since the model answered.
NoTerminal(calls) == \A n \in 1..Len(calls) : calls[n].kind \notin Terminal
AtTools == node = "tools" \/ (node = "raised" /\ saved.node = "tools")
ShownSucceeded ==
    /\ known \subseteq Succeeded
    /\ AtTools /\ ~mixed => NoTerminal(batch) \/ (Len(batch) = 1 /\ known = Succeeded)

\* Where a workpaper, a hand-over and a reason can be found.
Placed ==
    /\ final # {} => node \in {"tools", "end"}
    /\ handoff # None => node = "end"
    /\ phase = "human_review_required" => trigger # None

\* What holds of the state holds of the checkpoint, which is the one the node that
\* runs, or raised, began with.
SavedSuccess == {r \in Reads : saved.observed[r] = "success"}
CheckpointFits ==
    /\ saved.dispatched \subseteq dispatched
    /\ node \in {"model_decide", "tools"} => saved.node = node
    /\ node = "raised" => saved.node \in {"model_decide", "tools"}
    /\ \A r \in Reads : saved.observed[r] # None =>
           r \in saved.dispatched /\ saved.madeIn[r] \in archived \cup {runs}
    /\ known \subseteq SavedSuccess
    /\ saved.node = "tools" /\ ~mixed =>
           NoTerminal(saved.batch) \/ (Len(saved.batch) = 1 /\ known = SavedSuccess)
    /\ saved.phase = "human_review_required" => saved.trigger # None

SpecialistInv ==
    /\ TypeOK /\ ObservedSent /\ RepeatsOnlyWhatWasLost /\ WithinAllowance
    /\ ShownSucceeded /\ SeenBeforeCited /\ Placed /\ EndsWithReason /\ CheckpointFits

-----------------------------------------------------------------------------
LEMMA Constants ==
    /\ MaxTurns \in Nat \ {0} /\ MaxTools \in Nat \ {0} /\ MaxBatch \in Nat \ {0}
    /\ MaxRuns \in Nat \ {0}
    /\ IsFiniteSet(Requests) /\ None \notin Triggers /\ None \notin {"success", "failed"}
    /\ Reads \cap Methods = {} /\ Reads \cap Notes = {} /\ Methods \cap Notes = {}
BY SpecialistAssumption

\* A call is of one kind, and names a request of that kind.
LEMMA CallKinds ==
    ASSUME NEW call \in Calls
    PROVE  /\ call.kind = "read" => call.of \in Reads
           /\ call.kind = "method" => call.of \in Methods
           /\ call.kind = "note" => call.of \in Notes
           /\ call.kind \in {"submit", "revise"} => call.cites \subseteq Reads
BY DEF Calls

\* The first call of what is left of a response, and the rest.
LEMMA BatchHead ==
    ASSUME batch \in Seq(Calls), Len(batch) <= MaxBatch, batch # <<>>
    PROVE  /\ Head(batch) \in Calls /\ Head(batch) = batch[1] /\ Len(batch) >= 1
           /\ Tail(batch) \in Seq(Calls) /\ Len(Tail(batch)) = Len(batch) - 1
           /\ \A n \in 1..Len(Tail(batch)) : n + 1 \in 1..Len(batch) /\ Tail(batch)[n] = batch[n + 1]
<1>1. Len(batch) \in Nat /\ Len(batch) >= 1
    OBVIOUS
<1> QED
    BY <1>1

LEMMA FiniteDispatched ==
    ASSUME TypeOK
    PROVE  IsFiniteSet(dispatched) /\ Cardinality(dispatched) \in Nat
BY Constants, FS_Subset, FS_CardinalityType DEF TypeOK

-----------------------------------------------------------------------------
LEMMA ReadSteps == TypeOK /\ ReadCall => Kept \/ ReadSent
<1> SUFFICES ASSUME TypeOK, ReadCall PROVE Kept \/ ReadSent
    OBVIOUS
<1> DEFINE r == Head(batch).of
<1>1. batch \in Seq(Calls) /\ Len(batch) <= MaxBatch /\ batch # <<>> /\ Head(batch).kind = "read"
    BY DEF TypeOK, ReadCall, Next1
<1>2. Head(batch) \in Calls
    BY <1>1, BatchHead
<1>3. r \in Reads
    BY <1>1, <1>2, CallKinds
<1>4. CASE (native /\ SavedRead(r)) \/ Spent \/ Duplicate(r)
    BY <1>4 DEF ReadCall, Ceiling, Answer, Untouched, Kept
<1>5. CASE ~(native /\ SavedRead(r)) /\ ~Spent /\ ~Duplicate(r)
    <2>1. dispatched' = dispatched \cup {r} /\ sent' = [sent EXCEPT ![r] = @ + 1]
              /\ madeIn' = [madeIn EXCEPT ![r] = runs] /\ lost' = lost
        BY <1>5 DEF ReadCall, Answer
    <2>2. observed' = [observed EXCEPT ![r] = "success"] \/ observed' = [observed EXCEPT ![r] = "failed"]
        BY <1>5 DEF ReadCall
    <2>3. r \notin dispatched /\ Cardinality(dispatched) < maxTools
        BY <1>5, FiniteDispatched DEF Spent, Duplicate, TypeOK
    <2> QED
        BY <2>1, <2>2, <2>3, <1>3 DEF ReadSent, Sent
<1> QED
    BY <1>4, <1>5

LEMMA MethodSteps == TypeOK /\ MethodCall => Kept \/ MethodSent
<1> SUFFICES ASSUME TypeOK, MethodCall PROVE Kept \/ MethodSent
    OBVIOUS
<1> DEFINE m == Head(batch).of
<1>1. batch \in Seq(Calls) /\ Len(batch) <= MaxBatch /\ batch # <<>> /\ Head(batch).kind = "method"
    BY DEF TypeOK, MethodCall, Next1
<1>2. Head(batch) \in Calls
    BY <1>1, BatchHead
<1>3. m \in Methods
    BY <1>1, <1>2, CallKinds
<1>4. CASE Spent \/ Duplicate(m)
    BY <1>4 DEF MethodCall, Ceiling, Answer, Kept
<1>5. CASE ~Spent /\ ~Duplicate(m)
    <2>1. m \notin dispatched /\ Cardinality(dispatched) < maxTools
        BY <1>5, FiniteDispatched DEF Spent, Duplicate, TypeOK
    <2>2. /\ dispatched' = dispatched \cup {m} /\ sent' = [sent EXCEPT ![m] = @ + 1]
          /\ UNCHANGED <<observed, madeIn, lost>>
        BY <1>5 DEF MethodCall, Answer
    <2> QED
        BY <2>1, <2>2, <1>3 DEF MethodSent, Sent
<1> QED
    BY <1>4, <1>5

LEMMA NoteSteps == TypeOK /\ NoteCall => Kept \/ NoteSent
<1> SUFFICES ASSUME TypeOK, NoteCall PROVE Kept \/ NoteSent
    OBVIOUS
<1> DEFINE n == Head(batch).of
<1>1. batch \in Seq(Calls) /\ Len(batch) <= MaxBatch /\ batch # <<>> /\ Head(batch).kind = "note"
    BY DEF TypeOK, NoteCall, Next1
<1>2. Head(batch) \in Calls
    BY <1>1, BatchHead
<1>3. n \in Notes
    BY <1>1, <1>2, CallKinds
<1>4. CASE Spent
    BY <1>4 DEF NoteCall, Answer, Kept
<1>5. CASE ~Spent
    <2>1. Cardinality(dispatched) < maxTools
        BY <1>5, FiniteDispatched DEF Spent, TypeOK
    <2>2. /\ dispatched' = dispatched \cup {n} /\ sent' = [sent EXCEPT ![n] = @ + 1]
          /\ UNCHANGED <<observed, madeIn, lost>>
        BY <1>5 DEF NoteCall, Answer
    <2> QED
        BY <2>1, <2>2, <1>3 DEF NoteSent, Sent
<1> QED
    BY <1>4, <1>5

LEMMA NotebookSteps ==
    ASSUME TypeOK, Next
    PROVE  Kept \/ ReadSent \/ MethodSent \/ NoteSent \/ Raise
<1>1. CASE GiveUp
    BY <1>1 DEF GiveUp, notebook, allowance, outcome, history, Kept
<1>2. CASE DecideBatch
    BY <1>2 DEF DecideBatch, Turn, allowance, outcome, history, Kept
<1>3. CASE DecideSingle
    BY <1>3 DEF DecideSingle, Turn, allowance, outcome, history, Kept
<1>4. CASE ReadCall
    BY <1>4, ReadSteps
<1>5. CASE MethodCall
    BY <1>5, MethodSteps
<1>6. CASE NoteCall
    BY <1>6, NoteSteps
<1>7. CASE SubmitCall
    BY <1>7 DEF SubmitCall, Next1, Answer, Validate, Untouched, allowance, Kept
<1>8. CASE BrokenCall
    BY <1>8 DEF BrokenCall, Next1, Answer, Reject, Untouched, allowance, Kept
<1>9. CASE ReviseCall
    BY <1>9 DEF ReviseCall, Next1, Answer, Validate, Reject, Untouched, allowance, Kept
<1>10. CASE InvalidCall
    BY <1>10 DEF InvalidCall, Next1, Answer, Reject, Untouched, allowance, Kept
<1>11. CASE HandoffCall
    BY <1>11 DEF HandoffCall, Next1, Answer, allowance, Kept
<1>12. CASE MixedCall
    BY <1>12 DEF MixedCall, Next1, Answer, Reject, Untouched, allowance, Kept
<1>13. CASE Route
    BY <1>13 DEF Route, notebook, allowance, outcome, history, Kept
<1>14. CASE HumanReview
    BY <1>14 DEF HumanReview, notebook, allowance, history, Kept
<1>15. CASE Restart
    BY <1>15 DEF Restart, notebook, allowance, outcome, Kept
<1>16. CASE Recover
    BY <1>16 DEF Recover, RecoveredAllowance, notebook, history, Kept
<1>17. CASE Raise
    BY <1>17
<1> QED
    BY <1>1, <1>2, <1>3, <1>4, <1>5, <1>6, <1>7, <1>8, <1>9, <1>10, <1>11, <1>12, <1>13, <1>14, <1>15, <1>16, <1>17 DEF Next, Serve

-----------------------------------------------------------------------------
(* Types.                                                                  *)

LEMMA NotebookTyped ==
    ASSUME TypeOK, Kept \/ ReadSent \/ MethodSent \/ NoteSent \/ Raise
    PROVE  /\ dispatched' \subseteq Requests /\ observed' \in [Reads -> {None, "success", "failed"}]
           /\ madeIn' \in [Reads -> 0..MaxRuns]
           /\ sent' \in [Requests -> Nat] /\ lost' \in [Requests -> Nat]
<1>1. CASE Kept
    BY <1>1 DEF TypeOK, Kept
<1>2. CASE ReadSent
    BY <1>2, Constants DEF TypeOK, ReadSent, Sent, Requests
<1>3. CASE MethodSent
    BY <1>3 DEF TypeOK, MethodSent, Sent, Requests
<1>4. CASE NoteSent
    BY <1>4 DEF TypeOK, NoteSent, Sent, Requests
<1>5. CASE Raise
    BY <1>5 DEF TypeOK, Raise, Checkpoints
<1> QED
    BY <1>1, <1>2, <1>3, <1>4, <1>5

LEMMA BatchTyped ==
    ASSUME TypeOK, Next
    PROVE  batch' \in Seq(Calls) /\ Len(batch') <= MaxBatch
<1>1. batch \in Seq(Calls) /\ Len(batch) <= MaxBatch
    BY DEF TypeOK
<1>2. CASE DecideBatch
    <2>1. batch' \in Batches
        BY <1>2 DEF DecideBatch
    <2>2. PICK n \in 1..MaxBatch : batch' \in [1..n -> Calls]
        BY <2>1 DEF Batches
    <2> QED
        BY <2>2, Constants
<1>3. CASE DecideSingle
    <2>1. \/ batch' = batch \/ \E call \in Calls : batch' = <<call>>
        BY <1>3 DEF DecideSingle
    <2>2. ASSUME NEW call \in Calls, batch' = <<call>>
          PROVE  batch' \in Seq(Calls) /\ Len(batch') = 1
        BY <2>2
    <2>3. 1 <= MaxBatch
        BY Constants
    <2>4. CASE batch' = batch
        BY <2>4, <1>1
    <2>5. CASE \E call \in Calls : batch' = <<call>>
        BY <2>5, <2>2, <2>3
    <2> QED
        BY <2>1, <2>4, <2>5
<1>4. CASE Serve
    <2>1. batch # <<>> /\ batch' = Tail(batch)
        BY <1>4 DEF Serve, ReadCall, MethodCall, NoteCall, SubmitCall, BrokenCall, ReviseCall,
           InvalidCall, HandoffCall, MixedCall, Next1, Answer, Reject, Ceiling, Validate
    <2> QED
        BY <2>1, <1>1, BatchHead, Constants
<1>5. CASE GiveUp \/ Route \/ HumanReview \/ Restart \/ Recover
    BY <1>5, <1>1 DEF GiveUp, Route, HumanReview, Restart, Recover
<1>6. CASE Raise
    BY <1>6 DEF Raise, TypeOK, Checkpoints
<1> QED
    BY <1>2, <1>3, <1>4, <1>5, <1>6 DEF Next

LEMMA AllowanceTyped ==
    ASSUME TypeOK, Next
    PROVE  /\ turns' \in Nat /\ maxTurns' \in Nat /\ maxTools' \in Nat
           /\ runs' \in 1..MaxRuns /\ archived' \subseteq 1..MaxRuns /\ known' \subseteq Reads
<1>1. CASE DecideBatch \/ DecideSingle
    <2>1. Turn
        BY <1>1 DEF DecideBatch, DecideSingle
    <2>2. turns' = turns + 1 /\ known' = Succeeded /\ UNCHANGED allowance
        BY <2>1 DEF Turn
    <2> QED
        BY <2>2 DEF TypeOK, allowance, Succeeded
<1>2. CASE Recover
    BY <1>2, Constants, FiniteDispatched DEF Recover, RecoveredAllowance, TypeOK, notebook
<1>3. CASE Serve
    BY <1>3 DEF Serve, ReadCall, MethodCall, NoteCall, SubmitCall, BrokenCall, ReviseCall,
       InvalidCall, HandoffCall, MixedCall, Answer, Reject, Ceiling, Validate, TypeOK, allowance
<1>4. CASE GiveUp \/ Route \/ HumanReview \/ Raise \/ Restart
    BY <1>4 DEF GiveUp, Route, HumanReview, Raise, Restart, TypeOK, notebook, allowance
<1> QED
    BY <1>1, <1>2, <1>3, <1>4 DEF Next

LEMMA ControlTyped ==
    ASSUME TypeOK, Next
    PROVE  /\ node' \in {"model_decide", "tools", "human_review", "end", "raised"}
           /\ native' \in BOOLEAN /\ mixed' \in BOOLEAN
           /\ phase' \in Phases /\ trigger' \in Triggers \cup {None} /\ reply' \in Replies
           /\ attempt' \in {"none", "unreadable", "open", "accepted"}
           /\ handoff' \in Triggers \cup {None} /\ final' \subseteq SUBSET Reads
<1>1. CASE GiveUp
    BY <1>1 DEF GiveUp, notebook, allowance, outcome, Phases, Replies, Triggers, TypeOK
<1>2. CASE DecideBatch
    BY <1>2 DEF DecideBatch, Turn, allowance, outcome, MixedTerminal, Phases, Replies, Triggers, TypeOK
<1>3. CASE DecideSingle
    BY <1>3 DEF DecideSingle, Turn, allowance, outcome, Phases, Replies, Triggers, TypeOK
<1>4. CASE ReadCall
    BY <1>4 DEF ReadCall, Next1, Ceiling, Answer, Untouched, Succeeded, allowance, Phases, Replies, Triggers, TypeOK, outcome
<1>5. CASE MethodCall
    BY <1>5 DEF MethodCall, Next1, Ceiling, Answer, allowance, Phases, Replies, Triggers, TypeOK, outcome
<1>6. CASE NoteCall
    BY <1>6 DEF NoteCall, Next1, Answer, allowance, Phases, Replies, Triggers, TypeOK, outcome
<1>7. CASE SubmitCall
    <2>1. batch \in Seq(Calls) /\ Len(batch) <= MaxBatch /\ batch # <<>>
              /\ Head(batch).kind \in {"submit", "revise"}
        BY <1>7 DEF TypeOK, SubmitCall, Next1
    <2>2. Head(batch).cites \subseteq Reads
        BY <2>1, BatchHead, CallKinds
    <2> QED
        BY <1>7, <2>2 DEF SubmitCall, Next1, Answer, Validate, Untouched, allowance, Phases, Replies, Triggers, TypeOK, outcome
<1>8. CASE BrokenCall
    BY <1>8 DEF BrokenCall, Next1, Answer, Reject, Untouched, allowance, Phases, Replies, Triggers, TypeOK, outcome
<1>9. CASE ReviseCall
    <2>1. batch \in Seq(Calls) /\ Len(batch) <= MaxBatch /\ batch # <<>>
              /\ Head(batch).kind \in {"submit", "revise"}
        BY <1>9 DEF TypeOK, ReviseCall, Next1
    <2>2. Head(batch).cites \subseteq Reads
        BY <2>1, BatchHead, CallKinds
    <2> QED
        BY <1>9, <2>2 DEF ReviseCall, Next1, Answer, Validate, Reject, Untouched, allowance, Phases, Replies, Triggers, TypeOK, outcome
<1>10. CASE InvalidCall
    BY <1>10 DEF InvalidCall, Next1, Answer, Reject, Untouched, allowance, Phases, Replies, Triggers, TypeOK, outcome
<1>11. CASE HandoffCall
    BY <1>11 DEF HandoffCall, Next1, Answer, allowance, Phases, Replies, Triggers, TypeOK, outcome
<1>12. CASE MixedCall
    BY <1>12 DEF MixedCall, Next1, Answer, Reject, Untouched, allowance, Phases, Replies, Triggers, TypeOK, outcome
<1>13. CASE Route
    BY <1>13 DEF Route, notebook, allowance, outcome, Phases, Replies, Triggers, TypeOK
<1>14. CASE HumanReview
    BY <1>14 DEF HumanReview, notebook, allowance, Phases, Replies, Triggers, TypeOK, outcome
<1>15. CASE Raise
    BY <1>15 DEF Raise, Checkpoints, allowance, Replies, TypeOK
<1>16. CASE Recover
    BY <1>16 DEF Recover, RecoveredAllowance, notebook, Phases, Replies, Triggers, TypeOK, outcome
<1>17. CASE Restart
    BY <1>17 DEF Restart, Checkpoints, notebook, allowance, outcome, TypeOK
<1> QED
    BY <1>1, <1>2, <1>3, <1>4, <1>5, <1>6, <1>7, <1>8, <1>9, <1>10, <1>11, <1>12, <1>13, <1>14, <1>15, <1>16, <1>17 DEF Next, Serve

\* Each node that returns writes the checkpoint; nothing else does.
LEMMA CommitSteps ==
    ASSUME Next
    PROVE  \/ Commit /\ (GiveUp \/ DecideBatch \/ DecideSingle \/ Route \/ HumanReview \/ Recover)
           \/ saved' = saved /\ (Serve \/ Raise \/ Restart)
BY DEF Next, Serve, GiveUp, DecideBatch, DecideSingle, Route, HumanReview, Recover, Raise, Restart,
   ReadCall, MethodCall, NoteCall, SubmitCall, BrokenCall, ReviseCall, InvalidCall, HandoffCall,
   MixedCall, Answer, Reject, Ceiling, Validate

\* Only a restart counts one.
LEMMA RestartSteps ==
    ASSUME Next
    PROVE  restarts' = restarts \/ Restart
BY DEF Next, Serve, GiveUp, DecideBatch, DecideSingle, Turn, Route, HumanReview, Recover, Raise, history,
   ReadCall, MethodCall, NoteCall, SubmitCall, BrokenCall, ReviseCall, InvalidCall, HandoffCall,
   MixedCall, Answer, Reject, Ceiling, Validate

LEMMA RestartTyped ==
    ASSUME TypeOK, Next
    PROVE  restarts' \in 0..MaxRestarts
BY RestartSteps, SpecialistAssumption DEF TypeOK, Restart

LEMMA CheckpointTyped ==
    ASSUME TypeOK, Next
    PROVE  saved' \in Checkpoints /\ Len(saved'.batch) <= MaxBatch /\ restarts' \in 0..MaxRestarts
<1>1. CASE Commit
    <2>1. /\ node' \in {"model_decide", "tools", "human_review", "end", "raised"}
          /\ phase' \in Phases /\ trigger' \in Triggers \cup {None}
          /\ attempt' \in {"none", "unreadable", "open", "accepted"}
        BY ControlTyped
    <2>2. /\ dispatched' \subseteq Requests /\ observed' \in [Reads -> {None, "success", "failed"}]
          /\ madeIn' \in [Reads -> 0..MaxRuns]
        BY NotebookSteps, NotebookTyped
    <2>3. batch' \in Seq(Calls) /\ Len(batch') <= MaxBatch
        BY BatchTyped
    <2> QED
        BY <1>1, <2>1, <2>2, <2>3, RestartTyped DEF Commit, Checkpoints
<1>2. CASE saved' = saved
    BY <1>2, RestartTyped DEF TypeOK
<1> QED
    BY <1>1, <1>2, CommitSteps

LEMMA TypeStep == TypeOK /\ Next => TypeOK'
BY NotebookSteps, NotebookTyped, BatchTyped, AllowanceTyped, ControlTyped, CheckpointTyped DEF TypeOK

-----------------------------------------------------------------------------
(* What was sent.                                                          *)

\* Only a run that takes over changes the runs known to the notebook.
LEMMA RunsSteps ==
    ASSUME TypeOK, Next
    PROVE  UNCHANGED <<archived, runs>> \/ (Kept /\ archived' = archived \cup {runs})
<1>1. CASE Recover
    BY <1>1 DEF Recover, notebook, history, Kept
<1>2. CASE Serve
    BY <1>2 DEF Serve, ReadCall, MethodCall, NoteCall, SubmitCall, BrokenCall, ReviseCall,
       InvalidCall, HandoffCall, MixedCall, Answer, Reject, Ceiling, Validate, allowance
<1>3. CASE GiveUp \/ DecideBatch \/ DecideSingle \/ Route \/ HumanReview \/ Raise \/ Restart
    BY <1>3 DEF GiveUp, DecideBatch, DecideSingle, Turn, Route, HumanReview, Raise, Restart, allowance
<1> QED
    BY <1>1, <1>2, <1>3 DEF Next

LEMMA ObservedSentStep == TypeOK /\ ObservedSent /\ CheckpointFits /\ Next => ObservedSent'
<1> SUFFICES ASSUME TypeOK, ObservedSent, CheckpointFits, Next PROVE ObservedSent'
    OBVIOUS
<1>1. CASE Kept
    <2>1. archived \cup {runs} \subseteq archived' \cup {runs'}
        BY RunsSteps
    <2> QED
        BY <1>1, <2>1 DEF ObservedSent, Kept
<1>2. CASE ~Kept
    <2>1. UNCHANGED <<archived, runs>>
        BY <1>2, RunsSteps
    <2>2. CASE ReadSent
        BY <2>1, <2>2 DEF ObservedSent, ReadSent, Sent, TypeOK
    <2>3. CASE MethodSent \/ NoteSent
        BY <2>1, <2>3 DEF ObservedSent, MethodSent, NoteSent, Sent
    <2>4. CASE Raise
        BY <2>1, <2>4 DEF ObservedSent, CheckpointFits, Raise
    <2> QED
        BY <1>2, <2>2, <2>3, <2>4, NotebookSteps
<1> QED
    BY <1>1, <1>2

\* Entries are lost by a raise alone, each once, and a raise waits for its restart.
LEMMA LostStep ==
    ASSUME TypeOK, Next, NEW q \in Requests, Kept \/ ReadSent \/ MethodSent \/ NoteSent \/ Raise,
           lost[q] <= restarts + (IF node = "raised" THEN 1 ELSE 0)
    PROVE  lost'[q] <= restarts' + (IF node' = "raised" THEN 1 ELSE 0)
<1>0. lost[q] \in Nat /\ restarts \in Nat
    BY DEF TypeOK
<1>1. CASE Raise
    <2>1. node # "raised" /\ node' = "raised" /\ restarts' = restarts
        BY <1>1 DEF Raise
    <2>2. lost'[q] <= lost[q] + 1
        BY <1>0, <1>1 DEF Raise
    <2>3. lost'[q] \in Nat
        BY <1>0, <1>1 DEF Raise
    <2> QED
        BY <1>0, <2>1, <2>2, <2>3
<1>2. CASE ~Raise
    <2>1. lost' = lost
        BY <1>2 DEF Kept, ReadSent, MethodSent, NoteSent, Sent
    <2>2. CASE Restart
        BY <1>0, <2>1, <2>2 DEF Restart
    <2>3. CASE ~Restart
        <3>1. restarts' = restarts
            BY <2>3, RestartSteps
        <3>2. node # "raised"
            BY <1>2, <2>3 DEF Next, Serve, GiveUp, DecideBatch, DecideSingle, Turn, Route,
               HumanReview, Recover, ReadCall, MethodCall, NoteCall, SubmitCall, BrokenCall,
               ReviseCall, InvalidCall, HandoffCall, MixedCall, Next1
        <3> QED
            BY <1>0, <2>1, <3>1, <3>2
    <2> QED
        BY <2>2, <2>3
<1> QED
    BY <1>1, <1>2

LEMMA RepeatsStep ==
    TypeOK /\ RepeatsOnlyWhatWasLost /\ CheckpointFits /\ Next => RepeatsOnlyWhatWasLost'
<1> SUFFICES ASSUME TypeOK, RepeatsOnlyWhatWasLost, CheckpointFits, Next
             PROVE  RepeatsOnlyWhatWasLost'
    OBVIOUS
<1>0. sent \in [Requests -> Nat] /\ lost \in [Requests -> Nat]
    BY DEF TypeOK
<1>1. \A q \in Requests : lost'[q] <= restarts' + (IF node' = "raised" THEN 1 ELSE 0)
    BY LostStep, NotebookSteps DEF RepeatsOnlyWhatWasLost
<1>2. /\ \A q \in Reads \cup Methods :
              sent'[q] = lost'[q] + (IF q \in dispatched' THEN 1 ELSE 0)
      /\ \A n \in Notes : (sent'[n] > 0) <=> (n \in dispatched' \/ lost'[n] > 0)
    <2>1. CASE Kept
        BY <2>1 DEF RepeatsOnlyWhatWasLost, Kept
    <2>2. ASSUME NEW r \in Reads \cup Methods, r \notin dispatched, Sent(r)
          PROVE  <1>2!1 /\ <1>2!2
        <3>1. sent[r] = lost[r] + 0 /\ r \notin Notes
            BY <2>2, Constants DEF RepeatsOnlyWhatWasLost
        <3>2. ASSUME NEW q \in Requests
              PROVE  /\ sent'[q] = IF q = r THEN sent[q] + 1 ELSE sent[q]
                     /\ q \in dispatched' <=> q = r \/ q \in dispatched
                     /\ lost'[q] = lost[q]
            BY <1>0, <2>2 DEF Sent
        <3> QED
            BY <1>0, <3>1, <3>2 DEF RepeatsOnlyWhatWasLost, Requests
    <2>3. CASE NoteSent
        <3>1. PICK n \in Notes : Sent(n)
            BY <2>3 DEF NoteSent
        <3>2. n \notin Reads \cup Methods /\ n \in Requests
            BY <3>1, Constants DEF Requests
        <3>3. ASSUME NEW q \in Requests
              PROVE  /\ sent'[q] = IF q = n THEN sent[q] + 1 ELSE sent[q]
                     /\ q \in dispatched' <=> q = n \/ q \in dispatched
                     /\ lost'[q] = lost[q]
            BY <1>0, <3>1, <3>2 DEF Sent
        <3>4. \A q \in Reads \cup Methods :
                  sent'[q] = lost'[q] + (IF q \in dispatched' THEN 1 ELSE 0)
            BY <3>2, <3>3 DEF RepeatsOnlyWhatWasLost, Requests
        <3>5. \A q \in Notes :
                  /\ sent[q] \in Nat /\ lost[q] \in Nat
                  /\ ((sent[q] > 0) <=> (q \in dispatched \/ lost[q] > 0))
            BY <1>0 DEF RepeatsOnlyWhatWasLost, Requests
        <3>6. \A q \in Notes : (sent'[q] > 0) <=> (q \in dispatched' \/ lost'[q] > 0)
            BY <3>3, <3>5 DEF Requests
        <3> QED
            BY <3>4, <3>6
    <2>4. CASE Raise
        <3>1. ASSUME NEW q \in Requests
              PROVE  /\ sent'[q] = sent[q]
                     /\ q \in dispatched' <=> q \in saved.dispatched
                     /\ q \in saved.dispatched => q \in dispatched
                     /\ lost'[q] = IF q \in dispatched /\ q \notin saved.dispatched
                                   THEN lost[q] + 1 ELSE lost[q]
                     /\ sent[q] \in Nat /\ lost[q] \in Nat
            BY <1>0, <2>4 DEF Raise, CheckpointFits
        <3> QED
            BY <3>1 DEF RepeatsOnlyWhatWasLost, Requests
    <2>5. CASE ReadSent \/ MethodSent
        <3>1. PICK r \in Reads \cup Methods : r \notin dispatched /\ Sent(r)
            BY <2>5 DEF ReadSent, MethodSent
        <3> QED
            BY <2>2, <3>1
    <2> QED
        BY <2>1, <2>3, <2>4, <2>5, NotebookSteps
<1> QED
    BY <1>1, <1>2 DEF RepeatsOnlyWhatWasLost

-----------------------------------------------------------------------------
(* The allowances.                                                         *)

LEMMA AddOne ==
    ASSUME NEW S, IsFiniteSet(S), NEW q
    PROVE  Cardinality(S \cup {q}) \in Nat /\ Cardinality(S \cup {q}) <= Cardinality(S) + 1
<1>1. IsFiniteSet(S \cup {q}) /\ (Cardinality(S \cup {q}) = Cardinality(S)
                                    \/ Cardinality(S \cup {q}) = Cardinality(S) + 1)
    BY FS_AddElement
<1>2. Cardinality(S) \in Nat
    BY FS_CardinalityType
<1> QED
    BY <1>1, <1>2

LEMMA AllowanceStep == TypeOK /\ WithinAllowance /\ CheckpointFits /\ Next => WithinAllowance'
<1> SUFFICES ASSUME TypeOK, WithinAllowance, CheckpointFits, Next PROVE WithinAllowance'
    OBVIOUS
<1>0. /\ turns \in Nat /\ maxTurns \in Nat /\ maxTools \in Nat /\ runs \in Nat
      /\ Cardinality(dispatched) \in Nat /\ IsFiniteSet(dispatched)
      /\ turns <= maxTurns /\ Cardinality(dispatched) <= maxTools
      /\ maxTurns <= runs * MaxTurns /\ maxTools <= runs * MaxTools
    BY FiniteDispatched DEF TypeOK, WithinAllowance
<1>1. ASSUME NEW q, Sent(q)
      PROVE  Cardinality(dispatched') <= maxTools
    <2>1. Cardinality(dispatched \cup {q}) <= Cardinality(dispatched) + 1
        BY <1>0, AddOne
    <2>2. Cardinality(dispatched \cup {q}) \in Nat
        BY <1>0, AddOne
    <2>3. dispatched' = dispatched \cup {q} /\ Cardinality(dispatched) < maxTools
        BY <1>1 DEF Sent
    <2> QED
        BY <1>0, <2>1, <2>2, <2>3
<1>2. UNCHANGED maxTools => Cardinality(dispatched') <= maxTools'
    <2>1. CASE Kept
        BY <1>0, <2>1 DEF Kept
    <2>2. CASE Raise
        <3>1. dispatched' \subseteq dispatched
            BY <2>2 DEF Raise, CheckpointFits
        <3>2. Cardinality(dispatched') <= Cardinality(dispatched) /\ Cardinality(dispatched') \in Nat
            BY <1>0, <3>1, FS_Subset, FS_CardinalityType
        <3> QED
            BY <1>0, <3>2
    <2>3. CASE ~Kept /\ ~Raise
        <3>1. PICK q : Sent(q)
            BY <2>3, NotebookSteps DEF ReadSent, MethodSent, NoteSent
        <3> QED
            BY <3>1, <1>1
    <2> QED
        BY <2>1, <2>2, <2>3
<1>3. CASE DecideBatch \/ DecideSingle
    <2>1. turns < maxTurns /\ turns' = turns + 1 /\ UNCHANGED <<maxTurns, maxTools, runs>>
        BY <1>3 DEF DecideBatch, DecideSingle, Turn, allowance
    <2> QED
        BY <2>1, <1>0, <1>2 DEF WithinAllowance
<1>4. CASE Recover
    <2>1. /\ maxTurns' = turns + MaxTurns /\ maxTools' = Cardinality(dispatched) + MaxTools
          /\ runs' = runs + 1 /\ turns' = turns /\ dispatched' = dispatched
        BY <1>4 DEF Recover, RecoveredAllowance, notebook
    <2>2. MaxTurns \in Nat /\ MaxTools \in Nat
        BY Constants
    <2>3. /\ (runs + 1) * MaxTurns = runs * MaxTurns + MaxTurns /\ runs * MaxTurns \in Nat
          /\ (runs + 1) * MaxTools = runs * MaxTools + MaxTools /\ runs * MaxTools \in Nat
        BY <1>0, <2>2
    <2>4. maxTurns' <= runs' * MaxTurns
        BY <1>0, <2>1, <2>2, <2>3
    <2>5. maxTools' <= runs' * MaxTools
        BY <1>0, <2>1, <2>2, <2>3
    <2>6. turns' <= maxTurns' /\ Cardinality(dispatched') <= maxTools'
        BY <1>0, <2>1, <2>2
    <2> QED
        BY <2>4, <2>5, <2>6 DEF WithinAllowance
<1>5. CASE Serve
    <2>1. UNCHANGED <<turns, maxTurns, maxTools, runs>>
        BY <1>5 DEF Serve, ReadCall, MethodCall, NoteCall, SubmitCall, BrokenCall, ReviseCall,
           InvalidCall, HandoffCall, MixedCall, Answer, Reject, Ceiling, Validate, allowance
    <2> QED
        BY <2>1, <1>0, <1>2 DEF WithinAllowance
<1>6. CASE GiveUp \/ Route \/ HumanReview \/ Raise \/ Restart
    <2>1. UNCHANGED <<turns, maxTurns, maxTools, runs>>
        BY <1>6 DEF GiveUp, Route, HumanReview, Raise, Restart, notebook, allowance
    <2> QED
        BY <2>1, <1>0, <1>2 DEF WithinAllowance
<1> QED
    BY <1>3, <1>4, <1>5, <1>6 DEF Next

-----------------------------------------------------------------------------
(* What the model was shown.                                               *)

\* A read that succeeded stays, unless a raise loses it: it is not sent again.
LEMMA SuccessStays ==
    ASSUME TypeOK, ObservedSent, Next, ~Raise
    PROVE  Succeeded \subseteq Succeeded'
<1>1. CASE Kept \/ MethodSent \/ NoteSent
    BY <1>1 DEF Kept, MethodSent, NoteSent, Succeeded
<1>2. CASE ReadSent
    BY <1>2, Constants DEF ReadSent, ObservedSent, Succeeded, TypeOK
<1> QED
    BY <1>1, <1>2, NotebookSteps

\* Every call but a read leaves what succeeded as it is.
LEMMA SuccessKept ==
    ASSUME TypeOK, Next, ~ReadCall, ~Raise
    PROVE  Succeeded' = Succeeded
<1>1. CASE GiveUp
    BY <1>1 DEF GiveUp, notebook, allowance, outcome, Succeeded
<1>2. CASE DecideBatch
    BY <1>2 DEF DecideBatch, Turn, allowance, outcome, Succeeded
<1>3. CASE DecideSingle
    BY <1>3 DEF DecideSingle, Turn, allowance, outcome, Succeeded
<1>4. CASE ReadCall
    BY <1>4
<1>5. CASE MethodCall
    BY <1>5, MethodSteps DEF Kept, MethodSent, Succeeded
<1>6. CASE NoteCall
    BY <1>6, NoteSteps DEF Kept, NoteSent, Succeeded
<1>7. CASE SubmitCall
    BY <1>7 DEF SubmitCall, Next1, Answer, Validate, Untouched, allowance, Succeeded
<1>8. CASE BrokenCall
    BY <1>8 DEF BrokenCall, Next1, Answer, Reject, Untouched, allowance, Succeeded
<1>9. CASE ReviseCall
    BY <1>9 DEF ReviseCall, Next1, Answer, Validate, Reject, Untouched, allowance, Succeeded
<1>10. CASE InvalidCall
    BY <1>10 DEF InvalidCall, Next1, Answer, Reject, Untouched, allowance, Succeeded
<1>11. CASE HandoffCall
    BY <1>11 DEF HandoffCall, Next1, Answer, allowance, Succeeded
<1>12. CASE MixedCall
    BY <1>12 DEF MixedCall, Next1, Answer, Reject, Untouched, allowance, Succeeded
<1>13. CASE Route
    BY <1>13 DEF Route, notebook, allowance, outcome, Succeeded
<1>14. CASE HumanReview
    BY <1>14 DEF HumanReview, notebook, allowance, Succeeded
<1>15. CASE Restart
    BY <1>15 DEF Restart, notebook, allowance, outcome, Succeeded
<1>16. CASE Recover
    BY <1>16 DEF Recover, RecoveredAllowance, notebook, Succeeded
<1> QED
    BY <1>1, <1>2, <1>3, <1>4, <1>5, <1>6, <1>7, <1>8, <1>9, <1>10, <1>11, <1>12, <1>13, <1>14, <1>15, <1>16 DEF Next, Serve

LEMMA ShownStep ==
    TypeOK /\ ObservedSent /\ ShownSucceeded /\ CheckpointFits /\ EndsWithReason /\ Next
        => ShownSucceeded'
<1> SUFFICES ASSUME TypeOK, ObservedSent, ShownSucceeded, CheckpointFits, EndsWithReason, Next
             PROVE  ShownSucceeded'
    OBVIOUS
<1>0. batch \in Seq(Calls) /\ Len(batch) <= MaxBatch
    BY DEF TypeOK
<1>1. CASE DecideBatch
    <2>1. known' = Succeeded /\ Succeeded' = Succeeded /\ mixed' = MixedTerminal(batch')
        BY <1>1 DEF DecideBatch, Turn, Succeeded
    <2>2. batch' \in Seq(Calls) /\ Len(batch') \in Nat
        BY BatchTyped
    <2>3. ASSUME ~mixed', \E n \in 1..Len(batch') : batch'[n].kind \in Terminal
          PROVE  Len(batch') = 1
        <3>1. ~(Len(batch') > 1 /\ \E n \in 1..Len(batch') : batch'[n].kind \in Terminal)
            BY <2>1, <2>3 DEF MixedTerminal
        <3>2. PICK n \in 1..Len(batch') : batch'[n].kind \in Terminal
            BY <2>3
        <3>3. ~(Len(batch') > 1)
            BY <3>1, <3>2
        <3>4. \A a, b \in Nat : a \in 1..b /\ ~(b > 1) => b = 1
            OBVIOUS
        <3> QED
            BY ONLY <2>2, <3>2, <3>3, <3>4
    <2>4. node' = "tools"
        BY <1>1 DEF DecideBatch
    <2> QED
        BY <2>1, <2>3, <2>4 DEF ShownSucceeded, AtTools, NoTerminal
<1>2. CASE DecideSingle
    <2>1. known' = Succeeded /\ Succeeded' = Succeeded
        BY <1>2 DEF DecideSingle, Turn, Succeeded
    <2>2. node' = "tools" => \E call \in Calls : batch' = <<call>>
        BY <1>2 DEF DecideSingle
    <2>3. node' = "tools" => Len(batch') = 1
        BY <2>2
    <2>4. node' # "raised"
        BY <1>2 DEF DecideSingle
    <2> QED
        BY <2>1, <2>3, <2>4 DEF ShownSucceeded, AtTools
<1>3. CASE Serve
    <2>1. /\ node = "tools" /\ batch # <<>> /\ batch' = Tail(batch)
          /\ UNCHANGED <<known, mixed, node>>
        BY <1>3 DEF Serve, ReadCall, MethodCall, NoteCall, SubmitCall, BrokenCall, ReviseCall,
           InvalidCall, HandoffCall, MixedCall, Next1, Answer, Reject, Ceiling, Validate
    <2>2. known' \subseteq Succeeded'
        BY <2>1, <1>3, SuccessStays DEF ShownSucceeded, Raise
    <2>3. ASSUME ~mixed' PROVE NoTerminal(batch')
        <3>1. CASE NoTerminal(batch)
            BY <3>1, <2>1, <1>0, BatchHead DEF NoTerminal
        <3>2. CASE Len(batch) = 1
            BY <3>2, <2>1, <1>0, BatchHead DEF NoTerminal
        <3> QED
            BY <3>1, <3>2, <2>1, <2>3 DEF ShownSucceeded, AtTools
    <2> QED
        BY <2>2, <2>3 DEF ShownSucceeded
<1>4. CASE GiveUp \/ Route \/ HumanReview \/ Recover
    <2>1. known' = known /\ node' \notin {"tools", "raised"} /\ Succeeded' = Succeeded
        BY <1>4 DEF GiveUp, Route, HumanReview, Recover, Succeeded, notebook, EndsWithReason, TypeOK
    <2> QED
        BY <2>1 DEF ShownSucceeded, AtTools
<1>5. CASE Raise
    <2>1. /\ batch' = saved.batch /\ Succeeded' = SavedSuccess /\ known' = known /\ mixed' = mixed
          /\ node' = "raised" /\ saved' = saved
        BY <1>5 DEF Raise, Succeeded, SavedSuccess
    <2> QED
        BY <2>1 DEF ShownSucceeded, CheckpointFits, AtTools
<1>6. CASE Restart
    <2>1. /\ UNCHANGED <<batch, known, mixed, observed>> /\ node = "raised" /\ node' = saved.node
          /\ saved.node # "raised"
        BY <1>6 DEF Restart, notebook, CheckpointFits
    <2> QED
        BY <2>1 DEF ShownSucceeded, AtTools, Succeeded
<1> QED
    BY <1>1, <1>2, <1>3, <1>4, <1>5, <1>6 DEF Next

\* A submission that is examined was alone in its response.
LEMMA SubmittedAlone ==
    ASSUME TypeOK, ShownSucceeded, Next1("submit") \/ Next1("revise"), ~mixed
    PROVE  known = Succeeded
<1>1. batch \in Seq(Calls) /\ Len(batch) <= MaxBatch /\ batch # <<>> /\ node = "tools"
          /\ Head(batch).kind \in Terminal
    BY DEF TypeOK, Next1, Terminal
<1>2. Head(batch) = batch[1] /\ 1 \in 1..Len(batch)
    BY <1>1, BatchHead
<1> QED
    BY <1>1, <1>2 DEF ShownSucceeded, AtTools, NoTerminal

LEMMA CitedStep ==
    TypeOK /\ ObservedSent /\ ShownSucceeded /\ SeenBeforeCited /\ Next => SeenBeforeCited'
<1> SUFFICES ASSUME TypeOK, ObservedSent, ShownSucceeded, SeenBeforeCited, Next
             PROVE  SeenBeforeCited'
    OBVIOUS
<1>1. known \subseteq known'
    <2>1. CASE DecideBatch \/ DecideSingle
        BY <2>1 DEF DecideBatch, DecideSingle, Turn, ShownSucceeded
    <2>2. CASE Serve
        BY <2>2 DEF Serve, ReadCall, MethodCall, NoteCall, SubmitCall, BrokenCall, ReviseCall,
           InvalidCall, HandoffCall, MixedCall, Answer, Reject, Ceiling, Validate
    <2>3. CASE GiveUp \/ Route \/ HumanReview \/ Raise \/ Restart \/ Recover
        BY <2>3 DEF GiveUp, Route, HumanReview, Raise, Restart, Recover
    <2> QED
        BY <2>1, <2>2, <2>3 DEF Next
<1>2. final' = final \/ final' = {} \/ (SubmitCall \/ ReviseCall)
    BY DEF Next, Serve, GiveUp, DecideBatch, DecideSingle, Turn, Route, HumanReview, Raise, Restart, Recover,
       ReadCall, MethodCall, NoteCall, BrokenCall, InvalidCall, HandoffCall, MixedCall, Answer,
       Reject, Ceiling, outcome
<1>3. CASE SubmitCall \/ ReviseCall
    <2>1. known = Succeeded
        BY <1>3, SubmittedAlone DEF SubmitCall, ReviseCall
    <2>2. final' = final \/ \E cites : cites \subseteq Succeeded /\ final' = {cites}
        BY <1>3 DEF SubmitCall, ReviseCall, Validate
    <2> QED
        BY <1>1, <2>1, <2>2 DEF SeenBeforeCited
<1>4. CASE final' = final
    BY <1>1, <1>4 DEF SeenBeforeCited
<1>5. CASE final' = {}
    BY <1>5 DEF SeenBeforeCited
<1> QED
    BY <1>2, <1>3, <1>4, <1>5

-----------------------------------------------------------------------------
(* How a worker ends.                                                      *)

LEMMA PlacedStep ==
    TypeOK /\ Placed /\ EndsWithReason /\ CheckpointFits /\ Next => Placed' /\ EndsWithReason'
<1> SUFFICES ASSUME TypeOK, Placed, EndsWithReason, CheckpointFits, Next
             PROVE  Placed' /\ EndsWithReason'
    OBVIOUS
<1>0. trigger \in Triggers \cup {None} /\ None \notin Triggers
          /\ \A t \in {"model_request", "model_turn_ceiling", "tool_action_ceiling",
                       "model_execution_failure"} : t # None
    BY Constants DEF TypeOK, Triggers
<1>1. CASE GiveUp
    BY <1>0, <1>1 DEF GiveUp, outcome, Placed, EndsWithReason
<1>2. CASE DecideBatch
    BY <1>0, <1>2 DEF DecideBatch, Turn, outcome, Placed, EndsWithReason
<1>3. CASE DecideSingle
    BY <1>0, <1>3 DEF DecideSingle, Turn, outcome, Placed, EndsWithReason
<1>4. CASE ReadCall
    BY <1>0, <1>4 DEF ReadCall, Next1, Ceiling, Answer, Untouched, Placed, EndsWithReason
<1>5. CASE MethodCall
    BY <1>0, <1>5 DEF MethodCall, Next1, Ceiling, Answer, Placed, EndsWithReason
<1>6. CASE NoteCall
    BY <1>0, <1>6 DEF NoteCall, Next1, Answer, Placed, EndsWithReason
<1>7. CASE SubmitCall
    BY <1>0, <1>7 DEF SubmitCall, Next1, Answer, Validate, Untouched, Placed, EndsWithReason
<1>8. CASE BrokenCall
    BY <1>0, <1>8 DEF BrokenCall, Next1, Answer, Reject, Untouched, Placed, EndsWithReason
<1>9. CASE ReviseCall
    BY <1>0, <1>9 DEF ReviseCall, Next1, Answer, Validate, Reject, Untouched, Placed, EndsWithReason
<1>10. CASE InvalidCall
    BY <1>0, <1>10 DEF InvalidCall, Next1, Answer, Reject, Untouched, Placed, EndsWithReason
<1>11. CASE HandoffCall
    BY <1>0, <1>11 DEF HandoffCall, Next1, Answer, Placed, EndsWithReason
<1>12. CASE MixedCall
    BY <1>0, <1>12 DEF MixedCall, Next1, Answer, Reject, Untouched, Placed, EndsWithReason
<1>13. CASE Route
    BY <1>0, <1>13 DEF Route, outcome, Placed, EndsWithReason
<1>14. CASE HumanReview
    BY <1>0, <1>14 DEF HumanReview, Placed, EndsWithReason
<1>15. CASE Raise
    BY <1>0, <1>15 DEF Raise, CheckpointFits, Placed, EndsWithReason
<1>16. CASE Recover
    BY <1>0, <1>16 DEF Recover, Placed, EndsWithReason
<1>17. CASE Restart
    BY <1>0, <1>17 DEF Restart, CheckpointFits, outcome, Placed, EndsWithReason
<1> QED
    BY <1>1, <1>2, <1>3, <1>4, <1>5, <1>6, <1>7, <1>8, <1>9, <1>10, <1>11, <1>12, <1>13, <1>14, <1>15, <1>16, <1>17 DEF Next, Serve

-----------------------------------------------------------------------------
(* The checkpoint.                                                         *)

LEMMA CheckpointStep ==
    ASSUME TypeOK, ObservedSent, CheckpointFits, EndsWithReason, Next,
           ObservedSent', ShownSucceeded', Placed'
    PROVE  CheckpointFits'
<1>1. CASE Commit /\ (GiveUp \/ DecideBatch \/ DecideSingle \/ Route \/ HumanReview \/ Recover)
    <2>1. /\ saved'.node = node' /\ saved'.batch = batch' /\ saved'.phase = phase'
          /\ saved'.trigger = trigger' /\ saved'.dispatched = dispatched'
          /\ saved'.observed = observed' /\ saved'.madeIn = madeIn'
        BY <1>1 DEF Commit
    <2>2. node' # "raised"
        BY <1>1 DEF GiveUp, DecideBatch, DecideSingle, Route, HumanReview, Recover, EndsWithReason,
           TypeOK
    <2>3. SavedSuccess' = Succeeded'
        BY <2>1 DEF SavedSuccess, Succeeded
    <2>4. known' \subseteq Succeeded' /\ (phase' = "human_review_required" => trigger' # None)
        BY DEF ShownSucceeded, Placed
    <2>5. node' = "tools" /\ ~mixed' =>
              NoTerminal(batch') \/ (Len(batch') = 1 /\ known' = Succeeded')
        BY DEF ShownSucceeded, AtTools
    <2>6. \A r \in Reads : observed'[r] # None =>
              r \in dispatched' /\ madeIn'[r] \in archived' \cup {runs'}
        BY DEF ObservedSent
    <2> QED
        BY <2>1, <2>2, <2>3, <2>4, <2>5, <2>6 DEF CheckpointFits
<1>2. CASE saved' = saved /\ Serve
    <2>1. UNCHANGED <<node, mixed, known, archived, runs>> /\ node = "tools"
        BY <1>2 DEF Serve, ReadCall, MethodCall, NoteCall, SubmitCall, BrokenCall, ReviseCall,
           InvalidCall, HandoffCall, MixedCall, Next1, Answer, Reject, Ceiling, Validate, allowance
    <2>2. dispatched \subseteq dispatched'
        BY <2>1, NotebookSteps DEF Kept, ReadSent, MethodSent, NoteSent, Sent,
           Serve, ReadCall, MethodCall, NoteCall, SubmitCall, BrokenCall, ReviseCall,
           InvalidCall, HandoffCall, MixedCall, Next1, Answer, Reject, Ceiling, Validate, Raise
    <2> QED
        BY <1>2, <2>1, <2>2 DEF CheckpointFits, SavedSuccess
<1>3. CASE saved' = saved /\ Raise
    BY <1>3 DEF Raise, CheckpointFits, SavedSuccess, allowance
<1>4. CASE saved' = saved /\ Restart
    BY <1>4 DEF Restart, CheckpointFits, SavedSuccess, notebook, allowance
<1> QED
    BY <1>1, <1>2, <1>3, <1>4, CommitSteps

-----------------------------------------------------------------------------
LEMMA InitHolds == Init => SpecialistInv
<1> SUFFICES ASSUME Init PROVE SpecialistInv
    OBVIOUS
<1>1. TypeOK
    <2>1. batch \in Seq(Calls) /\ Len(batch) <= MaxBatch /\ saved.batch = batch
        BY Constants DEF Init
    <2>3. saved \in Checkpoints
        BY <2>1, Constants DEF Init, Checkpoints, Phases
    <2>2. /\ maxTurns \in Nat /\ maxTools \in Nat /\ runs \in 1..MaxRuns
          /\ madeIn \in [Reads -> 0..MaxRuns]
        BY Constants DEF Init
    <2>4. /\ node = "model_decide" /\ native = FALSE /\ mixed = FALSE /\ turns = 0
          /\ dispatched = {} /\ observed = [r \in Reads |-> None] /\ archived = {} /\ known = {}
          /\ phase = "ready_for_model_decision" /\ trigger = None /\ attempt = "none"
          /\ final = {} /\ handoff = None /\ restarts = 0 /\ reply = "none"
          /\ sent = [q \in Requests |-> 0] /\ lost = [q \in Requests |-> 0]
        BY DEF Init
    <2>5. /\ sent \in [Requests -> Nat] /\ lost \in [Requests -> Nat]
          /\ observed \in [Reads -> {None, "success", "failed"}]
        BY <2>4
    <2>6. restarts \in 0..MaxRestarts
        BY <2>4, SpecialistAssumption
    <2> QED
        BY <2>1, <2>2, <2>3, <2>4, <2>5, <2>6 DEF TypeOK, Phases, Replies
<1>2. Cardinality(dispatched) = 0 /\ dispatched = {}
    BY FS_EmptySet DEF Init
<1>3. WithinAllowance
    BY <1>2, Constants DEF Init, WithinAllowance
<1>4. ObservedSent /\ SeenBeforeCited
    BY DEF Init, ObservedSent, SeenBeforeCited
<1>5. RepeatsOnlyWhatWasLost
    BY DEF Init, RepeatsOnlyWhatWasLost, Requests
<1>6. ShownSucceeded /\ Placed /\ EndsWithReason
    BY DEF Init, ShownSucceeded, AtTools, Placed, EndsWithReason
<1>7. CheckpointFits
    BY DEF Init, CheckpointFits, SavedSuccess
<1> QED
    BY <1>1, <1>3, <1>4, <1>5, <1>6, <1>7 DEF SpecialistInv

LEMMA StepHolds == SpecialistInv /\ [Next]_vars => SpecialistInv'
<1> SUFFICES ASSUME SpecialistInv, [Next]_vars PROVE SpecialistInv'
    OBVIOUS
<1>1. CASE Next
    BY <1>1, TypeStep, ObservedSentStep, RepeatsStep, AllowanceStep, ShownStep, CitedStep, PlacedStep,
       CheckpointStep DEF SpecialistInv
<1>2. CASE UNCHANGED vars
    <2>1. /\ UNCHANGED <<node, native, mixed, batch, phase, trigger, turns, dispatched, observed>>
          /\ UNCHANGED <<madeIn, maxTurns, maxTools, archived, runs, known, attempt, final>>
          /\ UNCHANGED <<handoff, saved, restarts, sent, lost, reply>>
        BY <1>2 DEF vars, control, notebook, allowance, outcome, history
    <2>2. TypeOK'
        BY <2>1 DEF SpecialistInv, TypeOK
    <2>3. ObservedSent' /\ RepeatsOnlyWhatWasLost' /\ WithinAllowance'
        BY <2>1 DEF SpecialistInv, ObservedSent, RepeatsOnlyWhatWasLost, WithinAllowance
    <2>4. ShownSucceeded' /\ SeenBeforeCited' /\ Placed' /\ EndsWithReason'
        BY <2>1 DEF SpecialistInv, ShownSucceeded, AtTools, SeenBeforeCited, Placed, EndsWithReason,
           Succeeded
    <2>5. CheckpointFits'
        BY <2>1 DEF SpecialistInv, CheckpointFits, SavedSuccess
    <2> QED
        BY <2>2, <2>3, <2>4, <2>5 DEF SpecialistInv
<1> QED
    BY <1>1, <1>2

\* The inductive invariant of a worker, for any requests, ceilings and runs: the
\* notebook counts what was sent, and what was cited or handed over has its place
\* (specialist_graph.py: execute_tool, execute_batch, human_review, initialize).
THEOREM SpecialistInductive == Spec => []SpecialistInv
BY InitHolds, StepHolds, PTL DEF Spec

\* A worker's state is well-typed; no response holds more calls than allowed.
THEOREM SpecialistTyped == Spec => []TypeOK
<1>1. SpecialistInv => TypeOK
    BY DEF SpecialistInv
<1> QED
    BY <1>1, SpecialistInductive, PTL

\* However often turns, batches, restarts and runs ask, a port is called again for a
\* request only after a raise lost what the notebook said of it, once for each.
THEOREM RepeatsAreLosses == Spec => []RepeatsOnlyWhatWasLost
<1>1. SpecialistInv => RepeatsOnlyWhatWasLost
    BY DEF SpecialistInv
<1> QED
    BY <1>1, SpecialistInductive, PTL

\* Turns and actions stay within the allowances of the runs so far.
THEOREM AllowanceHolds == Spec => []WithinAllowance
<1>1. SpecialistInv => WithinAllowance
    BY DEF SpecialistInv
<1> QED
    BY <1>1, SpecialistInductive, PTL

\* An accepted workpaper cites only what the model had seen.
THEOREM CitesSeen == Spec => []SeenBeforeCited
<1>1. SpecialistInv => SeenBeforeCited
    BY DEF SpecialistInv
<1> QED
    BY <1>1, SpecialistInductive, PTL

\* A worker ends with a workpaper or with a hand-over and its reason.
THEOREM ReasonGiven == Spec => []EndsWithReason
<1>1. SpecialistInv => EndsWithReason
    BY DEF SpecialistInv
<1> QED
    BY <1>1, SpecialistInductive, PTL

\* A read that succeeded in any run is answered from the notebook again.
THEOREM ReadsAreAnswered == Spec => ReadsAnswered
<1> DEFINE A == \A r \in Succeeded :
         Next1("read") /\ Head(batch).of = r /\ native /\ ~mixed /\ batch' # batch
           /\ node' = "tools" => reply' = "replay" /\ dispatched' = dispatched
<1>1. SpecialistInv /\ [Next]_vars => [A]_vars
    <2> SUFFICES ASSUME SpecialistInv, Next, NEW r \in Succeeded, Next1("read"),
                        Head(batch).of = r, native, ~mixed, batch' # batch, node' = "tools"
                 PROVE  reply' = "replay" /\ dispatched' = dispatched
        OBVIOUS
    <2>1. SavedRead(r)
        BY Constants DEF SpecialistInv, ObservedSent, SavedRead, Succeeded
    <2>2. ReadCall
        BY DEF Next, Serve, GiveUp, DecideBatch, DecideSingle, Turn, Route, HumanReview, Raise,
           Restart, Recover, MethodCall, NoteCall, SubmitCall, BrokenCall, ReviseCall, InvalidCall,
           HandoffCall, MixedCall, Next1
    <2> QED
        BY <2>1, <2>2 DEF ReadCall, Answer, Untouched
<1> QED
    BY <1>1, SpecialistInductive, PTL DEF Spec, ReadsAnswered

-----------------------------------------------------------------------------
(* The end of a run.                                                       *)

\* What is left of a run is a number: turns that may still be taken, and the node.
LEMMA RemainingType ==
    ASSUME TypeOK, WithinAllowance
    PROVE  /\ TurnCost \in Nat /\ TurnCost = MaxBatch + 2
           /\ maxTurns - turns \in Nat /\ (maxTurns - turns) * TurnCost \in Nat
           /\ NodeCost \in Nat /\ Remaining \in Nat
<1>1. TurnCost \in Nat /\ TurnCost = MaxBatch + 2
    BY Constants DEF TurnCost
<1>2. turns \in Nat /\ maxTurns \in Nat /\ turns <= maxTurns /\ batch \in Seq(Calls)
    BY DEF TypeOK, WithinAllowance
<1>3. maxTurns - turns \in Nat
    BY ONLY <1>2
<1>4. (maxTurns - turns) * TurnCost \in Nat
    BY ONLY <1>1, <1>3
<1>5. Len(batch) \in Nat
    BY <1>2
<1>6. NodeCost \in Nat
    BY <1>5 DEF NodeCost
<1>7. Remaining \in Nat
    BY <1>4, <1>6 DEF Remaining
<1> QED
    BY <1>1, <1>3, <1>4, <1>6, <1>7

\* A step that takes no turn is followed by a cheaper node, or by the end.
LEMMA CheaperNode ==
    ASSUME TypeOK, WithinAllowance, turns' = turns, maxTurns' = maxTurns,
           node \notin {"end", "raised"}, NodeCost' \in Nat, NodeCost' < NodeCost
    PROVE  Remaining' < Remaining
<1> DEFINE c == (maxTurns - turns) * TurnCost
<1>1. c \in Nat /\ NodeCost \in Nat
    BY RemainingType
<1>2. Remaining = c + NodeCost
    BY DEF Remaining
<1>3. Remaining' = 0 \/ Remaining' = c + NodeCost'
    BY DEF Remaining, TurnCost
<1> HIDE DEF c
<1> QED
    BY <1>1, <1>2, <1>3

\* A turn and all it can cause cost less than the turn was worth.
LEMMA TurnPaid ==
    ASSUME TypeOK, WithinAllowance, TypeOK', Turn, NodeCost' <= 3 + MaxBatch
    PROVE  Remaining' < Remaining
<1>1. /\ node = "model_decide" /\ turns < maxTurns /\ turns' = turns + 1
      /\ maxTurns' = maxTurns
    BY DEF Turn, allowance
<1>2. turns \in Nat /\ maxTurns \in Nat /\ MaxBatch \in Nat
    BY Constants DEF TypeOK
<1>3. maxTurns - (turns + 1) \in Nat /\ maxTurns - turns = (maxTurns - (turns + 1)) + 1
    BY ONLY <1>1, <1>2
<1>4. TurnCost \in Nat /\ TurnCost = MaxBatch + 2
    BY RemainingType
<1> DEFINE c == (maxTurns - (turns + 1)) * TurnCost
<1>5. c \in Nat
    BY ONLY <1>3, <1>4
<1>6. \A a, b \in Nat : (a + 1) * b = a * b + b
    OBVIOUS
<1>7. (maxTurns - turns) * TurnCost = c + TurnCost
    BY <1>3, <1>4, <1>6
<1>8. Remaining = c + TurnCost + 2
    BY <1>1, <1>7 DEF Remaining, NodeCost
<1>9. NodeCost' \in Nat
    <2>1. Len(batch') \in Nat
        BY DEF TypeOK
    <2> QED
        BY <2>1 DEF NodeCost
<1>10. Remaining' = 0 \/ Remaining' = c + NodeCost'
    BY <1>1 DEF Remaining, TurnCost
<1> HIDE DEF c
<1> QED
    BY <1>2, <1>4, <1>5, <1>8, <1>9, <1>10

LEMMA WindingStep ==
    ASSUME SpecialistInv, SpecialistInv', Next, runs' = runs, restarts' = restarts
    PROVE  Remaining' < Remaining
<1>1. TypeOK /\ TypeOK' /\ WithinAllowance
    BY DEF SpecialistInv
<1>2. Len(batch) \in Nat /\ Len(batch') \in Nat /\ Len(batch') <= MaxBatch
    BY <1>1 DEF TypeOK
<1>3. CASE GiveUp
    <2>1. /\ node = "model_decide" /\ node' = "human_review"
          /\ turns' = turns /\ maxTurns' = maxTurns
        BY <1>3 DEF GiveUp, notebook, allowance
    <2>2. NodeCost = 2 /\ NodeCost' = 1
        BY <2>1 DEF NodeCost
    <2> QED
        BY <1>1, <2>1, <2>2, CheaperNode
<1>4. CASE DecideBatch
    <2>1. Turn /\ node' = "tools"
        BY <1>4 DEF DecideBatch
    <2>2. NodeCost' <= 3 + MaxBatch
        BY <1>2, <2>1, Constants DEF NodeCost
    <2> QED
        BY <1>1, <2>1, <2>2, TurnPaid
<1>5. CASE DecideSingle
    <2>1. Turn /\ node' \in {"tools", "human_review", "model_decide"}
        BY <1>5 DEF DecideSingle
    <2>2. NodeCost' <= 3 + MaxBatch
        BY <1>2, <2>1, Constants DEF NodeCost
    <2> QED
        BY <1>1, <2>1, <2>2, TurnPaid
<1>6. CASE Serve
    <2>1. /\ node = "tools" /\ node' = node /\ batch # <<>> /\ batch' = Tail(batch)
          /\ turns' = turns /\ maxTurns' = maxTurns
        BY <1>6 DEF Serve, ReadCall, MethodCall, NoteCall, SubmitCall, BrokenCall, ReviseCall,
           InvalidCall, HandoffCall, MixedCall, Next1, Answer, Reject, Ceiling, Validate, allowance
    <2>2. Len(batch') = Len(batch) - 1
        BY <1>1, <2>1, BatchHead DEF TypeOK
    <2>3. NodeCost = 3 + Len(batch) /\ NodeCost' = 3 + Len(batch')
        BY <2>1 DEF NodeCost
    <2>4. NodeCost' \in Nat /\ NodeCost' < NodeCost
        BY <1>2, <2>2, <2>3
    <2> QED
        BY <1>1, <2>1, <2>4, CheaperNode
<1>7. CASE Route
    <2>1. /\ node = "tools" /\ node' \in {"end", "human_review", "model_decide"}
          /\ turns' = turns /\ maxTurns' = maxTurns
        BY <1>7 DEF Route, notebook, allowance
    <2>2. NodeCost = 3 + Len(batch) /\ NodeCost' \in {0, 1, 2}
        BY <2>1 DEF NodeCost
    <2> QED
        BY <1>1, <1>2, <2>1, <2>2, CheaperNode
<1>8. CASE HumanReview
    <2>1. /\ node = "human_review" /\ node' \in {"end", "raised"}
          /\ turns' = turns /\ maxTurns' = maxTurns
        BY <1>8 DEF HumanReview, notebook, allowance
    <2>2. NodeCost = 1 /\ NodeCost' = 0
        BY <2>1 DEF NodeCost
    <2> QED
        BY <1>1, <2>1, <2>2, CheaperNode
<1>9. CASE Raise
    <2>1. /\ node \in {"model_decide", "tools"} /\ node' = "raised"
          /\ turns' = turns /\ maxTurns' = maxTurns
        BY <1>9 DEF Raise, notebook, allowance
    <2>2. NodeCost \in {2, 3 + Len(batch)} /\ NodeCost' = 0
        BY <2>1 DEF NodeCost
    <2> QED
        BY <1>1, <1>2, <2>1, <2>2, CheaperNode
<1>10. CASE Recover
    <2>1. runs' = runs + 1 /\ runs \in Nat
        BY <1>1, <1>10, Constants DEF Recover, TypeOK
    <2> QED
        BY <2>1
<1>11. CASE Restart
    <2>1. restarts' = restarts + 1 /\ restarts \in Nat
        BY <1>1, <1>11 DEF Restart, TypeOK
    <2> QED
        BY <2>1
<1> QED
    BY <1>3, <1>4, <1>5, <1>6, <1>7, <1>8, <1>9, <1>10, <1>11 DEF Next

\* Every answer of the model brings the end of the worker nearer: with no more than
\* its turns and their longest batches, a run ends, or raises, unless a port hangs.
THEOREM WorkersWindDown == Spec => WindsDown
<1> DEFINE Wind == runs' = runs /\ restarts' = restarts => Remaining' < Remaining
<1>1. SpecialistInv /\ SpecialistInv' /\ [Next]_vars => [Wind]_vars
    BY WindingStep
<1> HIDE DEF Wind
<1>2. Spec => [][Wind]_vars
    BY <1>1, SpecialistInductive, PTL DEF Spec
<1> QED
    BY <1>2 DEF Wind, WindsDown

\* A run has at most its allowance of turns left, and has taken one in the tools.
TurnsLeft == maxTurns <= turns + MaxTurns /\ (AtTools => maxTurns < turns + MaxTurns)

LEMMA TurnsLeftStep == SpecialistInv /\ TurnsLeft /\ [Next]_vars => TurnsLeft'
<1> SUFFICES ASSUME SpecialistInv, TurnsLeft, [Next]_vars PROVE TurnsLeft'
    OBVIOUS
<1>0. turns \in Nat /\ maxTurns \in Nat /\ MaxTurns \in Nat \ {0}
    BY Constants DEF SpecialistInv, TypeOK
<1>1. CASE DecideBatch \/ DecideSingle
    <2>1. turns' = turns + 1 /\ maxTurns' = maxTurns
        BY <1>1 DEF DecideBatch, DecideSingle, Turn, allowance
    <2> QED
        BY <1>0, <2>1 DEF TurnsLeft
<1>2. CASE Recover
    <2>1. maxTurns' = turns + MaxTurns /\ turns' = turns /\ node' = "model_decide"
        BY <1>2 DEF Recover, RecoveredAllowance, notebook
    <2> QED
        BY <1>0, <2>1 DEF TurnsLeft, AtTools
<1>3. CASE Serve \/ GiveUp \/ Route \/ HumanReview \/ Raise \/ Restart \/ UNCHANGED vars
    <2>1. turns' = turns /\ maxTurns' = maxTurns
        BY <1>3 DEF Serve, ReadCall, MethodCall, NoteCall, SubmitCall, BrokenCall, ReviseCall,
           InvalidCall, HandoffCall, MixedCall, Answer, Reject, Ceiling, Validate, GiveUp, Route,
           HumanReview, Raise, Restart, vars, notebook, allowance
    <2>2. AtTools' => AtTools
        <3>1. CASE Serve
            BY <3>1 DEF Serve, ReadCall, MethodCall, NoteCall, SubmitCall, BrokenCall, ReviseCall,
               InvalidCall, HandoffCall, MixedCall, Next1, AtTools
        <3>2. CASE GiveUp \/ Route \/ HumanReview
            BY <3>2 DEF GiveUp, Route, HumanReview, AtTools, SpecialistInv, EndsWithReason, TypeOK
        <3>3. CASE Raise \/ Restart
            BY <3>3 DEF Raise, Restart, AtTools, SpecialistInv, CheckpointFits
        <3>4. CASE UNCHANGED vars
            BY <3>4 DEF vars, control, AtTools
        <3> QED
            BY <1>3, <3>1, <3>2, <3>3, <3>4
    <2> QED
        BY <2>1, <2>2 DEF TurnsLeft
<1> QED
    BY <1>1, <1>2, <1>3 DEF Next

\* No run has more than its allowance of turns, with the notebook of however many
\* runs before it and after however many restarts, so what is left of it is bounded.
THEOREM WorkerBudget == Spec => [](Remaining \in 0..(MaxTurns * (MaxBatch + 2) + 2))
<1> DEFINE Bound == Remaining \in 0..(MaxTurns * (MaxBatch + 2) + 2)
<1>1. Init => TurnsLeft
    BY Constants DEF Init, TurnsLeft, AtTools
<1>2. SpecialistInv /\ TurnsLeft => Bound
    <2> SUFFICES ASSUME SpecialistInv, TurnsLeft PROVE Bound
        OBVIOUS
    <2>0. /\ TypeOK /\ WithinAllowance /\ turns \in Nat /\ maxTurns \in Nat /\ batch \in Seq(Calls)
          /\ Len(batch) <= MaxBatch
        BY DEF SpecialistInv, TypeOK
    <2>1. /\ TurnCost \in Nat /\ TurnCost = MaxBatch + 2 /\ maxTurns - turns \in Nat
          /\ (maxTurns - turns) * TurnCost \in Nat /\ NodeCost \in Nat /\ Remaining \in Nat
        BY <2>0, RemainingType
    <2>2. MaxTurns \in Nat \ {0} /\ MaxBatch \in Nat /\ Len(batch) \in Nat
        BY <2>0, Constants
    <2>3. \A a, b, c \in Nat : a <= b => a * c <= b * c
        OBVIOUS
    <2>4. \A a, c \in Nat : a # 0 => (a - 1) \in Nat /\ (a - 1) * c + c = a * c
        OBVIOUS
    <2>5. maxTurns - turns <= MaxTurns
        BY <2>0, <2>2 DEF TurnsLeft
    <2>6. (maxTurns - turns) * TurnCost <= MaxTurns * TurnCost /\ MaxTurns * TurnCost \in Nat
        BY <2>1, <2>2, <2>3, <2>5
    <2>7. CASE node = "tools"
        <3>1. maxTurns - turns <= MaxTurns - 1
            BY <2>0, <2>2, <2>7 DEF TurnsLeft, AtTools
        <3>2. (maxTurns - turns) * TurnCost <= (MaxTurns - 1) * TurnCost
              /\ (MaxTurns - 1) * TurnCost \in Nat
              /\ (MaxTurns - 1) * TurnCost + TurnCost = MaxTurns * TurnCost
            BY <2>1, <2>2, <2>3, <2>4, <3>1
        <3>3. Remaining = (maxTurns - turns) * TurnCost + 3 + Len(batch)
            BY <2>1, <2>2, <2>7 DEF Remaining, NodeCost
        <3>4. Remaining <= MaxTurns * TurnCost + 2
            BY <2>0, <2>1, <2>2, <2>6, <3>2, <3>3
        <3> QED
            BY <2>1, <3>4
    <2>8. CASE node # "tools"
        <3>1. Remaining = 0 \/ (Remaining = (maxTurns - turns) * TurnCost + NodeCost /\ NodeCost <= 2)
            BY <2>8 DEF Remaining, NodeCost
        <3>2. Remaining <= MaxTurns * TurnCost + 2
            BY <2>1, <2>6, <3>1
        <3> QED
            BY <2>1, <3>2
    <2> QED
        BY <2>7, <2>8
<1> HIDE DEF Bound
<1>3. Spec => []Bound
    BY <1>1, <1>2, TurnsLeftStep, SpecialistInductive, PTL DEF Spec
<1> QED
    BY <1>3 DEF Bound
==============================================================================
