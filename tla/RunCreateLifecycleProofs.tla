---------------------- MODULE RunCreateLifecycleProofs ----------------------
(***************************************************************************)
(* Proofs about RunCreateLifecycle for any sets of sessions, runs,         *)
(* invocations, server runs, statuses and digests, and any MaxOrdinal.     *)
(***************************************************************************)
EXTENDS RunCreateLifecycle, TLAPS

USE MaxOrdinalAssumption, NoneAssumption DEF Ordinals

-----------------------------------------------------------------------------
(* Type correctness.                                                       *)

\* An invocation with an observation has a last one, so a recovery case that
\* reuses an observation names an event.
LatestOK ==
    \A i \in Invocations :
        latest[i] = None => \A d \in Digests : observed[i][d] = None

\* A bind in flight is for an invocation of the run whose lock it holds.
BinderOK ==
    \A r \in Runs : binder[r] # None =>
        /\ pending[binder[r].invocation] # None
        /\ pending[binder[r].invocation].run = r

TInv == TypeOK /\ LatestOK /\ BinderOK

LEMMA TypeInit == Init => TInv
BY DEF Init, TypeOK, TInv, LatestOK, BinderOK

LEMMA LatestStep == TInv /\ [Next]_vars => LatestOK'
<1> SUFFICES ASSUME TInv, [Next]_vars PROVE LatestOK'
  OBVIOUS
<1>1. ASSUME NEW i \in Invocations, NEW d \in Digests, NEW o \in Observation,
             RecordOrphan(i, d, o) \/ MarkRecoveryRequired(i, d, o)
      PROVE  LatestOK'
  BY <1>1 DEF RecordOrphan, MarkRecoveryRequired, TInv, TypeOK, LatestOK
<1>2. CASE UNCHANGED <<observed, latest>>
  BY <1>2 DEF TInv, LatestOK
<1>3. QED
  BY <1>1, <1>2
  DEF Next, vars, rows, BindAgentSession, BeginRunCreate,
     MarkDispatched, MarkFailedBeforeDispatch, RemoteCreate, OperatorRead,
     OperatorCommit, OperatorAbort, BindRead, BindCommit, BindAbort,
     OpenExecution

LEMMA BinderStep == TInv /\ [Next]_vars => BinderOK'
<1> SUFFICES ASSUME TInv, [Next]_vars PROVE BinderOK'
  OBVIOUS
<1> USE DEF TInv, TypeOK, BinderOK, BindTxn, PendingRow
<1>1. ASSUME NEW i \in Invocations, NEW r \in Runs, NEW n \in Ordinals,
             NEW s \in Sessions, BeginRunCreate(i, r, n, s)
      PROVE  BinderOK'
  BY <1>1 DEF BeginRunCreate
<1>2. ASSUME NEW i \in Invocations, NEW row \in BoundRow, BindRead(i, row)
      PROVE  BinderOK'
  BY <1>2 DEF BindRead, rows, Locked
<1>3. ASSUME NEW r \in Runs, BindCommit(r) \/ BindAbort(r) PROVE BinderOK'
  BY <1>3 DEF BindCommit, BindAbort, rows
<1>4. CASE UNCHANGED <<pending, binder>>
  BY <1>4
<1> HIDE DEF TInv, TypeOK, BinderOK, BindTxn, PendingRow
<1>5. QED
  BY <1>1, <1>2, <1>3, <1>4
  DEF Next, vars, rows, BindAgentSession,
     MarkDispatched, MarkFailedBeforeDispatch, RemoteCreate, RecordOrphan,
     MarkRecoveryRequired, OperatorRead, OperatorCommit, OperatorAbort,
     OpenExecution

LEMMA TypeStep == TInv /\ [Next]_vars => TypeOK'
<1> SUFFICES ASSUME TypeOK, LatestOK, BinderOK, [Next]_vars
             PROVE  TypeOK'
  BY DEF TInv
<1> USE DEF TypeOK, rows, PendingRow, Observation, CaseRow, BoundRow, BindTxn,
            Decisions, Snapshots
<1>1. ASSUME NEW s \in Sessions, NEW t \in Threads, BindAgentSession(s, t)
      PROVE  TypeOK'
  BY <1>1 DEF BindAgentSession
<1>2. ASSUME NEW i \in Invocations, NEW r \in Runs, NEW n \in Ordinals,
             NEW s \in Sessions, BeginRunCreate(i, r, n, s)
      PROVE  TypeOK'
  BY <1>2 DEF BeginRunCreate
<1>3. ASSUME NEW i \in Invocations, MarkDispatched(i) PROVE TypeOK'
  BY <1>3 DEF MarkDispatched
<1>4. ASSUME NEW i \in Invocations, MarkFailedBeforeDispatch(i) PROVE TypeOK'
  BY <1>4 DEF MarkFailedBeforeDispatch
<1>5. ASSUME NEW i \in Invocations, NEW x \in ServerRuns, RemoteCreate(i, x)
      PROVE  TypeOK'
  BY <1>5 DEF RemoteCreate
<1>6. ASSUME NEW i \in Invocations, NEW d \in Digests, NEW o \in Observation,
             RecordOrphan(i, d, o)
      PROVE  TypeOK'
  BY <1>6 DEF RecordOrphan
<1>7. ASSUME NEW i \in Invocations, NEW d \in Digests, NEW o \in Observation,
             MarkRecoveryRequired(i, d, o)
      PROVE  TypeOK'
  <2>1. latest'[i] \in Digests
    BY <1>7 DEF MarkRecoveryRequired, LatestOK
  <2>2. observed' \in [Invocations -> [Digests -> Observation \cup {None}]]
        /\ latest' \in [Invocations -> Digests \cup {None}]
    <3>1. CASE /\ observed' = [observed EXCEPT ![i][d] = o]
               /\ latest' = [latest EXCEPT ![i] = d]
      BY <3>1
    <3>2. CASE UNCHANGED <<observed, latest>>
      BY <3>2
    <3>3. QED
      BY <1>7, <3>1, <3>2 DEF MarkRecoveryRequired
  <2>3. cases' \in [Invocations -> CaseRow \cup {None}]
    BY <1>7, <2>1 DEF MarkRecoveryRequired
  <2>4. attempts' \in [Invocations -> SUBSET Snapshots]
    BY <1>7 DEF MarkRecoveryRequired
  <2>5. QED
    BY <1>7, <2>2, <2>3, <2>4 DEF MarkRecoveryRequired
<1>8. ASSUME NEW i \in Invocations, NEW decision \in Decisions,
             OperatorRead(i, decision)
      PROVE  TypeOK'
  BY <1>8 DEF OperatorRead
<1>9. ASSUME NEW i \in Invocations, OperatorCommit(i) PROVE TypeOK'
  BY <1>9 DEF OperatorCommit
<1>10. ASSUME NEW i \in Invocations, OperatorAbort(i) PROVE TypeOK'
  BY <1>10 DEF OperatorAbort
<1>11. ASSUME NEW i \in Invocations, NEW row \in BoundRow, BindRead(i, row)
       PROVE  TypeOK'
  BY <1>11, ZenonT(60) DEF BindRead
<1>12. ASSUME NEW r \in Runs, BindCommit(r) PROVE TypeOK'
  <2> DEFINE i == binder[r].invocation
  <2>1. i \in Invocations /\ binder[r].row \in BoundRow
    BY <1>12 DEF BindCommit
  <2>2. pending[i].session \in Sessions
    BY <1>12, <2>1 DEF BindCommit, BinderOK
  <2>3. attempts' \in [Invocations -> SUBSET Snapshots]
    BY <1>12, <2>1 DEF BindCommit
  <2>4. bound' \in [Invocations -> BoundRow \cup {None}]
    BY <1>12, <2>1 DEF BindCommit
  <2>5. runs' \in [Runs -> Sessions \cup {None}]
    BY <1>12, <2>2 DEF BindCommit
  <2>6. QED
    BY <1>12, <2>3, <2>4, <2>5 DEF BindCommit
<1>13. ASSUME NEW r \in Runs, BindAbort(r) PROVE TypeOK'
  BY <1>13 DEF BindAbort
<1>14. ASSUME NEW x \in ServerRuns, OpenExecution(x) PROVE TypeOK'
  BY <1>14 DEF OpenExecution
<1>15. CASE UNCHANGED vars
  BY <1>15 DEF vars
<1> HIDE MaxOrdinalAssumption, NoneAssumption
       DEF Ordinals, TypeOK, rows, PendingRow, Observation, CaseRow, BoundRow,
           BindTxn, Decisions, Snapshots
<1>16. QED
  BY <1>1, <1>2, <1>3, <1>4, <1>5, <1>6, <1>7, <1>8, <1>9, <1>10, <1>11, <1>12,
     <1>13, <1>14, <1>15 DEF Next

\* Every reachable state is well-typed: rows never mix up what they refer to.
THEOREM TypeCorrect == Spec => []TypeOK
<1>1. QED
  BY TypeInit, TypeStep, LatestStep, BinderStep, PTL DEF Spec, TInv

-----------------------------------------------------------------------------
(* The inductive invariant.  Each part is the reason another one survives  *)
(* a step; BinderFits says that what a bind transaction read is still so   *)
(* when it commits, which is what the run lock is for.                     *)

AttemptShape ==
    \A i \in Invocations :
        /\ pending[i] = None => attempts[i] = {}
        /\ pending[i] # None => "INTENT_COMMITTED" \in attempts[i]
        /\ ~Dispatched(i) =>
              /\ attempts[i] \subseteq {"INTENT_COMMITTED", "FAILED_BEFORE_DISPATCH"}
              /\ \A d \in Digests : observed[i][d] = None
              /\ \A x \in ServerRuns : remote[x] # i
              /\ bound[i] = None
        /\ Dispatched(i) => "FAILED_BEFORE_DISPATCH" \notin attempts[i]

\* Terminal outcomes and the rows that close them.
OutcomeShape ==
    \A i \in Invocations :
        /\ cases[i] # None <=> Ambiguous(i)
        /\ cases[i] # None => observed[i][cases[i].event] = cases[i].seen
        /\ "APPLIED" \in attempts[i] => bound[i] # None
        /\ bound[i] # None => Terminal(i)
        /\ dispositions[i] # None \/ operator[i] # None => cases[i] # None

\* Observations and binding of an invocation name one server run.
ServersAgree ==
    \A i \in Invocations :
        /\ \A d, e \in Digests :
              /\ observed[i][d] # None /\ observed[i][d].server # None
              /\ observed[i][e] # None /\ observed[i][e].server # None
              => observed[i][d].server = observed[i][e].server
        /\ \A d \in Digests :
              /\ observed[i][d] # None /\ observed[i][d].server # None
              /\ bound[i] # None
              => observed[i][d].server = bound[i].server

\* Some observation carries a run and a status.
HasExact(i) ==
    \E d \in Digests : /\ observed[i][d] # None
                       /\ observed[i][d].server # None
                       /\ observed[i][d].status # None

Grounded ==
    \A i \in Invocations :
        dispositions[i] = "DO_NOT_RETRY" \/ operator[i] = "DO_NOT_RETRY"
            => HasExact(i)

Released(i, row) ==
    /\ dispositions[i] = "DO_NOT_RETRY"
    /\ observed[i][row.digest] = [server |-> row.server, status |-> row.status]

BoundDecided ==
    \A i \in Invocations :
        bound[i] # None /\ Ambiguous(i) => Released(i, bound[i])

Fits(i, row) ==
    /\ Dispatched(i)
    /\ bound[i] = None
    /\ Ambiguous(i) => Released(i, row)
    /\ \A d \in Digests :
          observed[i][d] # None /\ observed[i][d].server # None
              => observed[i][d].server = row.server

BinderFits ==
    \A r \in Runs :
        binder[r] # None => Fits(binder[r].invocation, binder[r].row)

PlacesDistinct ==
    \A i, j \in Invocations :
        /\ pending[i] # None /\ pending[j] # None /\ i # j
        => ~(pending[i].run = pending[j].run /\ pending[i].ordinal = pending[j].ordinal)

NoGap ==
    \A i \in Invocations : bound[i] # None =>
        \A n \in 1..(pending[i].ordinal - 1) :
            \E j \in Invocations :
                /\ bound[j] # None
                /\ pending[j].run = pending[i].run
                /\ pending[j].ordinal = n

ExecutionBound ==
    \A x \in executing :
        /\ remote[x] # None
        /\ bound[remote[x]] # None
        /\ bound[remote[x]].server = x

IInv ==
    /\ TInv
    /\ AttemptShape
    /\ OutcomeShape
    /\ ServersAgree
    /\ Grounded
    /\ BoundDecided
    /\ BinderFits
    /\ PlacesDistinct
    /\ OneBindingPerServerRun
    /\ NoGap
    /\ ExecutionBound
-----------------------------------------------------------------------------
(* Each part holds after a step.                                           *)

\* A row is never the absent row.
LEMMA RowIsNotNone ==
    /\ \A r \in Runs, n \in Ordinals, s \in Sessions :
          [run |-> r, ordinal |-> n, session |-> s] # None
    /\ \A o \in Observation, d \in Digests :
          o # None /\ [event |-> d, seen |-> o] # None
    /\ \A i \in Invocations, row \in BoundRow :
          row # None /\ [invocation |-> i, row |-> row] # None
    /\ None # "DO_NOT_RETRY" /\ None # "ABANDON_RUN"
BY DEF PendingRow, Observation, CaseRow, BoundRow, BindTxn, Decisions

\* A step that reports an observation keeps the others.
LEMMA ObservationsStay ==
    ASSUME TypeOK, NEW i \in Invocations, NEW d \in Digests,
           NEW o \in Observation,
           RecordOrphan(i, d, o) \/ MarkRecoveryRequired(i, d, o),
           NEW k \in Invocations, NEW e \in Digests
    PROVE  \/ observed'[k][e] = observed[k][e]
           \/ /\ k = i /\ e = d
              /\ observed[k][e] = None /\ observed'[k][e] = o
              /\ bound[i] = None
              /\ o.server # None => KnownServers(i) \subseteq {o.server}
<1> USE DEF TypeOK
<1>1. CASE observed' = [observed EXCEPT ![i][d] = o] /\ MayAppend(i, d, o)
  BY <1>1 DEF MayAppend
<1>2. CASE UNCHANGED observed
  BY <1>2
<1>3. QED
  BY <1>1, <1>2 DEF RecordOrphan, MarkRecoveryRequired

\* Snapshots of an action appear in the order of its life.
LEMMA AttemptStep == IInv /\ TypeOK' /\ [Next]_vars => AttemptShape'
<1> SUFFICES ASSUME IInv, TypeOK', [Next]_vars PROVE AttemptShape'
  OBVIOUS
<1> USE DEF IInv, TInv, TypeOK, AttemptShape, Dispatched
<1>1. ASSUME NEW i \in Invocations, NEW r \in Runs, NEW n \in Ordinals,
             NEW s \in Sessions,
             BeginRunCreate(i, r, n, s)
      PROVE  AttemptShape'
  BY <1>1, RowIsNotNone DEF BeginRunCreate
<1>2. ASSUME NEW i \in Invocations,
             MarkDispatched(i)
      PROVE  AttemptShape'
  BY <1>2 DEF MarkDispatched, Locked, StatePending, Terminal
<1>3. ASSUME NEW i \in Invocations,
             MarkFailedBeforeDispatch(i)
      PROVE  AttemptShape'
  BY <1>3 DEF MarkFailedBeforeDispatch, Locked, StatePending
<1>4. ASSUME NEW i \in Invocations, NEW x \in ServerRuns,
             RemoteCreate(i, x)
      PROVE  AttemptShape'
  BY <1>4 DEF RemoteCreate, rows
<1>5. ASSUME NEW i \in Invocations, NEW d \in Digests, NEW o \in Observation,
             RecordOrphan(i, d, o)
      PROVE  AttemptShape'
  BY <1>5 DEF RecordOrphan, MayAppend
<1>6. ASSUME NEW i \in Invocations, NEW d \in Digests, NEW o \in Observation,
             MarkRecoveryRequired(i, d, o)
      PROVE  AttemptShape'
  BY <1>6 DEF MarkRecoveryRequired, MayAppend
<1>7. ASSUME NEW r \in Runs,
             BindCommit(r)
      PROVE  AttemptShape'
  BY <1>7, SMTT(30) DEF BindCommit, BinderFits, Fits, BinderOK, BindTxn
<1>8. CASE UNCHANGED <<pending, attempts, observed, remote, bound>>
  BY <1>8
<1> HIDE DEF IInv, TInv, TypeOK, AttemptShape, Dispatched
<1>9. QED
  BY <1>1, <1>2, <1>3, <1>4, <1>5, <1>6, <1>7, <1>8
  DEF Next, vars, rows, BindAgentSession, OperatorRead, OperatorCommit,
     OperatorAbort, BindRead, BindAbort, OpenExecution

\* Outcomes, recovery cases and decisions come together.
LEMMA OutcomeStep == IInv /\ TypeOK' /\ [Next]_vars => OutcomeShape'
<1> SUFFICES ASSUME IInv, TypeOK', [Next]_vars PROVE OutcomeShape'
  OBVIOUS
<1> USE DEF IInv, TInv, TypeOK, OutcomeShape, Ambiguous, Terminal
<1>1. ASSUME NEW i \in Invocations, NEW r \in Runs, NEW n \in Ordinals,
             NEW s \in Sessions,
             BeginRunCreate(i, r, n, s)
      PROVE  OutcomeShape'
  BY <1>1 DEF BeginRunCreate, AttemptShape
<1>2. ASSUME NEW i \in Invocations,
             MarkDispatched(i)
      PROVE  OutcomeShape'
  BY <1>2 DEF MarkDispatched, Locked, StatePending, AttemptShape
<1>3. ASSUME NEW i \in Invocations,
             MarkFailedBeforeDispatch(i)
      PROVE  OutcomeShape'
  BY <1>3 DEF MarkFailedBeforeDispatch, Locked, StatePending, AttemptShape
<1>4. ASSUME NEW i \in Invocations, NEW d \in Digests, NEW o \in Observation,
             RecordOrphan(i, d, o)
      PROVE  OutcomeShape'
  BY <1>4 DEF RecordOrphan, MayAppend, CaseRow
<1>5. ASSUME NEW i \in Invocations, NEW d \in Digests, NEW o \in Observation,
             MarkRecoveryRequired(i, d, o)
      PROVE  OutcomeShape'
  <2>1. o # None /\ latest'[i] \in Digests /\ observed'[i][latest'[i]] = o
    <3>1. CASE /\ observed' = [observed EXCEPT ![i][d] = o]
               /\ latest' = [latest EXCEPT ![i] = d]
      BY <3>1, RowIsNotNone
    <3>2. CASE /\ observed[i][d] = o
               /\ observed[i][latest[i]] = o
               /\ UNCHANGED <<observed, latest>>
      BY <3>2, RowIsNotNone DEF LatestOK
    <3>3. QED
      BY <1>5, <3>1, <3>2 DEF MarkRecoveryRequired
  <2>2. cases'[i] # None /\ cases'[i].event = latest'[i] /\ cases'[i].seen = o
    BY <1>5, <2>1, RowIsNotNone DEF MarkRecoveryRequired
  <2>3. \A k \in Invocations \ {i} :
           /\ observed'[k] = observed[k]
           /\ cases'[k] = cases[k]
           /\ attempts'[k] = attempts[k]
    BY <1>5 DEF MarkRecoveryRequired
  <2>4. /\ attempts'[i] = attempts[i] \cup {"AMBIGUOUS_AFTER_DISPATCH"}
        /\ UNCHANGED <<bound, dispositions, operator>>
    BY <1>5 DEF MarkRecoveryRequired
  <2>5. QED
    BY <2>1, <2>2, <2>3, <2>4, <1>5 DEF MarkRecoveryRequired
<1>6. ASSUME NEW i \in Invocations, NEW decision \in Decisions,
             OperatorRead(i, decision)
      PROVE  OutcomeShape'
  BY <1>6 DEF OperatorRead, rows
<1>7. ASSUME NEW i \in Invocations,
             OperatorCommit(i)
      PROVE  OutcomeShape'
  BY <1>7 DEF OperatorCommit
<1>8. ASSUME NEW i \in Invocations,
             OperatorAbort(i)
      PROVE  OutcomeShape'
  BY <1>8 DEF OperatorAbort, rows
<1>9. ASSUME NEW r \in Runs,
             BindCommit(r)
      PROVE  OutcomeShape'
  BY <1>9, SMTT(30) DEF BindCommit, BinderFits, Fits, BinderOK, BindTxn, AttemptShape,
        Dispatched
<1>10. CASE UNCHANGED <<attempts, observed, cases, bound, dispositions, operator>>
  BY <1>10
<1> HIDE DEF IInv, TInv, TypeOK, OutcomeShape, Ambiguous, Terminal
<1>11. QED
  BY <1>1, <1>2, <1>3, <1>4, <1>5, <1>6, <1>7, <1>8, <1>9, <1>10
  DEF Next, vars, rows, BindAgentSession, RemoteCreate, BindRead,
     BindAbort, OpenExecution

\* What the guards on KnownServers and ExactServers say of the single rows.
LEMMA KnownServer ==
    ASSUME NEW i \in Invocations, NEW d \in Digests,
           observed[i][d] # None, observed[i][d].server # None
    PROVE  observed[i][d].server \in KnownServers(i)
BY DEF KnownServers, Events

LEMMA ExactServer ==
    ASSUME NEW i \in Invocations, HasOneExactServer(i)
    PROVE  HasExact(i)
<1>1. PICK x \in ServerRuns : ExactServers(i) = {x}
  BY DEF HasOneExactServer
<1>2. PICK d \in Digests :
         /\ observed[i][d] # None
         /\ observed[i][d].status # None
         /\ observed[i][d].server = x
  BY <1>1 DEF ExactServers, Events
<1>3. x # None
  OBVIOUS
<1>4. QED
  BY <1>2, <1>3 DEF HasExact

\* No step adds an observation or a binding of another server run.
LEMMA ServersStep == IInv /\ TypeOK' /\ [Next]_vars => ServersAgree'
<1> SUFFICES ASSUME IInv, TypeOK', [Next]_vars PROVE ServersAgree'
  OBVIOUS
<1> USE DEF IInv, TInv, TypeOK, ServersAgree
<1>1. ASSUME NEW i \in Invocations, NEW d \in Digests, NEW o \in Observation,
             RecordOrphan(i, d, o)
      PROVE  ServersAgree'
  BY <1>1, KnownServer DEF RecordOrphan, MayAppend
<1>2. ASSUME NEW i \in Invocations, NEW d \in Digests, NEW o \in Observation,
             MarkRecoveryRequired(i, d, o)
      PROVE  ServersAgree'
  BY <1>2, KnownServer DEF MarkRecoveryRequired, MayAppend
<1>3. ASSUME NEW r \in Runs,
             BindCommit(r)
      PROVE  ServersAgree'
  BY <1>3, SMTT(30) DEF BindCommit, BinderFits, Fits, BinderOK, BindTxn
<1>4. CASE UNCHANGED <<observed, bound>>
  BY <1>4
<1> HIDE DEF IInv, TInv, TypeOK, ServersAgree
<1>5. QED
  BY <1>1, <1>2, <1>3, <1>4
  DEF Next, vars, rows, BindAgentSession, BeginRunCreate,
      MarkDispatched, MarkFailedBeforeDispatch, RemoteCreate,
      OperatorRead, OperatorCommit, OperatorAbort, BindRead, BindAbort,
      OpenExecution

\* A decision, written or on its way, keeps its observation.
LEMMA GroundedStep == IInv /\ TypeOK' /\ [Next]_vars => Grounded'
<1> SUFFICES ASSUME IInv, TypeOK', [Next]_vars PROVE Grounded'
  OBVIOUS
<1> USE DEF IInv, TInv, TypeOK, Grounded, HasExact
<1>1. ASSUME NEW i \in Invocations, NEW d \in Digests, NEW o \in Observation,
             RecordOrphan(i, d, o)
      PROVE  Grounded'
  <2>1. \A k \in Invocations : HasExact(k) => HasExact(k)'
    BY <1>1, RowIsNotNone, ObservationsStay
  <2>2. UNCHANGED <<dispositions, operator>>
    BY <1>1 DEF RecordOrphan
  <2> HIDE DEF HasExact
  <2>3. QED
    BY <2>1, <2>2
<1>2. ASSUME NEW i \in Invocations, NEW d \in Digests, NEW o \in Observation,
             MarkRecoveryRequired(i, d, o)
      PROVE  Grounded'
  <2>1. \A k \in Invocations : HasExact(k) => HasExact(k)'
    BY <1>2, RowIsNotNone, ObservationsStay
  <2>2. UNCHANGED <<dispositions, operator>>
    BY <1>2 DEF MarkRecoveryRequired
  <2> HIDE DEF HasExact
  <2>3. QED
    BY <2>1, <2>2
<1>3. ASSUME NEW i \in Invocations, NEW decision \in Decisions,
             OperatorRead(i, decision)
      PROVE  Grounded'
  BY <1>3, ExactServer DEF OperatorRead, rows
<1>4. ASSUME NEW i \in Invocations,
             OperatorCommit(i)
      PROVE  Grounded'
  BY <1>4 DEF OperatorCommit
<1>5. ASSUME NEW i \in Invocations,
             OperatorAbort(i)
      PROVE  Grounded'
  BY <1>5, RowIsNotNone DEF OperatorAbort, rows
<1>6. CASE UNCHANGED <<observed, dispositions, operator>>
  BY <1>6
<1> HIDE DEF IInv, TInv, TypeOK, Grounded, HasExact
<1>7. QED
  BY <1>1, <1>2, <1>3, <1>4, <1>5, <1>6
  DEF Next, vars, rows, BindAgentSession, BeginRunCreate,
      MarkDispatched, MarkFailedBeforeDispatch, RemoteCreate, BindRead,
      BindCommit, BindAbort, OpenExecution

\* An ambiguous action that is bound was released, exactly as bound.
LEMMA DecidedStep == IInv /\ TypeOK' /\ [Next]_vars => BoundDecided'
<1> SUFFICES ASSUME IInv, TypeOK', [Next]_vars PROVE BoundDecided'
  OBVIOUS
<1> USE DEF IInv, TInv, TypeOK, BoundDecided, Ambiguous, Released
<1>1. ASSUME NEW i \in Invocations, NEW r \in Runs, NEW n \in Ordinals,
             NEW s \in Sessions,
             BeginRunCreate(i, r, n, s)
      PROVE  BoundDecided'
  BY <1>1 DEF BeginRunCreate, AttemptShape
<1>2. ASSUME NEW i \in Invocations,
             MarkDispatched(i)
      PROVE  BoundDecided'
  BY <1>2 DEF MarkDispatched
<1>3. ASSUME NEW i \in Invocations,
             MarkFailedBeforeDispatch(i)
      PROVE  BoundDecided'
  BY <1>3 DEF MarkFailedBeforeDispatch
<1>4. ASSUME NEW i \in Invocations, NEW d \in Digests, NEW o \in Observation,
             RecordOrphan(i, d, o)
      PROVE  BoundDecided'
  BY <1>4 DEF RecordOrphan, MayAppend
<1>5. ASSUME NEW i \in Invocations, NEW d \in Digests, NEW o \in Observation,
             MarkRecoveryRequired(i, d, o)
      PROVE  BoundDecided'
  BY <1>5 DEF MarkRecoveryRequired, MayAppend
<1>6. ASSUME NEW i \in Invocations,
             OperatorCommit(i)
      PROVE  BoundDecided'
  BY <1>6, RowIsNotNone DEF OperatorCommit
<1>7. ASSUME NEW r \in Runs,
             BindCommit(r)
      PROVE  BoundDecided'
  <2>1. PICK i \in Invocations, row \in BoundRow :
           /\ binder[r] # None /\ i = binder[r].invocation /\ row = binder[r].row
           /\ bound' = [bound EXCEPT ![i] = row]
           /\ \A k \in Invocations : Ambiguous(k)' => Ambiguous(k)
           /\ UNCHANGED <<observed, dispositions>>
    <3> HIDE DEF Released, BoundDecided
    <3>1. binder[r] # None /\ binder[r] \in BindTxn
          /\ attempts \in [Invocations -> SUBSET Snapshots]
      BY <1>7 DEF BindCommit
    <3>2. PICK i \in Invocations, row \in BoundRow :
             i = binder[r].invocation /\ row = binder[r].row
      BY <3>1 DEF BindTxn
    <3>3. /\ bound' = [bound EXCEPT ![i] = row] /\ UNCHANGED <<observed, dispositions>>
          /\ attempts' = [attempts EXCEPT ![i] = IF Terminal(i) THEN @
                                                 ELSE @ \cup {"APPLIED"}]
      BY <1>7, <3>2 DEF BindCommit
    <3> HIDE DEF IInv, TInv, TypeOK
    <3>4. \A k \in Invocations : Ambiguous(k)' => Ambiguous(k)
      BY <3>1, <3>2, <3>3
    <3> QED
      BY <3>1, <3>2, <3>3, <3>4
  <2>2. Ambiguous(i) => Released(i, row)
    BY <2>1 DEF BinderFits, Fits
  <2>3. BoundDecided /\ bound \in [Invocations -> BoundRow \cup {None}]
    OBVIOUS
  <2>4. \A k \in Invocations, w \in BoundRow : Released(k, w) => Released(k, w)'
    BY <2>1 DEF Released
  <2> HIDE DEF IInv, TInv, TypeOK, Released, Ambiguous
  <2>5. ASSUME NEW k \in Invocations, bound'[k] # None, Ambiguous(k)'
        PROVE  Released(k, bound[k])'
    <3>1. Ambiguous(k) /\ bound'[k] \in BoundRow
      BY <2>1, <2>3, <2>5
    <3>2. Released(k, bound'[k])
      BY <2>1, <2>2, <2>3, <2>5, <3>1
    <3> QED
      BY <2>4, <3>1, <3>2
  <2>6. QED
    BY <2>5
<1>8. CASE UNCHANGED <<attempts, observed, dispositions, bound>>
  BY <1>8
<1> HIDE DEF IInv, TInv, TypeOK, BoundDecided, Ambiguous, Released
<1>9. QED
  BY <1>1, <1>2, <1>3, <1>4, <1>5, <1>6, <1>7, <1>8
  DEF Next, vars, rows, BindAgentSession, RemoteCreate, OperatorRead,
      OperatorAbort, BindRead, BindAbort, OpenExecution

\* While a bind holds the run lock, what it read stays so.
LEMMA BinderFitsStep == IInv /\ TypeOK' /\ [Next]_vars => BinderFits'
<1> SUFFICES ASSUME IInv, TypeOK', [Next]_vars PROVE BinderFits'
  OBVIOUS
<1> USE DEF IInv, TInv, TypeOK, BinderFits, Fits, BinderOK, BindTxn, Dispatched,
          Ambiguous, Released
<1>1. ASSUME NEW i \in Invocations, NEW r \in Runs, NEW n \in Ordinals,
             NEW s \in Sessions,
             BeginRunCreate(i, r, n, s)
      PROVE  BinderFits'
  BY <1>1, SMTT(30) DEF BeginRunCreate, AttemptShape
<1>2. ASSUME NEW i \in Invocations,
             MarkDispatched(i)
      PROVE  BinderFits'
  BY <1>2, SMTT(30) DEF MarkDispatched, Locked
<1>3. ASSUME NEW i \in Invocations,
             MarkFailedBeforeDispatch(i)
      PROVE  BinderFits'
  BY <1>3, SMTT(30) DEF MarkFailedBeforeDispatch, Locked
<1>4. ASSUME NEW i \in Invocations, NEW d \in Digests, NEW o \in Observation,
             RecordOrphan(i, d, o)
      PROVE  BinderFits'
  <2>1. \A r \in Runs : binder[r] # None => binder[r].invocation # i
    BY <1>4 DEF RecordOrphan, Locked, LockFree
  <2>2. \A k \in Invocations \ {i} :
           attempts'[k] = attempts[k]
           /\ \A e \in Digests : observed'[k][e] = observed[k][e]
    BY <1>4, ObservationsStay DEF RecordOrphan
  <2>3. UNCHANGED <<bound, binder, dispositions>>
    BY <1>4 DEF RecordOrphan
  <2>4. QED
    BY <2>1, <2>2, <2>3
<1>5. ASSUME NEW i \in Invocations, NEW d \in Digests, NEW o \in Observation,
             MarkRecoveryRequired(i, d, o)
      PROVE  BinderFits'
  <2>1. \A r \in Runs : binder[r] # None => binder[r].invocation # i
    BY <1>5 DEF MarkRecoveryRequired, Locked, LockFree
  <2>2. \A k \in Invocations \ {i} :
           attempts'[k] = attempts[k]
           /\ \A e \in Digests : observed'[k][e] = observed[k][e]
    BY <1>5, ObservationsStay, SMTT(30) DEF MarkRecoveryRequired
  <2>3. UNCHANGED <<bound, binder, dispositions>>
    BY <1>5 DEF MarkRecoveryRequired
  <2>4. QED
    BY <2>1, <2>2, <2>3
<1>6. ASSUME NEW i \in Invocations,
             OperatorCommit(i)
      PROVE  BinderFits'
  BY <1>6, RowIsNotNone, SMTT(30) DEF OperatorCommit
<1>7. ASSUME NEW i \in Invocations, NEW row \in BoundRow,
             BindRead(i, row)
      PROVE  BinderFits'
  <2>1. /\ pending[i] # None /\ Dispatched(i) /\ bound[i] = None
        /\ KnownServers(i) \subseteq {row.server}
        /\ Ambiguous(i) => RecoveryAllows(i, row)
        /\ binder' = [binder EXCEPT
                         ![pending[i].run] = [invocation |-> i, row |-> row]]
        /\ UNCHANGED <<attempts, observed, dispositions, bound>>
    BY <1>7 DEF BindRead, Locked, Terminal, rows
  <2>2. Fits(i, row)
    BY <2>1, KnownServer DEF RecoveryAllows
  <2>3. BinderFits /\ binder \in [Runs -> BindTxn \cup {None}]
    OBVIOUS
  <2>4. \A q \in Runs : binder'[q] # None =>
           binder'[q] = binder[q] \/ binder'[q] = [invocation |-> i, row |-> row]
    BY <2>1, <2>3
  <2>5. \A k, w : Fits(k, w) => Fits(k, w)'
    BY <2>1
  <2> HIDE DEF IInv, TInv, TypeOK, Fits
  <2>6. QED
    BY <2>2, <2>3, <2>4, <2>5
<1>8. ASSUME NEW r \in Runs,
             BindCommit(r)
      PROVE  BinderFits'
  <2>0. \A q \in Runs : binder'[q] # None => q # r /\ binder'[q] = binder[q]
    <3>1. binder \in [Runs -> BindTxn \cup {None}]
          /\ binder' = [binder EXCEPT ![r] = None]
      BY <1>8 DEF BindCommit
    <3> HIDE DEF IInv, TInv, TypeOK, BinderFits, Fits, BinderOK, BindTxn, Dispatched,
              Ambiguous, Released
    <3> QED
      BY <3>1
  <2>1. \A q \in Runs : binder'[q] # None =>
           /\ q # r /\ binder'[q] = binder[q]
           /\ binder[q].invocation # binder[r].invocation
    <3>1. binder[r] # None /\ BinderOK
      BY <1>8 DEF BindCommit
    <3> HIDE DEF IInv, TInv, TypeOK, BinderFits, Fits, BindTxn, Dispatched,
              Ambiguous, Released
    <3> QED
      BY <2>0, <3>1
  <2>2. \A k \in Invocations \ {binder[r].invocation} :
           attempts'[k] = attempts[k] /\ bound'[k] = bound[k]
    BY <1>8, SMTT(30) DEF BindCommit
  <2>3. UNCHANGED <<observed, dispositions>>
    BY <1>8 DEF BindCommit
  <2>4. \A q \in Runs : binder[q] # None => binder[q].invocation \in Invocations
    OBVIOUS
  <2>5. \A k \in Invocations, row \in BoundRow :
           k # binder[r].invocation /\ Fits(k, row) => Fits(k, row)'
    BY <2>2, <2>3
  <2>6. \A q \in Runs : binder[q] # None => binder[q].row \in BoundRow
    OBVIOUS
  <2> HIDE DEF Fits
  <2>7. QED
    BY <2>1, <2>4, <2>5, <2>6, ZenonT(60)
<1>9. ASSUME NEW r \in Runs,
             BindAbort(r)
      PROVE  BinderFits'
  BY <1>9, SMTT(30) DEF BindAbort, rows
<1>10. CASE UNCHANGED <<attempts, observed, dispositions, bound, binder>>
  BY <1>10
<1> HIDE DEF IInv, TInv, TypeOK, BinderFits, Fits, BinderOK, BindTxn, Dispatched,
          Ambiguous, Released
<1>11. QED
  BY <1>1, <1>2, <1>3, <1>4, <1>5, <1>6, <1>7, <1>8, <1>9, <1>10
  DEF Next, vars, rows, BindAgentSession, RemoteCreate, OperatorRead,
      OperatorAbort, OpenExecution

\* Two invocations never take one place of a run.
LEMMA PlacesStep == IInv /\ TypeOK' /\ [Next]_vars => PlacesDistinct'
<1> SUFFICES ASSUME IInv, TypeOK', [Next]_vars PROVE PlacesDistinct'
  OBVIOUS
<1> USE DEF IInv, TInv, TypeOK, PlacesDistinct
<1>1. ASSUME NEW i \in Invocations, NEW r \in Runs, NEW n \in Ordinals,
             NEW s \in Sessions,
             BeginRunCreate(i, r, n, s)
      PROVE  PlacesDistinct'
  BY <1>1, RowIsNotNone DEF BeginRunCreate
<1>2. CASE UNCHANGED <<pending>>
  BY <1>2
<1> HIDE DEF IInv, TInv, TypeOK, PlacesDistinct
<1>3. QED
  BY <1>1, <1>2
  DEF Next, vars, rows, BindAgentSession, MarkDispatched,
      MarkFailedBeforeDispatch, RemoteCreate, RecordOrphan,
      MarkRecoveryRequired, OperatorRead, OperatorCommit,
      OperatorAbort, BindRead, BindCommit, BindAbort, OpenExecution

\* A server run is bound once.
LEMMA OneBindingStep == IInv /\ TypeOK' /\ [Next]_vars => OneBindingPerServerRun'
<1> SUFFICES ASSUME IInv, TypeOK', [Next]_vars PROVE OneBindingPerServerRun'
  OBVIOUS
<1> USE DEF IInv, TInv, TypeOK, OneBindingPerServerRun
<1>1. ASSUME NEW r \in Runs,
             BindCommit(r)
      PROVE  OneBindingPerServerRun'
  BY <1>1 DEF BindCommit, NoOtherRow, BinderOK, BindTxn
<1>2. CASE UNCHANGED <<bound>>
  BY <1>2
<1> HIDE DEF IInv, TInv, TypeOK, OneBindingPerServerRun
<1>3. QED
  BY <1>1, <1>2
  DEF Next, vars, rows, BindAgentSession, BeginRunCreate,
      MarkDispatched, MarkFailedBeforeDispatch, RemoteCreate,
      RecordOrphan, MarkRecoveryRequired, OperatorRead, OperatorCommit,
      OperatorAbort, BindRead, BindAbort, OpenExecution

\* A bound invocation has its predecessors bound.
LEMMA NoGapStep == IInv /\ TypeOK' /\ [Next]_vars => NoGap'
<1> SUFFICES ASSUME IInv, TypeOK', [Next]_vars PROVE NoGap'
  OBVIOUS
<1> USE DEF IInv, TInv, TypeOK, NoGap
<1>1. ASSUME NEW i \in Invocations, NEW r \in Runs, NEW n \in Ordinals,
             NEW s \in Sessions,
             BeginRunCreate(i, r, n, s)
      PROVE  NoGap'
  <2>1. bound[i] = None
    BY <1>1 DEF BeginRunCreate, AttemptShape, Dispatched
  <2>2. \A k \in Invocations : bound[k] # None => pending'[k] = pending[k]
    BY <1>1, <2>1 DEF BeginRunCreate
  <2>3. bound' = bound
    BY <1>1 DEF BeginRunCreate
  <2>4. NoGap
    OBVIOUS
  <2> HIDE DEF IInv, TInv, TypeOK
  <2>5. QED
    BY <2>2, <2>3, <2>4
<1>2. ASSUME NEW r \in Runs,
             BindCommit(r)
      PROVE  NoGap'
  <2> DEFINE i == binder[r].invocation
  <2>1. /\ i \in Invocations /\ bound'[i] # None
        /\ pending[i] # None /\ pending[i].run = r
        /\ UNCHANGED pending
        /\ InSequence(r, pending[i].ordinal)
        /\ \A k \in Invocations \ {i} : bound'[k] = bound[k]
    BY <1>2, RowIsNotNone DEF BindCommit, BinderOK, BindTxn
  <2>2. PICK m \in 0..MaxOrdinal :
           BoundOrdinals(r) = 1..m /\ pending[i].ordinal <= m + 1
    BY <2>1 DEF InSequence
  <2>3. pending[i].ordinal \in Nat
    BY <2>1 DEF PendingRow
  <2>4. \A n \in 1..(pending[i].ordinal - 1) : n \in BoundOrdinals(r)
    BY <2>2, <2>3
  <2>5. \A n \in 1..(pending[i].ordinal - 1) :
           \E j \in Invocations :
               bound[j] # None /\ pending[j].run = r /\ pending[j].ordinal = n
    <3> HIDE DEF IInv, TInv, TypeOK, NoGap, i
    <3> QED
      BY <2>4 DEF BoundOrdinals, BoundIn
  <2>6. \A k \in Invocations : bound[k] # None => bound'[k] # None
    BY <2>1
  <2>7. SUFFICES ASSUME NEW k \in Invocations, bound'[k] # None,
                        NEW n \in 1..(pending[k].ordinal - 1)
                 PROVE  \E j \in Invocations :
                            /\ bound'[j] # None
                            /\ pending[j].run = pending[k].run
                            /\ pending[j].ordinal = n
    BY <2>1
  <2>8. CASE k = i
    BY <2>1, <2>5, <2>6, <2>8
  <2>9. CASE k # i
    <3>1. bound[k] # None
      BY <2>1, <2>7, <2>9
    <3>2. PICK j \in Invocations :
             /\ bound[j] # None
             /\ pending[j].run = pending[k].run
             /\ pending[j].ordinal = n
      BY <3>1, <2>7
    <3>3. QED
      BY <3>2, <2>6
  <2>10. QED
    BY <2>8, <2>9
<1>3. CASE UNCHANGED <<pending, bound>>
  BY <1>3
<1> HIDE DEF IInv, TInv, TypeOK, NoGap
<1>4. QED
  BY <1>1, <1>2, <1>3
  DEF Next, vars, rows, BindAgentSession, MarkDispatched,
      MarkFailedBeforeDispatch, RemoteCreate, RecordOrphan,
      MarkRecoveryRequired, OperatorRead, OperatorCommit,
      OperatorAbort, BindRead, BindAbort, OpenExecution

\* A server run that executes is the bound one.
LEMMA ExecutionStep == IInv /\ TypeOK' /\ [Next]_vars => ExecutionBound'
<1> SUFFICES ASSUME IInv, TypeOK', [Next]_vars PROVE ExecutionBound'
  OBVIOUS
<1> USE DEF IInv, TInv, TypeOK, ExecutionBound
<1>1. ASSUME NEW i \in Invocations, NEW x \in ServerRuns,
             RemoteCreate(i, x)
      PROVE  ExecutionBound'
  BY <1>1 DEF RemoteCreate, rows
<1>2. ASSUME NEW r \in Runs,
             BindCommit(r)
      PROVE  ExecutionBound'
  BY <1>2 DEF BindCommit, BinderFits, Fits, BinderOK, BindTxn
<1>3. ASSUME NEW x \in ServerRuns,
             OpenExecution(x)
      PROVE  ExecutionBound'
  BY <1>3 DEF OpenExecution, rows
<1>4. CASE UNCHANGED <<executing, remote, bound>>
  BY <1>4
<1> HIDE DEF IInv, TInv, TypeOK, ExecutionBound
<1>5. QED
  BY <1>1, <1>2, <1>3, <1>4
  DEF Next, vars, rows, BindAgentSession, BeginRunCreate,
      MarkDispatched, MarkFailedBeforeDispatch, RecordOrphan,
      MarkRecoveryRequired, OperatorRead, OperatorCommit,
      OperatorAbort, BindRead, BindAbort

LEMMA IInvInit == Init => IInv
<1> SUFFICES ASSUME Init PROVE IInv
  OBVIOUS
<1>1. TInv
  BY TypeInit
<1>2. AttemptShape /\ OutcomeShape /\ ServersAgree /\ Grounded /\ BoundDecided
  BY DEF Init, AttemptShape, OutcomeShape, ServersAgree, Grounded,
         BoundDecided, Dispatched, Terminal, Ambiguous, Decisions
<1>3. BinderFits /\ PlacesDistinct /\ OneBindingPerServerRun /\ NoGap
      /\ ExecutionBound
  BY DEF Init, BinderFits, PlacesDistinct, OneBindingPerServerRun, NoGap,
         ExecutionBound
<1>4. QED
  BY <1>1, <1>2, <1>3 DEF IInv

LEMMA IInvStep == IInv /\ [Next]_vars => IInv'
<1> SUFFICES ASSUME IInv, [Next]_vars PROVE IInv'
  OBVIOUS
<1>1. TInv
  BY DEF IInv
<1>2. TypeOK' /\ LatestOK' /\ BinderOK'
  BY <1>1, TypeStep, LatestStep, BinderStep
<1>3. AttemptShape' /\ OutcomeShape' /\ ServersAgree' /\ Grounded'
  BY <1>2, AttemptStep, OutcomeStep, ServersStep, GroundedStep
<1>4. BoundDecided' /\ BinderFits' /\ PlacesDistinct'
  BY <1>2, DecidedStep, BinderFitsStep, PlacesStep
<1>5. OneBindingPerServerRun' /\ NoGap' /\ ExecutionBound'
  BY <1>2, OneBindingStep, NoGapStep, ExecutionStep
<1>6. QED
  BY <1>2, <1>3, <1>4, <1>5 DEF IInv, TInv

\* The inductive invariant holds in every reachable state: the tables agree with
\* each other, and with the transactions in flight, after every committed step.
THEOREM Inductive == Spec => []IInv
BY IInvInit, IInvStep, PTL DEF Spec

-----------------------------------------------------------------------------
(* The safety invariants follow from the inductive one.                    *)

\* A server run executes on behalf of one invocation only, however many
\* clients bind and whichever run locks they hold (bind_run_invocation).
THEOREM OneBinding == Spec => []OneBindingPerServerRun
<1>1. IInv => OneBindingPerServerRun
  BY DEF IInv
<1>2. QED
  BY <1>1, Inductive, PTL

\* The bound invocations of a run are numbered without a gap or a double
\* (bind_run_invocation, get_research_run_aggregate).
THEOREM SequenceClosed == Spec => []BoundSequenceClosed
<1>1. IInv => BoundSequenceClosed
  <2> SUFFICES ASSUME IInv, NEW i \in Invocations, bound[i] # None
               PROVE  /\ \A j \in BoundIn(pending[i].run) \ {i} :
                            pending[j].ordinal # pending[i].ordinal
                      /\ \A n \in 1..(pending[i].ordinal - 1) :
                            n \in BoundOrdinals(pending[i].run)
    BY DEF BoundSequenceClosed
  <2>1. \A j \in Invocations : bound[j] # None => pending[j] # None
    BY DEF IInv, AttemptShape, Dispatched
  <2>2. QED
    BY <2>1 DEF IInv, PlacesDistinct, NoGap, BoundIn, BoundOrdinals
<1>2. QED
  BY <1>1, Inductive, PTL

\* An intent closed as failed-before-dispatch never had a remote call
\* (mark_run_create_failed_before_dispatch).
THEOREM FailedNeverDispatched == Spec => []FailedMeansNeverDispatched
<1>1. IInv => FailedMeansNeverDispatched
  <2> SUFFICES ASSUME IInv, NEW i \in Invocations,
                      "FAILED_BEFORE_DISPATCH" \in attempts[i]
               PROVE  /\ attempts[i] = {"INTENT_COMMITTED", "FAILED_BEFORE_DISPATCH"}
                      /\ \A x \in ServerRuns : remote[x] # i
                      /\ Events(i) = {} /\ cases[i] = None /\ bound[i] = None
    BY DEF FailedMeansNeverDispatched
  <2>1. ~Dispatched(i) /\ pending[i] # None
    BY DEF IInv, AttemptShape
  <2>2. /\ attempts[i] \subseteq {"INTENT_COMMITTED", "FAILED_BEFORE_DISPATCH"}
        /\ "INTENT_COMMITTED" \in attempts[i]
        /\ \A d \in Digests : observed[i][d] = None
        /\ \A x \in ServerRuns : remote[x] # i
        /\ bound[i] = None
    BY <2>1 DEF IInv, AttemptShape
  <2>3. cases[i] = None
    BY <2>2 DEF IInv, OutcomeShape, Ambiguous
  <2>4. QED
    BY <2>2, <2>3 DEF Events
<1>2. QED
  BY <1>1, Inductive, PTL

\* All that is durable about an invocation names one server run, whichever
\* clients reported it (_append_orphan_observation, bind_run_invocation).
THEOREM IdentityAgrees == Spec => []ServerIdentityAgrees
<1>1. IInv => ServerIdentityAgrees
  <2> SUFFICES ASSUME IInv, NEW i \in Invocations
               PROVE  /\ \A x, y \in KnownServers(i) : x = y
                      /\ cases[i] # None /\ cases[i].seen.server # None =>
                            KnownServers(i) = {cases[i].seen.server}
                      /\ bound[i] # None =>
                            KnownServers(i) \subseteq {bound[i].server}
    BY DEF ServerIdentityAgrees
  <2>1. \A x, y \in KnownServers(i) : x = y
    BY DEF IInv, ServersAgree, KnownServers, Events
  <2>2. ASSUME cases[i] # None, cases[i].seen.server # None
        PROVE  KnownServers(i) = {cases[i].seen.server}
    <3>1. cases[i].event \in Digests /\ cases[i].seen \in Observation
      BY <2>2 DEF IInv, TInv, TypeOK, CaseRow
    <3>2. observed[i][cases[i].event] = cases[i].seen
      BY <2>2 DEF IInv, OutcomeShape
    <3>3. cases[i].seen.server \in KnownServers(i)
      BY <2>2, <3>1, <3>2, RowIsNotNone DEF KnownServers, Events
    <3>4. QED
      BY <2>1, <3>3
  <2>3. bound[i] # None => KnownServers(i) \subseteq {bound[i].server}
    BY DEF IInv, ServersAgree, KnownServers, Events
  <2>4. QED
    BY <2>1, <2>2, <2>3
<1>2. QED
  BY <1>1, Inductive, PTL

\* What operators decided is what was bound, though they do not hold the run
\* lock (bind_run_invocation, record_recovery_disposition).
THEOREM OperatorHasDecided == Spec => []OperatorDecides
<1>1. IInv => OperatorDecides
  <2> SUFFICES ASSUME IInv, NEW i \in Invocations
               PROVE  /\ Ambiguous(i) /\ bound[i] # None => Released(i, bound[i])
                      /\ dispositions[i] = "ABANDON_RUN" =>
                            /\ bound[i] = None
                            /\ \A x \in executing : remote[x] # i
    BY DEF OperatorDecides, Released
  <2>1. Ambiguous(i) /\ bound[i] # None => Released(i, bound[i])
    BY DEF IInv, BoundDecided
  <2>2. dispositions[i] = "ABANDON_RUN" => bound[i] = None
    BY <2>1, RowIsNotNone DEF IInv, OutcomeShape, Released
  <2>3. bound[i] = None => \A x \in executing : remote[x] # i
    BY DEF IInv, ExecutionBound
  <2>4. QED
    BY <2>1, <2>2, <2>3
<1>2. QED
  BY <1>1, Inductive, PTL

\* The one exact server run an operator decided on stays the only one
\* (require_valid_recovery_disposition, record_run_create_orphan).
THEOREM StaysGrounded == Spec => []DecisionStaysGrounded
<1>1. IInv => DecisionStaysGrounded
  <2> SUFFICES ASSUME IInv, NEW i \in Invocations,
                      dispositions[i] = "DO_NOT_RETRY"
               PROVE  HasOneExactServer(i)
    BY DEF DecisionStaysGrounded
  <2>1. PICK d \in Digests : /\ observed[i][d] # None
                             /\ observed[i][d].server # None
                             /\ observed[i][d].status # None
    BY DEF IInv, Grounded, HasExact
  <2>2. observed[i][d].server \in ServerRuns
    BY <2>1 DEF IInv, TInv, TypeOK, Observation
  <2>3. ExactServers(i) = {observed[i][d].server}
    BY <2>1 DEF IInv, ServersAgree, ExactServers, Events
  <2>4. QED
    BY <2>2, <2>3 DEF HasOneExactServer
<1>2. QED
  BY <1>1, Inductive, PTL

\* A recovery case is anchored in the observation it was opened with
\* (mark_run_create_recovery_required, require_valid_recovery_case).
THEOREM CasesAnchored == Spec => []CaseAnchored
<1>1. IInv => CaseAnchored
  BY DEF IInv, OutcomeShape, CaseAnchored
<1>2. QED
  BY <1>1, Inductive, PTL

\* However many server runs were created for an invocation, one executes
\* (_require_durable_execution_binding).
THEOREM OneExecution == Spec => []OneExecutionPerInvocation
<1>1. IInv => OneExecutionPerInvocation
  BY DEF IInv, ExecutionBound, OneExecutionPerInvocation
<1>2. QED
  BY <1>1, Inductive, PTL

\* A failed or abandoned place ends its run (begin_run_create's ordinal
\* conflict with the gap check of bind_run_invocation).
THEOREM ClosedEndsRun == Spec => []ClosedOrdinalEndsRun
<1>1. IInv => ClosedOrdinalEndsRun
  <2> SUFFICES ASSUME IInv, NEW i \in Invocations, Closed(i),
                      NEW j \in Invocations, pending[j] # None,
                      pending[j].run = pending[i].run,
                      pending[j].ordinal >= pending[i].ordinal,
                      bound[j] # None
               PROVE  FALSE
    BY DEF ClosedOrdinalEndsRun
  <2>1. bound[i] = None
    <3>1. CASE "FAILED_BEFORE_DISPATCH" \in attempts[i]
      BY <3>1 DEF IInv, AttemptShape
    <3>2. CASE dispositions[i] = "ABANDON_RUN"
      BY <3>2, RowIsNotNone DEF IInv, OutcomeShape, BoundDecided, Released
    <3>3. QED
      BY <3>1, <3>2 DEF Closed
  <2>2. pending[i] # None
    <3>1. attempts[i] # {}
      BY RowIsNotNone DEF IInv, OutcomeShape, Closed, Ambiguous
    <3>2. QED
      BY <3>1 DEF IInv, AttemptShape
  <2>3. pending[i].ordinal \in 1..MaxOrdinal /\ pending[j].ordinal \in 1..MaxOrdinal
    BY <2>2 DEF IInv, TInv, TypeOK, PendingRow
  <2>4. PICK k \in Invocations :
           /\ bound[k] # None
           /\ pending[k].run = pending[i].run
           /\ pending[k].ordinal = pending[i].ordinal
    <3>1. CASE pending[j].ordinal = pending[i].ordinal
      BY <3>1
    <3>2. CASE pending[i].ordinal \in 1..(pending[j].ordinal - 1)
      BY <3>2 DEF IInv, NoGap
    <3>3. QED
      BY <2>3, <3>1, <3>2
  <2>5. pending[k] # None
    BY <2>4 DEF IInv, AttemptShape, Dispatched
  <2>6. QED
    BY <2>1, <2>2, <2>4, <2>5 DEF IInv, PlacesDistinct
<1>2. QED
  BY <1>1, Inductive, PTL

\* Nothing recorded is taken back or rewritten, and a terminal action stays as
\* it ended (the append-only tables, the TERMINAL unique key).
THEOREM OnlyAppends == Spec => AppendOnly
<1> DEFINE Appends ==
       /\ \A i \in Invocations :
             /\ Keeps(pending[i], pending'[i])
             /\ Keeps(cases[i], cases'[i])
             /\ Keeps(dispositions[i], dispositions'[i])
             /\ Keeps(bound[i], bound'[i])
             /\ attempts[i] \subseteq attempts'[i]
             /\ Terminal(i) => attempts'[i] = attempts[i]
             /\ \A d \in Digests : Keeps(observed[i][d], observed'[i][d])
       /\ \A r \in Runs : Keeps(runs[r], runs'[r])
       /\ \A s \in Sessions : Keeps(sessions[s], sessions'[s])
<1>1. ASSUME IInv, [Next]_vars PROVE Appends \/ UNCHANGED vars
  <2> USE DEF IInv, TInv, TypeOK, Keeps
  <2>1. ASSUME NEW s \in Sessions, NEW t \in Threads, BindAgentSession(s, t)
        PROVE  Appends
    BY <1>1, <2>1 DEF BindAgentSession
  <2>2. ASSUME NEW i \in Invocations, NEW r \in Runs, NEW n \in Ordinals,
               NEW s \in Sessions, BeginRunCreate(i, r, n, s)
        PROVE  Appends
    BY <1>1, <2>2 DEF BeginRunCreate, AttemptShape, Terminal
  <2>3. ASSUME NEW i \in Invocations, MarkDispatched(i) PROVE Appends
    BY <1>1, <2>3 DEF MarkDispatched
  <2>4. ASSUME NEW i \in Invocations, MarkFailedBeforeDispatch(i) PROVE Appends
    BY <1>1, <2>4 DEF MarkFailedBeforeDispatch
  <2>5. ASSUME NEW i \in Invocations, NEW d \in Digests, NEW o \in Observation,
               RecordOrphan(i, d, o)
        PROVE  Appends
    BY <1>1, <2>5 DEF RecordOrphan, MayAppend
  <2>6. ASSUME NEW i \in Invocations, NEW d \in Digests, NEW o \in Observation,
               MarkRecoveryRequired(i, d, o)
        PROVE  Appends
    <3>1. ~Terminal(i)
      BY <1>1, <2>6 DEF MarkRecoveryRequired, AttemptShape, OutcomeShape,
                        Terminal, Ambiguous, Dispatched
    <3>2. \A k \in Invocations, e \in Digests :
             Keeps(observed[k][e], observed'[k][e])
      BY <2>6, <1>1, ObservationsStay
    <3>3. QED
      BY <1>1, <2>6, <3>1, <3>2 DEF MarkRecoveryRequired
  <2>7. ASSUME NEW i \in Invocations, OperatorCommit(i) PROVE Appends
    BY <1>1, <2>7 DEF OperatorCommit
  <2>8. ASSUME NEW r \in Runs, BindCommit(r) PROVE Appends
    <3> DEFINE i == binder[r].invocation
    <3>1. i \in Invocations /\ bound[i] = None
      BY <1>1, <2>8 DEF BindCommit, BinderFits, Fits, BindTxn
    <3>2. \A k \in Invocations : Keeps(bound[k], bound'[k])
      BY <1>1, <2>8, <3>1 DEF BindCommit
    <3>3. \A k \in Invocations : /\ attempts[k] \subseteq attempts'[k]
                                 /\ Terminal(k) => attempts'[k] = attempts[k]
      BY <1>1, <2>8, <3>1 DEF BindCommit
    <3>4. \A q \in Runs : Keeps(runs[q], runs'[q])
      BY <1>1, <2>8, <3>1 DEF BindCommit
    <3>5. QED
      BY <2>8, <3>2, <3>3, <3>4 DEF BindCommit
  <2>9. CASE UNCHANGED rows
    BY <2>9 DEF rows
  <2> HIDE DEF IInv, TInv, TypeOK, Keeps, Appends
  <2>10. QED
    BY <1>1, <2>1, <2>2, <2>3, <2>4, <2>5, <2>6, <2>7, <2>8, <2>9
    DEF Next, vars, RemoteCreate, OperatorRead, OperatorAbort, BindRead,
        BindAbort, OpenExecution
<1>2. QED
  BY <1>1, Inductive, PTL DEF Spec, AppendOnly

-----------------------------------------------------------------------------
(***************************************************************************)
(* RunCreateLifecycle implements ServerRunBinding: each transaction moves  *)
(* the fate of one invocation, or of none.                                 *)
(***************************************************************************)
FateMap == [i \in Invocations |-> Fate(i)]
PlaceMap == [i \in Invocations |->
               IF pending[i] = None THEN None
               ELSE [run |-> pending[i].run, ordinal |-> pending[i].ordinal]]
ServerMap == [i \in Invocations |->
                IF bound[i] = None THEN None ELSE bound[i].server]

\* A fate depends on the invocation's own rows.
LEMMA FateStays ==
    ASSUME NEW i \in Invocations, pending'[i] = pending[i],
           attempts'[i] = attempts[i], dispositions'[i] = dispositions[i],
           bound'[i] = bound[i]
    PROVE  Fate(i)' = Fate(i)
BY DEF Fate, Ambiguous, Dispatched

\* A step that touches one invocation's attempts or disposition is a Move.
LEMMA MoveOne ==
    ASSUME NEW i \in Invocations, UNCHANGED <<pending, bound>>,
           \A k \in Invocations \ {i} :
               attempts'[k] = attempts[k] /\ dispositions'[k] = dispositions[k],
           NEW from, NEW to, Fate(i) = from, Fate(i)' = to
    PROVE  Binding!Move(i, from, to)
<1>1. FateMap' = [FateMap EXCEPT ![i] = to]
  BY FateStays DEF FateMap
<1>2. UNCHANGED <<PlaceMap, ServerMap>>
  BY DEF PlaceMap, ServerMap
<1>3. QED
  BY <1>1, <1>2 DEF Binding!Move, FateMap, PlaceMap, ServerMap

LEMMA InitMaps == Init => Binding!Init
BY DEF Init, Binding!Init, Fate

LEMMA NextMaps == IInv /\ IInv' /\ [Next]_vars => [Binding!Next]_Binding!avars
<1> SUFFICES ASSUME IInv, IInv', [Next]_vars
             PROVE  Binding!Next \/ UNCHANGED Binding!avars
  OBVIOUS
<1>1. ASSUME NEW i \in Invocations, NEW r \in Runs, NEW n \in Ordinals,
             NEW s \in Sessions, BeginRunCreate(i, r, n, s)
      PROVE  Binding!Next
  <2> DEFINE p == [run |-> r, ordinal |-> n]
  <2>1. pending[i] = None /\ pending'[i] # None /\ bound[i] = None
        /\ pending'[i].run = r /\ pending'[i].ordinal = n
    BY <1>1, RowIsNotNone
    DEF BeginRunCreate, IInv, TInv, TypeOK, AttemptShape, Dispatched
  <2>2. dispositions[i] = None
    BY <1>1 DEF BeginRunCreate, IInv, AttemptShape, OutcomeShape, Ambiguous
  <2>3. Fate(i) = "absent"
    BY <2>1 DEF Fate
  <2>4. Fate(i)' = "intended"
    BY <1>1, <2>1, <2>2, RowIsNotNone
    DEF BeginRunCreate, Fate, Ambiguous, Dispatched, IInv, TInv, TypeOK
  <2>5. \A k \in Invocations \ {i} :
           /\ pending'[k] = pending[k] /\ attempts'[k] = attempts[k]
           /\ dispositions'[k] = dispositions[k] /\ bound'[k] = bound[k]
    BY <1>1 DEF BeginRunCreate, IInv, TInv, TypeOK
  <2>6. FateMap' = [FateMap EXCEPT ![i] = "intended"]
    BY <2>4, <2>5, FateStays DEF FateMap
  <2>7. PlaceMap' = [PlaceMap EXCEPT ![i] = p] /\ UNCHANGED ServerMap
    BY <1>1, <2>1, <2>5, ZenonT(60) DEF PlaceMap, ServerMap, BeginRunCreate
  <2>8. \A j \in Invocations : PlaceMap[j] # p
    <3> SUFFICES ASSUME NEW j \in Invocations, PlaceMap[j] = p PROVE FALSE
      OBVIOUS
    <3>1. CASE pending[j] = None
      <4>1. PlaceMap'[i] = p /\ PlaceMap[j] = None
        BY <2>1, <3>1 DEF PlaceMap
      <4>2. p # None
        OBVIOUS
      <4>3. QED
        BY <4>1, <4>2
    <3>2. CASE pending[j] # None
      BY <1>1, <3>2 DEF PlaceMap, BeginRunCreate
    <3>3. QED
      BY <3>1, <3>2
  <2>9. p \in Binding!Place
    BY DEF Binding!Place, Binding!Ordinals
  <2>10. Binding!Intend(i, p)
    BY <2>3, <2>6, <2>7, <2>8
    DEF Binding!Intend, FateMap, PlaceMap, ServerMap
  <2>11. QED
    BY <2>9, <2>10 DEF Binding!Next
<1>2. ASSUME NEW i \in Invocations, MarkDispatched(i) PROVE Binding!Next
  <2>1. bound[i] = None /\ dispositions[i] = None /\ ~Ambiguous(i)
        /\ "FAILED_BEFORE_DISPATCH" \notin attempts[i] /\ pending[i] # None
    BY <1>2 DEF MarkDispatched, StatePending, Terminal, Ambiguous, IInv,
                AttemptShape, OutcomeShape
  <2>2. Fate(i) = "intended"
    BY <1>2, <2>1, RowIsNotNone DEF Fate, MarkDispatched, StatePending
  <2>3. Fate(i)' = "dispatched"
    BY <1>2, <2>1, RowIsNotNone
    DEF Fate, MarkDispatched, Dispatched, Ambiguous, IInv, TInv, TypeOK
  <2>4. Binding!Move(i, "intended", "dispatched")
    BY <1>2, <2>2, <2>3, MoveOne DEF MarkDispatched, IInv, TInv, TypeOK
  <2>5. QED
    BY <2>4 DEF Binding!Next
<1>3. ASSUME NEW i \in Invocations, MarkFailedBeforeDispatch(i)
      PROVE  Binding!Next
  <2>1. bound[i] = None /\ dispositions[i] = None /\ ~Ambiguous(i)
        /\ "FAILED_BEFORE_DISPATCH" \notin attempts[i] /\ pending[i] # None
    BY <1>3 DEF MarkFailedBeforeDispatch, StatePending, Terminal, Ambiguous,
                IInv, AttemptShape, OutcomeShape
  <2>2. Fate(i) = "intended"
    BY <1>3, <2>1, RowIsNotNone DEF Fate, MarkFailedBeforeDispatch, StatePending
  <2>3. Fate(i)' = "failed"
    BY <1>3, <2>1 DEF Fate, MarkFailedBeforeDispatch, IInv, TInv, TypeOK
  <2>4. Binding!Move(i, "intended", "failed")
    BY <1>3, <2>2, <2>3, MoveOne
    DEF MarkFailedBeforeDispatch, IInv, TInv, TypeOK
  <2>5. QED
    BY <2>4 DEF Binding!Next
<1>4. ASSUME NEW i \in Invocations, NEW d \in Digests, NEW o \in Observation,
             MarkRecoveryRequired(i, d, o)
      PROVE  Binding!Next
  <2>1. /\ bound[i] = None /\ dispositions[i] = None /\ ~Ambiguous(i)
        /\ "FAILED_BEFORE_DISPATCH" \notin attempts[i] /\ pending[i] # None
        /\ Dispatched(i)
    BY <1>4 DEF MarkRecoveryRequired, Locked, IInv, AttemptShape, OutcomeShape
  <2>2. Fate(i) = "dispatched"
    BY <2>1, RowIsNotNone DEF Fate
  <2>3. /\ attempts'[i] = attempts[i] \cup {"AMBIGUOUS_AFTER_DISPATCH"}
        /\ UNCHANGED <<pending, bound, dispositions>>
        /\ \A k \in Invocations \ {i} : attempts'[k] = attempts[k]
    BY <1>4 DEF MarkRecoveryRequired, IInv, TInv, TypeOK
  <2>4. Fate(i)' = "ambiguous"
    BY <2>1, <2>3, RowIsNotNone DEF Fate, Ambiguous
  <2>5. Binding!Move(i, "dispatched", "ambiguous")
    BY <2>2, <2>3, <2>4, MoveOne
  <2>6. QED
    BY <2>5 DEF Binding!Next
<1>5. ASSUME NEW i \in Invocations, OperatorCommit(i) PROVE Binding!Next
  <2>1. /\ bound[i] = None /\ dispositions[i] = None /\ Ambiguous(i)
        /\ "FAILED_BEFORE_DISPATCH" \notin attempts[i] /\ pending[i] # None
    <3>1. dispositions[i] = None /\ Ambiguous(i)
      BY <1>5 DEF OperatorCommit, IInv, OutcomeShape
    <3>2. bound[i] = None
      BY <3>1, RowIsNotNone DEF IInv, BoundDecided, Released
    <3>3. Dispatched(i)
      BY <3>1 DEF IInv, AttemptShape, Ambiguous
    <3>4. QED
      BY <3>1, <3>2, <3>3 DEF IInv, AttemptShape, Dispatched
  <2>2. Fate(i) = "ambiguous"
    BY <2>1, RowIsNotNone DEF Fate
  <2>3. /\ dispositions'[i] = operator[i]
        /\ operator[i] \in {"DO_NOT_RETRY", "ABANDON_RUN"}
        /\ UNCHANGED <<pending, bound, attempts>>
        /\ \A k \in Invocations \ {i} : dispositions'[k] = dispositions[k]
    BY <1>5 DEF OperatorCommit, IInv, TInv, TypeOK, Decisions
  <2>4. CASE operator[i] = "DO_NOT_RETRY"
    <3>1. Fate(i)' = "bindable"
      BY <2>1, <2>3, <2>4 DEF Fate
    <3>2. Binding!Move(i, "ambiguous", "bindable")
      BY <2>2, <2>3, <3>1, MoveOne
    <3>3. QED
      BY <3>2 DEF Binding!Next
  <2>5. CASE operator[i] = "ABANDON_RUN"
    <3>1. Fate(i)' = "abandoned"
      BY <2>1, <2>3, <2>5 DEF Fate
    <3>2. Binding!Move(i, "ambiguous", "abandoned")
      BY <2>2, <2>3, <3>1, MoveOne
    <3>3. QED
      BY <3>2 DEF Binding!Next
  <2>6. QED
    BY <2>3, <2>4, <2>5
<1>6. ASSUME NEW r \in Runs, BindCommit(r) PROVE Binding!Next
  <2>0. PICK i \in Invocations, x \in ServerRuns :
           i = binder[r].invocation /\ x = binder[r].row.server
    BY <1>6 DEF BindCommit, IInv, TInv, TypeOK, BindTxn, BoundRow
  <2>1. /\ i \in Invocations /\ x \in ServerRuns /\ binder[r].row \in BoundRow
        /\ pending[i] # None /\ pending[i].run = r
        /\ Fits(i, binder[r].row)
    BY <1>6, <2>0 DEF BindCommit, IInv, TInv, TypeOK, BinderOK, BindTxn,
                      BinderFits
  <2>2. /\ InSequence(r, pending[i].ordinal)
        /\ NoOtherRow(i, r, pending[i].ordinal, x)
        /\ UNCHANGED <<pending, dispositions>>
        /\ bound' = [bound EXCEPT ![i] = binder[r].row]
        /\ \A k \in Invocations \ {i} : attempts'[k] = attempts[k]
    BY <1>6, <2>0, <2>1 DEF BindCommit, IInv, TInv, TypeOK
  <2>3. /\ bound[i] = None /\ bound'[i] = binder[r].row /\ bound'[i] # None
        /\ \A k \in Invocations \ {i} : bound'[k] = bound[k]
    BY <2>1, <2>2, RowIsNotNone DEF Fits, IInv, TInv, TypeOK
  <2>4. Fate(i) \in {"dispatched", "bindable"}
    <3>1. "FAILED_BEFORE_DISPATCH" \notin attempts[i] /\ Dispatched(i)
      BY <2>1 DEF Fits, IInv, AttemptShape
    <3>2. CASE Ambiguous(i)
      BY <2>1, <2>3, <3>1, <3>2 DEF Fate, Fits, Released
    <3>3. CASE ~Ambiguous(i)
      <4>1. dispositions[i] = None
        BY <2>1, <3>3 DEF IInv, OutcomeShape
      <4>2. QED
        BY <2>1, <2>3, <3>1, <3>3, <4>1, RowIsNotNone DEF Fate
    <3>4. QED
      BY <3>2, <3>3
  <2>5. FateMap' = [FateMap EXCEPT ![i] = "bound"]
    <3>1. Fate(i)' = "bound"
      BY <2>1, <2>2, <2>3 DEF Fate
    <3>2. \A k \in Invocations \ {i} : Fate(k)' = Fate(k)
      BY <2>2, <2>3, FateStays
    <3>3. QED
      BY <3>1, <3>2 DEF FateMap
  <2>6. ServerMap' = [ServerMap EXCEPT ![i] = x] /\ UNCHANGED PlaceMap
    <3>1. bound'[i].server = x
      BY <2>0, <2>3
    <3>2. ServerMap' = [ServerMap EXCEPT ![i] = x]
      BY <2>3, <3>1 DEF ServerMap
    <3>3. UNCHANGED PlaceMap
      BY <2>2 DEF PlaceMap
    <3>4. QED
      BY <3>2, <3>3
  <2>7. \A j \in Invocations : ServerMap[j] # x
    <3>1. x # None
      BY <2>1
    <3>2. QED
      BY <2>2, <2>3, <3>1 DEF ServerMap, NoOtherRow
  <2>8. \A n \in 1..(PlaceMap[i].ordinal - 1) :
           \E j \in Invocations :
              /\ FateMap[j] = "bound"
              /\ PlaceMap[j] = [run |-> PlaceMap[i].run, ordinal |-> n]
    <3>1. PlaceMap[i] = [run |-> r, ordinal |-> pending[i].ordinal]
      BY <2>1 DEF PlaceMap
    <3>2. pending[i].ordinal \in Nat
      BY <2>1 DEF IInv, TInv, TypeOK, PendingRow
    <3>3. PICK m \in 0..MaxOrdinal :
             BoundOrdinals(r) = 1..m /\ pending[i].ordinal <= m + 1
      BY <2>2 DEF InSequence
    <3>4. SUFFICES ASSUME NEW n \in 1..(pending[i].ordinal - 1)
                   PROVE  \E j \in Invocations :
                             /\ FateMap[j] = "bound"
                             /\ PlaceMap[j] = [run |-> r, ordinal |-> n]
      BY <3>1
    <3>5. n \in BoundOrdinals(r)
      BY <3>2, <3>3
    <3>6. PICK j \in Invocations :
             bound[j] # None /\ pending[j].run = r /\ pending[j].ordinal = n
      BY <3>5 DEF BoundOrdinals, BoundIn
    <3>7. pending[j] # None
      BY <3>6 DEF IInv, AttemptShape, Dispatched
    <3>8. QED
      BY <3>6, <3>7 DEF FateMap, Fate, PlaceMap
  <2>9. Binding!Bind(i, x)
    <3>1. FateMap[i] \in {"dispatched", "bindable"}
      BY <2>1, <2>4 DEF FateMap
    <3>2. QED
      BY <3>1, <2>1, <2>5, <2>6, <2>7, <2>8
      DEF Binding!Bind, FateMap, ServerMap, PlaceMap
  <2>10. QED
    BY <2>1, <2>9 DEF Binding!Next
<1>7. CASE UNCHANGED <<pending, attempts, dispositions, bound>>
  BY <1>7, FateStays DEF Binding!avars
<1> HIDE MaxOrdinalAssumption, NoneAssumption DEF Ordinals
<1>8. QED
  BY <1>1, <1>2, <1>3, <1>4, <1>5, <1>6, <1>7
  DEF Next, vars, rows, BindAgentSession, RemoteCreate, RecordOrphan,
      OperatorRead, OperatorAbort, BindRead, BindAbort, OpenExecution

\* Whatever the interleaving of clients, operator and server, the tables behave
\* as one fate per invocation, with server runs and places given once
\* (agent_server_identity.py as a whole).
THEOREM Refinement == Spec => ImplementsBinding
<1>1. QED
  BY InitMaps, NextMaps, Inductive, PTL DEF Spec, ImplementsBinding, Binding!Spec

=============================================================================
