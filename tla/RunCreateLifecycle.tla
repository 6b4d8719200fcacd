------------------------- MODULE RunCreateLifecycle -------------------------
(***************************************************************************)
(* The durable record of creating a run on the Agent Server.               *)
(*                                                                         *)
(* A client that wants the Agent Server to execute one invocation of a     *)
(* ResearchRun first commits a PENDING event and an INTENT snapshot, then  *)
(* DISPATCHED just before the remote call, and after the call either binds *)
(* the server run it got (RECONCILED + APPLIED), records what it saw of a  *)
(* run it cannot account for (ORPHAN), or opens a recovery case that an    *)
(* operator has to decide.  The tables are append-only and every writer of *)
(* a run holds an advisory transaction lock of that run; the operator      *)
(* holds a different lock.  Clients come and go: any of them may make any  *)
(* call at any time, and none has to make its next one.                    *)
(*                                                                         *)
(* Transactions that hold the run lock from their first relevant read to   *)
(* their commit are one action.  Two are split in a read part and a commit *)
(* part, because others can commit in between: bind_run_invocation (binds  *)
(* of other runs compete for the server run, the operator writes           *)
(* dispositions) and record_recovery_disposition (clients append           *)
(* observations and bind).                                                 *)
(***************************************************************************)
EXTENDS Naturals

CONSTANTS
    Sessions,       \* AgentSession ids, each standing for its own FIN thread
    Threads,        \* Agent Server threads
    Runs,           \* ResearchRun ids
    Invocations,    \* RunInvocation ids
    ServerRuns,     \* run ids the Agent Server hands out
    Statuses,       \* server run statuses
    Digests,        \* digests of server observations
    MaxOrdinal,     \* bound on the invocation ordinals clients ask for
    None            \* an absent row, or a NULL column

Ordinals == 1..MaxOrdinal

PendingRow == [run : Runs, ordinal : Ordinals, session : Sessions]
Observation == [server : ServerRuns \cup {None},
                status : Statuses \cup {None}]
CaseRow == [event : Digests, seen : Observation]
BoundRow == [server : ServerRuns, status : Statuses, digest : Digests]
BindTxn == [invocation : Invocations, row : BoundRow]
Decisions == {"DO_NOT_RETRY", "ABANDON_RUN"}
Snapshots == {"INTENT_COMMITTED", "DISPATCHED", "FAILED_BEFORE_DISPATCH",
              "APPLIED", "AMBIGUOUS_AFTER_DISPATCH"}

ASSUME MaxOrdinalAssumption == MaxOrdinal \in Nat \ {0}
ASSUME NoneAssumption ==
    None \notin Sessions \cup Threads \cup Runs \cup Invocations
                \cup ServerRuns \cup Statuses \cup Digests \cup Decisions
                \cup PendingRow \cup Observation \cup CaseRow \cup BoundRow
                \cup BindTxn \cup [run : Runs, ordinal : Ordinals]

VARIABLES
    sessions,       \* research_sessions: the server thread of each session
    pending,        \* the PENDING event of each invocation
    attempts,       \* action snapshots; "DISPATCHED" also is the lifecycle event
    observed,       \* ORPHAN events of an invocation, by observation digest
    latest,         \* the digest of the last ORPHAN event
    cases,          \* agent_server_recovery_cases
    dispositions,   \* agent_server_recovery_dispositions
    runs,           \* research_runs: the session of each run
    bound,          \* research_run_invocations with its RECONCILED event
    remote,         \* the Agent Server: the invocation a server run was made for
    executing,      \* server runs that passed the execution guard
    binder,         \* bind transactions in flight, by the run lock they hold
    operator        \* disposition transactions in flight, by recovery case

rows == <<sessions, pending, attempts, observed, latest, cases, dispositions,
          runs, bound>>
vars == <<rows, remote, executing, binder, operator>>

TypeOK ==
    /\ sessions \in [Sessions -> Threads \cup {None}]
    /\ pending \in [Invocations -> PendingRow \cup {None}]
    /\ attempts \in [Invocations -> SUBSET Snapshots]
    /\ observed \in [Invocations -> [Digests -> Observation \cup {None}]]
    /\ latest \in [Invocations -> Digests \cup {None}]
    /\ cases \in [Invocations -> CaseRow \cup {None}]
    /\ dispositions \in [Invocations -> Decisions \cup {None}]
    /\ runs \in [Runs -> Sessions \cup {None}]
    /\ bound \in [Invocations -> BoundRow \cup {None}]
    /\ remote \in [ServerRuns -> Invocations \cup {None}]
    /\ executing \in SUBSET ServerRuns
    /\ binder \in [Runs -> BindTxn \cup {None}]
    /\ operator \in [Invocations -> Decisions \cup {None}]

Init ==
    /\ sessions = [s \in Sessions |-> None]
    /\ pending = [i \in Invocations |-> None]
    /\ attempts = [i \in Invocations |-> {}]
    /\ observed = [i \in Invocations |-> [d \in Digests |-> None]]
    /\ latest = [i \in Invocations |-> None]
    /\ cases = [i \in Invocations |-> None]
    /\ dispositions = [i \in Invocations |-> None]
    /\ runs = [r \in Runs |-> None]
    /\ bound = [i \in Invocations |-> None]
    /\ remote = [x \in ServerRuns |-> None]
    /\ executing = {}
    /\ binder = [r \in Runs |-> None]
    /\ operator = [i \in Invocations |-> None]

-----------------------------------------------------------------------------
(* What the transactions read.                                             *)

LockFree(r) == binder[r] = None

\* _locked_run_create_lifecycle: the run of a PENDING row never changes, so
\* the read that finds which lock to take cannot be stale.
Locked(i) == pending[i] # None /\ LockFree(pending[i].run)

Dispatched(i) == "DISPATCHED" \in attempts[i]
Terminal(i) ==
    attempts[i] \cap {"FAILED_BEFORE_DISPATCH", "APPLIED",
                      "AMBIGUOUS_AFTER_DISPATCH"} # {}
Ambiguous(i) == "AMBIGUOUS_AFTER_DISPATCH" \in attempts[i]

\* The PENDING state of _run_create_lifecycle_from_rows: no later event.
StatePending(i) == pending[i] # None /\ ~Dispatched(i)

Events(i) == {d \in Digests : observed[i][d] # None}
KnownServers(i) ==
    {observed[i][d].server : d \in Events(i)} \ {None}
\* Observations with a run id and a status.
ExactServers(i) ==
    {observed[i][d].server : d \in {e \in Events(i) : observed[i][e].status # None}}
    \ {None}
HasOneExactServer(i) == \E x \in ServerRuns : ExactServers(i) = {x}

BoundIn(r) == {i \in Invocations : bound[i] # None /\ pending[i].run = r}
BoundOrdinals(r) == {pending[i].ordinal : i \in BoundIn(r)}

\* What a client can have seen: nothing, a run, or a run with a status; the
\* run exists on the server, not necessarily for the invocation it is held for.
Seen == {o \in Observation :
            /\ o.status # None => o.server # None
            /\ o.server # None => remote[o.server] # None}

-----------------------------------------------------------------------------
(* Sessions and the start of a run creation.                               *)

\* bind_agent_session: an insert that meets any of the unique keys does
\* nothing, and the caller gets the equal row or a conflict.
BindAgentSession(s, t) ==
    /\ sessions[s] = None
    /\ \A other \in Sessions : sessions[other] # t
    /\ sessions' = [sessions EXCEPT ![s] = t]
    /\ UNCHANGED <<pending, attempts, observed, latest, cases, dispositions,
                   runs, bound, remote, executing, binder, operator>>

\* Faulty: the ordinal is counted from one past the asked place.
BeginRunCreateShifted(i, r, n, s) ==
    /\ sessions[s] # None
    /\ LockFree(r)
    /\ pending[i] = None
    /\ pending' = [pending EXCEPT
                     ![i] = [run |-> r, ordinal |-> n + 1, session |-> s]]
    /\ attempts' = [attempts EXCEPT ![i] = {"INTENT_COMMITTED"}]
    /\ UNCHANGED <<sessions, observed, latest, cases, dispositions, runs,
                   bound, remote, executing, binder, operator>>

\* begin_run_create, the call that creates the rows; a repeated call finds
\* them and returns or conflicts.  Ordinals are not compared with those of
\* the run's other invocations, nor the session with theirs.
BeginRunCreate(i, r, n, s) ==
    /\ sessions[s] # None
    /\ LockFree(r)
    /\ pending[i] = None
    /\ \A j \in Invocations :
          pending[j] # None => ~(pending[j].run = r /\ pending[j].ordinal = n)
    /\ pending' = [pending EXCEPT
                     ![i] = [run |-> r, ordinal |-> n, session |-> s]]
    /\ attempts' = [attempts EXCEPT ![i] = {"INTENT_COMMITTED"}]
    /\ UNCHANGED <<sessions, observed, latest, cases, dispositions, runs,
                   bound, remote, executing, binder, operator>>

\* mark_run_create_dispatched, first call; a second one returns the same
\* lifecycle and writes nothing.
MarkDispatched(i) ==
    /\ Locked(i)
    /\ ~Terminal(i)
    /\ StatePending(i)
    /\ attempts' = [attempts EXCEPT ![i] = @ \cup {"DISPATCHED"}]
    /\ UNCHANGED <<sessions, pending, observed, latest, cases, dispositions,
                   runs, bound, remote, executing, binder, operator>>

\* mark_run_create_failed_before_dispatch.
MarkFailedBeforeDispatch(i) ==
    /\ Locked(i)
    /\ StatePending(i)
    /\ ~Terminal(i)
    /\ attempts' = [attempts EXCEPT ![i] = @ \cup {"FAILED_BEFORE_DISPATCH"}]
    /\ UNCHANGED <<sessions, pending, observed, latest, cases, dispositions,
                   runs, bound, remote, executing, binder, operator>>

\* The remote call, made by whoever got DISPATCHED back, possibly by two
\* clients: mark_run_create_dispatched does not say who wrote the event.
RemoteCreate(i, x) ==
    /\ Dispatched(i)
    /\ remote[x] = None
    /\ remote' = [remote EXCEPT ![x] = i]
    /\ UNCHANGED <<rows, executing, binder, operator>>

-----------------------------------------------------------------------------
(* Observations, recovery cases and the operator.                          *)

\* Faulty: an observation may name another server run than earlier ones.
MayAppendAnyServer(i, d, o) ==
    Dispatched(i) /\ observed[i][d] = None /\ bound[i] = None

\* _append_orphan_observation, the part that appends.
MayAppend(i, d, o) ==
    /\ Dispatched(i)
    /\ observed[i][d] = None
    /\ bound[i] = None
    /\ o.server # None => KnownServers(i) \subseteq {o.server}

\* record_run_create_orphan.
RecordOrphan(i, d, o) ==
    /\ Locked(i)
    /\ o \in Seen
    /\ MayAppend(i, d, o)
    /\ observed' = [observed EXCEPT ![i][d] = o]
    /\ latest' = [latest EXCEPT ![i] = d]
    /\ UNCHANGED <<sessions, pending, attempts, cases, dispositions, runs,
                   bound, remote, executing, binder, operator>>

\* mark_run_create_recovery_required: the observation is appended, or found
\* again under its digest.  The case names the LAST orphan event, and
\* require_valid_recovery_case refuses it unless that event carries the same
\* observation.  An existing case is returned as it is.
MarkRecoveryRequired(i, d, o) ==
    /\ Locked(i)
    /\ o \in Seen
    /\ Dispatched(i)
    /\ bound[i] = None
    /\ cases[i] = None
    /\ \/ /\ MayAppend(i, d, o)
          /\ observed' = [observed EXCEPT ![i][d] = o]
          /\ latest' = [latest EXCEPT ![i] = d]
       \/ /\ observed[i][d] = o
          /\ observed[i][latest[i]] = o
          /\ UNCHANGED <<observed, latest>>
    /\ attempts' = [attempts EXCEPT ![i] = @ \cup {"AMBIGUOUS_AFTER_DISPATCH"}]
    /\ cases' = [cases EXCEPT ![i] = [event |-> latest'[i], seen |-> o]]
    /\ UNCHANGED <<sessions, pending, dispositions, runs, bound, remote,
                   executing, binder, operator>>

\* record_recovery_disposition up to the call of append_recovery_disposition.
OperatorRead(i, decision) ==
    /\ operator[i] = None
    /\ cases[i] # None
    /\ dispositions[i] = None
    /\ decision = "DO_NOT_RETRY" => HasOneExactServer(i)
    /\ operator' = [operator EXCEPT ![i] = decision]
    /\ UNCHANGED <<rows, remote, executing, binder>>

\* append_recovery_disposition, its trigger, and the commit.
OperatorCommit(i) ==
    /\ operator[i] # None
    /\ dispositions[i] = None
    /\ operator[i] = "DO_NOT_RETRY" => HasOneExactServer(i)
    /\ dispositions' = [dispositions EXCEPT ![i] = operator[i]]
    /\ operator' = [operator EXCEPT ![i] = None]
    /\ UNCHANGED <<sessions, pending, attempts, observed, latest, cases, runs,
                   bound, remote, executing, binder>>

\* The transaction ends without a commit: an error, or the operator is gone.
OperatorAbort(i) ==
    /\ operator[i] # None
    /\ operator' = [operator EXCEPT ![i] = None]
    /\ UNCHANGED <<rows, remote, executing, binder>>

-----------------------------------------------------------------------------
(* Binding the server run, and executing it.                               *)

\* Faulty: any decision of the operator releases the binding.
RecoveryAllowsAnyDecision(i, row) ==
    /\ dispositions[i] # None
    /\ ExactServers(i) = {row.server}
    /\ observed[i][row.digest] = [server |-> row.server, status |-> row.status]

\* An ambiguous action is bindable only as the operator decided and only to
\* what was observed, to the digest.
RecoveryAllows(i, row) ==
    /\ dispositions[i] = "DO_NOT_RETRY"
    /\ ExactServers(i) = {row.server}
    /\ observed[i][row.digest] = [server |-> row.server, status |-> row.status]

\* bind_run_invocation up to the research_run lock: nothing is written yet.
BindRead(i, row) ==
    /\ Locked(i)
    /\ remote[row.server] # None
    /\ Dispatched(i)
    /\ KnownServers(i) \subseteq {row.server}
    /\ bound[i] = None
    /\ Terminal(i) => Ambiguous(i) /\ cases[i] # None /\ RecoveryAllows(i, row)
    /\ ~Terminal(i) => cases[i] = None
    /\ binder' = [binder EXCEPT
                    ![pending[i].run] = [invocation |-> i, row |-> row]]
    /\ UNCHANGED <<rows, remote, executing, operator>>

\* The bound ordinals of a run are 1..m (as many as the largest), and the next
\* one leaves no gap.
InSequence(r, n) ==
    \E m \in 0..MaxOrdinal : BoundOrdinals(r) = 1..m /\ n <= m + 1

\* Faulty: the row is looked up by invocation and place, not by server run.
NoOtherRowInRun(i, r, n, x) ==
    \A j \in Invocations \ {i} :
        bound[j] # None => ~(pending[j].run = r /\ pending[j].ordinal = n)

\* The insert did not meet another row: not one of the server run, nor one of
\* the same place in the run.
NoOtherRow(i, r, n, x) ==
    \A j \in Invocations \ {i} :
        bound[j] # None =>
            /\ bound[j].server # x
            /\ ~(pending[j].run = r /\ pending[j].ordinal = n)

\* Faulty: APPLIED is written over an ambiguous outcome.
BindCommitAlwaysApplied(r) ==
    /\ binder[r] # None
    /\ LET i == binder[r].invocation
           p == pending[i]
       IN  /\ runs[r] \in {None, p.session}
           /\ InSequence(r, p.ordinal)
           /\ NoOtherRow(i, r, p.ordinal, binder[r].row.server)
           /\ runs' = [runs EXCEPT ![r] = p.session]
           /\ bound' = [bound EXCEPT ![i] = binder[r].row]
           /\ attempts' = [attempts EXCEPT ![i] = @ \cup {"APPLIED"}]
    /\ binder' = [binder EXCEPT ![r] = None]
    /\ UNCHANGED <<sessions, pending, observed, latest, cases, dispositions,
                   remote, executing, operator>>

\* The rest of bind_run_invocation and the commit.
BindCommit(r) ==
    /\ binder[r] # None
    /\ LET i == binder[r].invocation
           row == binder[r].row
           p == pending[i]
       IN  /\ runs[r] \in {None, p.session}
           /\ InSequence(r, p.ordinal)
           /\ NoOtherRow(i, r, p.ordinal, row.server)
           /\ runs' = [runs EXCEPT ![r] = p.session]
           /\ bound' = [bound EXCEPT ![i] = row]
           /\ attempts' = [attempts EXCEPT
                             ![i] = IF Terminal(i) THEN @ ELSE @ \cup {"APPLIED"}]
    /\ binder' = [binder EXCEPT ![r] = None]
    /\ UNCHANGED <<sessions, pending, observed, latest, cases, dispositions,
                   remote, executing, operator>>

\* A conflict, an error, or a client that is gone: everything rolls back.
BindAbort(r) ==
    /\ binder[r] # None
    /\ binder' = [binder EXCEPT ![r] = None]
    /\ UNCHANGED <<rows, remote, executing, operator>>

\* Faulty: the guard does not compare the server run with the bound one.
OpenExecutionUnmatched(x) ==
    /\ remote[x] # None
    /\ bound[remote[x]] # None
    /\ executing' = executing \cup {x}
    /\ UNCHANGED <<rows, remote, binder, operator>>

\* _require_durable_execution_binding, in the server run itself: it opens its
\* data ports only if it is the server run bound to its invocation.
OpenExecution(x) ==
    /\ remote[x] # None
    /\ bound[remote[x]] # None
    /\ bound[remote[x]].server = x
    /\ executing' = executing \cup {x}
    /\ UNCHANGED <<rows, remote, binder, operator>>

Next ==
    \/ \E s \in Sessions, t \in Threads : BindAgentSession(s, t)
    \/ \E i \in Invocations, r \in Runs, n \in Ordinals, s \in Sessions :
          BeginRunCreate(i, r, n, s)
    \/ \E i \in Invocations : MarkDispatched(i)
    \/ \E i \in Invocations : MarkFailedBeforeDispatch(i)
    \/ \E i \in Invocations, x \in ServerRuns : RemoteCreate(i, x)
    \/ \E i \in Invocations, d \in Digests, o \in Observation :
          RecordOrphan(i, d, o)
    \/ \E i \in Invocations, d \in Digests, o \in Observation :
          MarkRecoveryRequired(i, d, o)
    \/ \E i \in Invocations, decision \in Decisions : OperatorRead(i, decision)
    \/ \E i \in Invocations : OperatorCommit(i)
    \/ \E i \in Invocations : OperatorAbort(i)
    \/ \E i \in Invocations, row \in BoundRow : BindRead(i, row)
    \/ \E r \in Runs : BindCommit(r)
    \/ \E r \in Runs : BindAbort(r)
    \/ \E x \in ServerRuns : OpenExecution(x)

Spec == Init /\ [][Next]_vars

-----------------------------------------------------------------------------
(* Properties.                                                             *)

\* A server run executes on behalf of one invocation only, whichever runs and
\* clients compete for it (bind_run_invocation, UNIQUE (server_run_id)).
OneBindingPerServerRun ==
    \A i, j \in Invocations :
        bound[i] # None /\ bound[j] # None /\ i # j
            => bound[i].server # bound[j].server

\* The bound invocations of a run are numbered 1, 2, ... without a gap or a
\* double, though clients may begin and dispatch ordinals in any order
\* (bind_run_invocation; get_research_run_aggregate relies on it).
BoundSequenceClosed ==
    \A i \in Invocations : bound[i] # None =>
        /\ \A j \in BoundIn(pending[i].run) \ {i} :
              pending[j].ordinal # pending[i].ordinal
        /\ \A n \in 1..(pending[i].ordinal - 1) :
              n \in BoundOrdinals(pending[i].run)

\* An intent closed as failed-before-dispatch never had a remote call: no
\* server run was made for it, nothing was observed of it and it is not bound
\* (mark_run_create_failed_before_dispatch against mark_run_create_dispatched).
FailedMeansNeverDispatched ==
    \A i \in Invocations : "FAILED_BEFORE_DISPATCH" \in attempts[i] =>
        /\ attempts[i] = {"INTENT_COMMITTED", "FAILED_BEFORE_DISPATCH"}
        /\ \A x \in ServerRuns : remote[x] # i
        /\ Events(i) = {} /\ cases[i] = None /\ bound[i] = None

\* Everything durable about an invocation names one server run: its
\* observations, its recovery case and its binding, in whatever order several
\* clients reported them (_append_orphan_observation, bind_run_invocation).
ServerIdentityAgrees ==
    \A i \in Invocations :
        /\ \A x, y \in KnownServers(i) : x = y
        /\ cases[i] # None /\ cases[i].seen.server # None =>
              KnownServers(i) = {cases[i].seen.server}
        /\ bound[i] # None => KnownServers(i) \subseteq {bound[i].server}

\* An ambiguous action is bound only by the operator's DO_NOT_RETRY, and to a
\* run that was observed exactly as it is bound; one the operator abandoned is
\* never bound and none of its server runs executes, although binding and
\* deciding hold different locks (bind_run_invocation against
\* record_recovery_disposition).
OperatorDecides ==
    \A i \in Invocations :
        /\ Ambiguous(i) /\ bound[i] # None =>
              /\ dispositions[i] = "DO_NOT_RETRY"
              /\ observed[i][bound[i].digest] =
                    [server |-> bound[i].server, status |-> bound[i].status]
        /\ dispositions[i] = "ABANDON_RUN" =>
              /\ bound[i] = None
              /\ \A x \in executing : remote[x] # i

\* What the operator was shown stays true: a DO_NOT_RETRY keeps exactly one
\* exact server run however many observations clients add before, during and
\* after the operator's transaction (require_valid_recovery_disposition).
DecisionStaysGrounded ==
    \A i \in Invocations :
        dispositions[i] = "DO_NOT_RETRY" => HasOneExactServer(i)

\* A recovery case exists exactly for an ambiguous action, and the event it
\* names carries the observation it was opened with
\* (mark_run_create_recovery_required, require_valid_recovery_case).
CaseAnchored ==
    \A i \in Invocations :
        /\ cases[i] # None <=> Ambiguous(i)
        /\ cases[i] # None => observed[i][cases[i].event] = cases[i].seen

\* Even when two clients both made the remote call, one server run at most
\* gets past the execution guard for an invocation
\* (_require_durable_execution_binding).
OneExecutionPerInvocation ==
    \A x, y \in executing : remote[x] = remote[y] => x = y

\* A place in the run that failed before dispatch or was abandoned ends the
\* run: no invocation of that or a later ordinal is ever bound, since the place
\* cannot be taken again and the sequence may not skip it
\* (begin_run_create's ordinal conflict with bind_run_invocation's gap check).
Closed(i) ==
    \/ "FAILED_BEFORE_DISPATCH" \in attempts[i]
    \/ dispositions[i] = "ABANDON_RUN"
ClosedOrdinalEndsRun ==
    \A i \in Invocations : Closed(i) =>
        \A j \in Invocations :
            /\ pending[j] # None
            /\ pending[j].run = pending[i].run
            /\ pending[j].ordinal >= pending[i].ordinal
            => bound[j] = None

\* Nothing that was recorded is taken back or rewritten, and an action that is
\* terminal stays as it ended (the append-only tables and the single TERMINAL
\* snapshot).
Keeps(old, new) == old # None => new = old
AppendOnly ==
    [][/\ \A i \in Invocations :
             /\ Keeps(pending[i], pending'[i])
             /\ Keeps(cases[i], cases'[i])
             /\ Keeps(dispositions[i], dispositions'[i])
             /\ Keeps(bound[i], bound'[i])
             /\ attempts[i] \subseteq attempts'[i]
             /\ Terminal(i) => attempts'[i] = attempts[i]
             /\ \A d \in Digests : Keeps(observed[i][d], observed'[i][d])
       /\ \A r \in Runs : Keeps(runs[r], runs'[r])
       /\ \A s \in Sessions : Keeps(sessions[s], sessions'[s])]_vars

-----------------------------------------------------------------------------
(* The abstract specification this module implements.                      *)

Fate(i) ==
    IF pending[i] = None THEN "absent"
    ELSE IF bound[i] # None THEN "bound"
    ELSE IF "FAILED_BEFORE_DISPATCH" \in attempts[i] THEN "failed"
    ELSE IF dispositions[i] = "DO_NOT_RETRY" THEN "bindable"
    ELSE IF dispositions[i] = "ABANDON_RUN" THEN "abandoned"
    ELSE IF Ambiguous(i) THEN "ambiguous"
    ELSE IF Dispatched(i) THEN "dispatched" ELSE "intended"

Binding == INSTANCE ServerRunBinding WITH
    fate <- [i \in Invocations |-> Fate(i)],
    place <- [i \in Invocations |->
                IF pending[i] = None THEN None
                ELSE [run |-> pending[i].run, ordinal |-> pending[i].ordinal]],
    server <- [i \in Invocations |->
                 IF bound[i] = None THEN None ELSE bound[i].server]

\* Tables, locks, clients and operator together behave as one fate per
\* invocation: no interleaving of their transactions binds an ambiguous or
\* abandoned invocation, skips a place, or gives a server run twice.
ImplementsBinding == Binding!Spec
=============================================================================
