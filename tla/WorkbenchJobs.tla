--------------------------- MODULE WorkbenchJobs ---------------------------
(***************************************************************************)
(* Subprocess jobs of the Workbench.  start_command_job stores a job and   *)
(* starts its runner thread; the thread waits for one of MaxActive slots,  *)
(* runs the command, and settles the stored status.  Cancel requests,      *)
(* timeouts and history pruning run beside it: they share the SQLite row,  *)
(* the set of cancel requests and the registry of processes, each read and *)
(* written in steps of its own.                                            *)
(***************************************************************************)
EXTENDS Naturals, FiniteSets

CONSTANTS
    Jobs,           \* job ids
    Cancels,        \* cancel requests
    MaxActive,      \* WORKBENCH_MAX_ACTIVE_JOBS
    Prunes,         \* the history may be pruned
    None

ASSUME JobsAssumption ==
    /\ MaxActive \in Nat \ {0} /\ IsFiniteSet(Jobs)
    /\ Prunes \in BOOLEAN /\ None \notin Jobs

ACTIVE_RUN_STATUSES == {"queued", "running"}
TERMINAL_RUN_STATUSES == {"completed", "failed", "cancelled", "interrupted", "timed_out"}
Statuses == ACTIVE_RUN_STATUSES \cup TERMINAL_RUN_STATUSES

VARIABLES
    row,            \* status in run_jobs, "none" without a row
    bundle,         \* jobs whose artifacts are in the source bundle
    runner,         \* where the runner thread of a job is
    latest,         \* the status it read last
    verdict,        \* the status it will store
    seen,           \* the source bundle it read
    process,        \* its subprocess
    holders,        \* jobs that hold a slot of the semaphore
    registered,     \* _ACTIVE_PROCESSES
    requested,      \* _CANCEL_REQUESTED
    canceller,      \* where a cancel request is
    target,         \* the job it cancels
    victim          \* it found the job's process registered

thread == <<runner, latest, verdict, seen>>
memory == <<holders, registered, requested>>
cancels == <<canceller, target, victim>>
vars == <<row, bundle, thread, process, memory, cancels>>

Places == {"new", "queueing", "waiting", "acquired", "starting", "opening", "registering",
           "reading", "reaped", "deciding", "bundling", "merging", "writing", "logging",
           "raised", "rewriting", "finally", "ended"}

TypeOK ==
    /\ row \in [Jobs -> Statuses \cup {"none"}]
    /\ bundle \subseteq Jobs
    /\ runner \in [Jobs -> Places]
    /\ latest \in [Jobs -> Statuses] /\ verdict \in [Jobs -> Statuses]
    /\ seen \in [Jobs -> SUBSET Jobs]
    /\ process \in [Jobs -> {"none", "alive", "ok", "failed"}]
    /\ holders \subseteq Jobs /\ registered \subseteq Jobs /\ requested \subseteq Jobs
    /\ canceller \in [Cancels -> {"idle", "flagging", "killing", "logging", "writing",
                                  "cancelled", "refused"}]
    /\ target \in [Cancels -> Jobs \cup {None}]
    /\ victim \in [Cancels -> BOOLEAN]

Init ==
    /\ row = [j \in Jobs |-> "none"] /\ bundle = {}
    /\ runner = [j \in Jobs |-> "new"]
    /\ latest = [j \in Jobs |-> "queued"] /\ verdict = [j \in Jobs |-> "queued"]
    /\ seen = [j \in Jobs |-> {}]
    /\ process = [j \in Jobs |-> "none"]
    /\ holders = {} /\ registered = {} /\ requested = {}
    /\ canceller = [c \in Cancels |-> "idle"]
    /\ target = [c \in Cancels |-> None] /\ victim = [c \in Cancels |-> FALSE]

-----------------------------------------------------------------------------
(* The runner thread.  An event is appended with each status; what matters *)
(* of it is that it fails when the row is gone (foreign key).              *)

Step(j, from, to) == runner[j] = from /\ runner' = [runner EXCEPT ![j] = to]
Stored(j, status) == row' = [row EXCEPT ![j] = status]
Decided(j, status) == verdict' = [verdict EXCEPT ![j] = status]
\* _terminate_process_tree.
Killed(j) == process' = [process EXCEPT ![j] = IF @ = "alive" THEN "failed" ELSE @]

\* start_command_job stores the row, then appends the event and starts the thread.
Start(j) ==
    /\ Step(j, "new", "queueing")
    /\ Stored(j, "queued")
    /\ UNCHANGED <<bundle, latest, verdict, seen, process, memory, cancels>>

Launch(j) ==
    /\ Step(j, "queueing", IF row[j] = "none" THEN "ended" ELSE "waiting")
    /\ UNCHANGED <<row, bundle, latest, verdict, seen, process, memory, cancels>>

\* A cancel request may have come after the thread looked for one.
Acquire(j) ==
    /\ Step(j, "waiting", "acquired")
    /\ Cardinality(holders) < MaxActive
    /\ holders' = holders \cup {j}
    /\ UNCHANGED <<row, bundle, latest, verdict, seen, process, registered, requested, cancels>>

\* _finish_cancelled, up to its event.
CancelledBeforeStart(j) ==
    /\ Step(j, "waiting", "logging")
    /\ j \in requested
    /\ Stored(j, "cancelled")
    /\ UNCHANGED <<bundle, latest, verdict, seen, process, memory, cancels>>

CheckSettled(j) ==
    /\ Step(j, "acquired", IF row[j] \in TERMINAL_RUN_STATUSES THEN "finally" ELSE "starting")
    /\ UNCHANGED <<row, bundle, latest, verdict, seen, process, memory, cancels>>

StoreRunning(j) ==
    /\ Step(j, "starting", "opening")
    /\ Stored(j, "running")
    /\ UNCHANGED <<bundle, latest, verdict, seen, process, memory, cancels>>

\* Popen, or the event before it, may raise.
Open(j) ==
    /\ \/ /\ Step(j, "opening", "raised")
          /\ UNCHANGED process
       \/ /\ Step(j, "opening", "registering")
          /\ row[j] # "none"
          /\ process' = [process EXCEPT ![j] = "alive"]
    /\ UNCHANGED <<row, bundle, latest, verdict, seen, memory, cancels>>

Register(j) ==
    /\ Step(j, "registering", "reading")
    /\ registered' = registered \cup {j}
    /\ UNCHANGED <<row, bundle, latest, verdict, seen, process, holders, requested, cancels>>

Exit(j) ==
    /\ process[j] = "alive"
    /\ \E code \in {"ok", "failed"} : process' = [process EXCEPT ![j] = code]
    /\ UNCHANGED <<row, bundle, thread, memory, cancels>>

\* Faulty: the read loop looks at the flag only when the process has ended.
StopOnFlagLate(j) ==
    /\ Step(j, "reading", "reaped")
    /\ j \in requested /\ process[j] # "alive"
    /\ UNCHANGED <<row, bundle, latest, verdict, seen, process, memory, cancels>>

StopOnFlag(j) ==
    /\ Step(j, "reading", "reaped")
    /\ j \in requested
    /\ Killed(j)
    /\ UNCHANGED <<row, bundle, latest, verdict, seen, memory, cancels>>

TimeOut(j) ==
    /\ Step(j, "reading", "reaped")
    /\ Killed(j) /\ Decided(j, "timed_out")
    /\ UNCHANGED <<row, bundle, latest, seen, memory, cancels>>

\* The output ended and the process with it.
Drained(j) ==
    /\ Step(j, "reading", "reaped")
    /\ process[j] # "alive"
    /\ UNCHANGED <<row, bundle, latest, verdict, seen, process, memory, cancels>>

\* An output line finds no row, or the process outlives its closed output by the grace period.
ReadingFails(j) ==
    /\ \/ Step(j, "reading", "raised") /\ (row[j] = "none" \/ process[j] = "alive")
       \/ Step(j, "reaped", "raised") /\ row[j] = "none"
    /\ UNCHANGED <<row, bundle, latest, verdict, seen, process, memory, cancels>>

\* Faulty: the row is read without the fallback for a row that is gone.
ReadLatestUnguarded(j) ==
    /\ Step(j, "reaped", "deciding")
    /\ latest' = [latest EXCEPT ![j] = row[j]]
    /\ UNCHANGED <<row, bundle, verdict, seen, process, memory, cancels>>

ReadLatest(j) ==
    /\ Step(j, "reaped", "deciding")
    /\ latest' = [latest EXCEPT ![j] = IF row[j] = "none" THEN "running" ELSE row[j]]
    /\ UNCHANGED <<row, bundle, verdict, seen, process, memory, cancels>>

\* What the runner will store of a process that ended.
Verdict(j) ==
    IF verdict[j] = "timed_out" THEN "timed_out"
    ELSE IF j \in requested \/ latest[j] = "cancelled" THEN "cancelled"
    ELSE IF process[j] = "ok" THEN "completed" ELSE "failed"

Decide(j) ==
    /\ Step(j, "deciding", IF Verdict(j) = "completed" THEN "bundling" ELSE "writing")
    /\ Decided(j, Verdict(j))
    /\ UNCHANGED <<row, bundle, latest, seen, process, memory, cancels>>

\* _apply_data_build_bundle_update reads the bundle, merges the job's artifacts and stores it.
ReadBundle(j) ==
    /\ Step(j, "bundling", "merging")
    /\ seen' = [seen EXCEPT ![j] = bundle]
    /\ UNCHANGED <<row, bundle, latest, verdict, process, memory, cancels>>

WriteBundle(j) ==
    /\ Step(j, "merging", "writing")
    /\ bundle' = seen[j] \cup {j}
    /\ UNCHANGED <<row, latest, verdict, seen, process, memory, cancels>>

StoreVerdict(j) ==
    /\ Step(j, "writing", "logging")
    /\ Stored(j, verdict[j])
    /\ UNCHANGED <<bundle, latest, verdict, seen, process, memory, cancels>>

LogVerdict(j) ==
    /\ Step(j, "logging", IF row[j] = "none" THEN "raised" ELSE "finally")
    /\ UNCHANGED <<row, bundle, latest, verdict, seen, process, memory, cancels>>

\* Faulty: the except branch does not stop the process.
RaisedAlive(j) ==
    /\ Step(j, "raised", "rewriting")
    /\ Decided(j, IF j \in requested THEN "cancelled" ELSE "failed")
    /\ UNCHANGED <<row, bundle, latest, seen, process, memory, cancels>>

\* The except branch: stop the process and read the row; then store the verdict.
Raised(j) ==
    /\ Step(j, "raised", "rewriting")
    /\ Killed(j)
    /\ Decided(j, IF j \in requested THEN "cancelled" ELSE "failed")
    /\ UNCHANGED <<row, bundle, latest, seen, memory, cancels>>

Rewrite(j) ==
    /\ Step(j, "rewriting", "finally")
    /\ Stored(j, verdict[j])
    /\ UNCHANGED <<bundle, latest, verdict, seen, process, memory, cancels>>

\* Faulty: the slot is not released.
FinallyHoldingSlot(j) ==
    /\ Step(j, "finally", "ended")
    /\ registered' = registered \ {j} /\ requested' = requested \ {j}
    /\ UNCHANGED <<row, bundle, latest, verdict, seen, process, holders, cancels>>

Finally(j) ==
    /\ Step(j, "finally", "ended")
    /\ registered' = registered \ {j} /\ requested' = requested \ {j}
    /\ holders' = holders \ {j}
    /\ UNCHANGED <<row, bundle, latest, verdict, seen, process, cancels>>

-----------------------------------------------------------------------------
(* cancel_command_job, and the pruning of the history.                     *)

At(c, from, to) == canceller[c] = from /\ canceller' = [canceller EXCEPT ![c] = to]

CancelRead(c, j) ==
    /\ row[j] # "none"
    /\ At(c, "idle", IF row[j] \in TERMINAL_RUN_STATUSES THEN "refused" ELSE "flagging")
    /\ target' = [target EXCEPT ![c] = j]
    /\ UNCHANGED <<row, bundle, thread, process, memory, victim>>

CancelFlag(c) ==
    /\ At(c, "flagging", "killing")
    /\ requested' = requested \cup {target[c]}
    /\ victim' = [victim EXCEPT ![c] = target[c] \in registered]
    /\ UNCHANGED <<row, bundle, thread, process, holders, registered, target>>

CancelKill(c) ==
    /\ At(c, "killing", "logging")
    /\ IF victim[c] THEN Killed(target[c]) ELSE UNCHANGED process
    /\ UNCHANGED <<row, bundle, thread, memory, target, victim>>

\* The event fails when the row is gone.
CancelLog(c) ==
    /\ At(c, "logging", IF row[target[c]] = "none" THEN "refused" ELSE "writing")
    /\ UNCHANGED <<row, bundle, thread, process, memory, target, victim>>

CancelWrite(c) ==
    /\ At(c, "writing", "cancelled")
    /\ Stored(target[c], "cancelled")
    /\ UNCHANGED <<bundle, thread, process, memory, target, victim>>

\* prune_run_jobs: which rows are beyond the limits is any choice; terminal_only may be off.
Prune ==
    /\ Prunes
    /\ \E old \in SUBSET {j \in Jobs : row[j] # "none"} :
          old # {} /\ row' = [j \in Jobs |-> IF j \in old THEN "none" ELSE row[j]]
    /\ UNCHANGED <<bundle, thread, process, memory, cancels>>

Runner(j) ==
    \/ Launch(j) \/ Acquire(j) \/ CancelledBeforeStart(j) \/ CheckSettled(j)
    \/ StoreRunning(j) \/ Open(j) \/ Register(j) \/ StopOnFlag(j) \/ Drained(j)
    \/ ReadLatest(j) \/ Decide(j) \/ ReadBundle(j) \/ WriteBundle(j) \/ StoreVerdict(j)
    \/ LogVerdict(j) \/ Raised(j) \/ Rewrite(j) \/ Finally(j)

Cancel(c) ==
    \/ \E j \in Jobs : CancelRead(c, j)
    \/ CancelFlag(c) \/ CancelKill(c) \/ CancelLog(c) \/ CancelWrite(c)

Next ==
    \/ \E j \in Jobs : Start(j) \/ Runner(j) \/ ReadingFails(j) \/ Exit(j) \/ TimeOut(j)
    \/ \E c \in Cancels : Cancel(c)
    \/ Prune

Spec == Init /\ [][Next]_vars

\* The threads go on; a process need not end and its time need not run out.
RunnersSpec == Spec /\ \A j \in Jobs : WF_vars(Runner(j))

-----------------------------------------------------------------------------
(* Properties.                                                             *)

\* The semaphore of process_runner bounds the subprocesses, not only the threads: a
\* runner that gives its slot back, on whatever path, leaves no live process behind.
BoundedProcesses ==
    Cardinality({j \in Jobs : process[j] = "alive"}) <= MaxActive

\* A runner thread that is done leaves no row queued or running: every path out of
\* _run_command_job, the exceptions and the races with cancel and prune included.
SettledRow ==
    \A j \in Jobs : runner[j] = "ended" => row[j] \notin ACTIVE_RUN_STATUSES

\* The runners implement the pool of jobs: whatever threads, cancel requests, time
\* limits and pruning do to the row, the flags and the registry, a job's process is
\* started once, while it has a slot, and is gone with the slot, and the last word
\* about a job is never queued or running (_run_command_job, cancel_command_job).
Stage(j) ==
    IF j \in holders THEN "inside"
    ELSE IF runner[j] \in {"new", "queueing"} THEN "new"
    ELSE IF runner[j] = "ended" THEN "over" ELSE "waiting"
Sub(j) == IF process[j] \in {"none", "alive"} THEN process[j] ELSE "dead"
Report(j) ==
    IF row[j] = "none" THEN "none"
    ELSE IF row[j] \in ACTIVE_RUN_STATUSES THEN "active" ELSE "settled"
Pool == INSTANCE JobPool WITH
    stage <- [j \in Jobs |-> Stage(j)],
    sub <- [j \in Jobs |-> Sub(j)],
    report <- [j \in Jobs |-> Report(j)]
ImplementsPool == Pool!Spec

\* Neither of two builds had the other's artifacts when it read the bundle.
Overlapped(j, k) == j \notin seen[k] /\ k \notin seen[j]

\* A completed data build has its artifacts in the source bundle, for which
\* _apply_data_build_bundle_update reports "status": "updated", unless a build that
\* overlapped with it stored the bundle after it: builds one after the other lose
\* nothing, whatever is cancelled, fails or is pruned beside them.  Every job of the
\* model builds into the same bundle.
UpdateKept ==
    \A j \in Jobs : row[j] = "completed" =>
        j \in bundle \/ \E k \in bundle : Overlapped(j, k)

\* Every job whose thread was started ends, if the time of a process that does not
\* end runs out: no slot is leaked to those that wait.
JobsEnd ==
    (\A j \in Jobs : WF_vars(TimeOut(j))) =>
        \A j \in Jobs : runner[j] = "waiting" ~> runner[j] = "ended"

\* A job reported cancelled does not go on running, although the cancel request may
\* come before its process is registered.
CancelStops ==
    \A c \in Cancels, j \in Jobs :
        canceller[c] = "cancelled" /\ target[c] = j ~> process[j] # "alive"
=============================================================================
