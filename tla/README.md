# TLA+ models and proofs of FinSight Agent

FinSight Agent lets a Lead agent plan financial research, specialists write workpapers from reviewed
evidence, independent reviewers challenge them, a Writer produce a report, and a person revise and
accept it. Agents run as LangGraph graphs on an Agent Server; a Workbench backend (a BFF with a browser
front end) starts them and answers their interrupts; a PostgreSQL record says which server run belongs
to which piece of research; data builds run as subprocesses of the Workbench.

What goes wrong in such a system is seldom in one function: it is a run that was created twice, a
review that belongs to another text, a task paid for again after a crash, a cancel that comes between
two writes. These modules model that control and leave out what the agents say.

Paths below are relative to `src/` of this project's root, which holds the repository.

## 1. Inventory

| Component | State it keeps | Operations | Hard behaviour | What makes it correct |
|---|---|---|---|---|
| **Run-create record** `src/sec_agent/agent_runtime/agent_server_identity.py`, `agent_server_recovery.py`, `sql/` | sessions, lifecycle events, action snapshots, recovery cases, dispositions, runs, bound invocations; all append-only | bind session, begin, dispatch, fail before dispatch, orphan, recovery required, operator's decision, bind invocation | clients crash and repeat; the operator and the clients hold different locks; two runs compete for a server run | one server run per invocation and back, ordinals without a gap, the operator decides what is ambiguous, nothing is rewritten |
| **Execution guard** `agent_server_entry.py` | none | opens data ports for a server run | a server run starts before its client recorded it | only the bound run reads data |
| **Lead research graph** `lead_research_graph.py` | tasks, results, failures, phase, turn count | initialize, decide, three planning tools, workers, collect | workers in parallel, partial failure, restart in a superstep | work once, on papers, kept, complete before review, ends |
| **Specialist graph** `specialist_graph.py` | notebook of calls and observations, candidate submission, allowances, hand-over | model turns, batches of tools, submit, revise fields, hand over, recover | batches that mix calls, ceilings hit in the middle, work taken over by another run | a port is called again only for what a raise lost, ceilings hold over runs, what is cited was seen |
| **Research session graph** `research_session.py`, `research_session_runtime.py`, `workpaper_intervention.py` | papers, failed attempts, hand-off, case review, stop reason, report | research, remaining research, review, convergence, attention with five decisions, restart | interrupts, continuation, late decisions | a report stands on a review of its papers; a person's decision is applied to what was seen; nothing finished is lost |
| **Case review graph** `case_review_agent.py` | two reviews, recovery state | counter, verifier, collect | incomplete reviews are resumed | both reviews complete, of one scope |
| **Convergence graph** `research_convergence.py` | feedback, round, brief, report, two reviews | authors, Lead, Writer, verifiers, route, finish | rounds, batches, revisions of saved results | what is called ready was reviewed as it is |
| **Report session graph** `report_session.py`, `manual_review.py`, `targeted_revision.py` | report, review, version, phase, handled requests | human_review, writers, verifier, revision, finish | late and repeated requests, failed runs, abandoned questions | an accepted report was reviewed; a version names a text |
| **Workbench report endpoints** `apps/workbench/backend/api/v1/report_sessions.py` | none; reads and writes threads of the server | start, guidance, acknowledge, recover, continue; action, abandon | state read before an await and used after it | as above |
| **Submission receipts** `apps/workbench/backend/submission_receipts.py`, `frontend/vite/src/api/submissionFetch.ts` | receipts by key in the service, a key per content in the page | submit, claim, dispatch, complete, replay, read, reload | lost requests and answers, a crash between dispatch and completion | a submission takes effect once; an answer that says so is true; the page does not repeat blindly |
| **Workbench jobs** `src/sec_agent/workbench/process_runner.py`, `jobs.py`, `store.py` | rows, processes, cancel flags, slots, bundles | start, run, cancel, time out, update bundle, prune | threads, late cancels, exceptions in the middle | bounded processes, settled rows, cancel stops |
| **Conversations, context, memory** `conversation_*.py`, `hermes_*.py`, `working_memory*.py` | messages, records, notes | chat turns, search, edits | concurrent edits of a note | digests name contents |
| **Earlier research graph** `research_graph.py` and contracts | step artifacts | fixed pipeline | - | contracts between steps |
| **Providers, data access, sandbox, foundation tools** | caches | remote calls, read-only tools | unknown outcomes | never resend an unknown request |
| **Workbench services, store, authentication, front end** | stored artifacts | request handlers | - | ownership |
| **Retrieval, ingestion, facts, evidence, deployment, scripts** | data files | batch and pure code | - | evaluation sets |

How they interact: the browser calls the BFF; the BFF creates runs on the Agent Server (one at a time on
a thread, `multitask_strategy="reject"`), reads their checkpoints, resumes their interrupts and sometimes
writes a checkpoint itself (`abandon_question`). The research session graph calls the Lead graph, the case
review graph and the convergence graph in turn and then is a report session. The Lead graph sends tasks to
specialist graphs. Every server run passes the execution guard, which reads the run-create record written
by clients that dispatch runs. Workbench jobs share only the store with the rest.

`PROJECT.json` lists every component with its status, and the hazards of the code with the properties
that watch them; a hazard without a property has a note saying why.

## 2. Modules

| Module | Models | Shape |
|---|---|---|
| `RunCreateLifecycle` | the run-create record, its transactions, the operator, the Agent Server's runs and the execution guard | tables as functions; two transactions are split in read and commit |
| `ServerRunBinding` | abstract: every invocation has one fate, a bound one a server run of its own, a run's invocations are bound in order | |
| `LeadResearch` | the Lead graph with its workers, restart after an error | rows by task, the superstep in flight |
| `SpecialistGraph` | one specialist: model turns, batches, ceilings, submissions, hand-over and recovery | the calls of a turn still to run, the notebook by request |
| `ResearchSession` | research, review, convergence and attention on one thread, with the BFF's handlers for drafts, guidance, continuation and recovery | state by task, requests in flight |
| `ResearchConvergence` | the convergence graph, edits, rewrites and revisions between its runs | texts as versions, reviews by the text they are of |
| `ReportDelivery` | the convergence graph inside its session: what a run takes from the saved state and gives back to it | the convergence with the session's copy of the report beside it |
| `ReportSession` | the report session graph on its thread together with the BFF's action and abandon handlers | checkpoint values, the server's thread, requests in flight |
| `SubmissionReceipts` | the page's keys, HTTP calls, the middleware and its endpoint | a place per call |
| `SubmissionLedger` | abstract: a key is taken once for one content, takes effect at most once, never opens again, and ok is told of an effect only | |
| `ReportBook` | abstract: versions are pages that are added, each with a text of its own; an acceptance of a reviewed text closes the book | |
| `WorkbenchJobs` | runner threads, subprocesses, cancel requests, rows, the slot semaphore, bundles | a program counter per runner and per cancel |
| `JobPool` | abstract: a bounded number of jobs is inside, each with one subprocess that is dead when it leaves, and none is reported active afterwards | |
| `...Proofs` | the theorems of a module | |
| `MC...` | instances for TLC | |

Definitions carry the names of the source where TLA+ allows it. An operator whose comment begins with
`Faulty:` is a plausible bug in the operator after it; it is used only to show that a property would
notice, and no specification refers to it.

### RunCreateLifecycle
Each table is a function from its key, `None` where there is no row. A method that takes the advisory
lock of the run first and commits last is one action, because every other writer of that run waits for
it. `bind_run_invocation` takes its second lock late and competes with binds of other runs; the operator
(`record_recovery_disposition`) locks the recovery case and not the run. Both are therefore split:
`BindRead`/`BindCommit`/`BindAbort`, `OperatorRead`/`OperatorCommit`/`OperatorAbort`, and the commit
re-evaluates exactly what the database re-evaluates (triggers, unique keys, re-reads). A crashed client is
one that takes no further step: nothing in the model forces it to. `RemoteCreate` is the Agent Server and
may happen more than once for an invocation, since `mark_run_create_dispatched` answers every caller alike.

### LeadResearch
The graph's nodes are actions: `Initialize`, `Decide`, the replies of `execute_tools` (`Delegate`,
`Continue`, `Submit`, `Feedback`), `Worker`, `Join` (the reducer at the end of a superstep), `Collect`.
`Dispatch` is the routing that ends several of them. `Raise` is a superstep that raises after some of its
workers finished: LangGraph keeps finished workers' writes, and `Restart` (a run without input, allowed by
`can_restart_remaining_node`) runs the others again. What a worker returns is chosen freely among submitted, attention and
execution limit.

### SpecialistGraph
A turn draws a batch from all sequences of calls up to `MaxBatch` (native tools) or one action (`DecideSingle`).
`execute_batch` runs its calls one after another on one copy of the state: an action per kind of call
(`ReadCall`, `MethodCall`, `NoteCall`, `SubmitCall`, ...), each with the early returns of the code in their
order (saved read, ceiling, duplicate, dispatch); `MixedCall` is the refusal of a batch in which a call that
ends the work is not alone. `Route` is the routing after the last call. A specialist that ends with a
hand-over may be taken up by another run (`Recover`), which keeps the notebook and gets a new allowance on top.
`saved` is the worker's checkpoint: each node writes it when it returns (`Commit`), while the calls of a response
change the working copy only. The worker's graph is compiled without a checkpointer of its own and is run inside
the Lead's `Worker` with the Lead's configuration, so it is checkpointed with it. `Raise` (an error, or the end of
the process) falls back to `saved`: notebook entries of the response are gone, the calls of the ports are not.
`Restart` is the `Restart` of `LeadResearch` seen from the worker: the node that raised runs again from the
checkpoint. `known` is what the model had before it when it wrote its answer; `sent` counts calls of ports and
readers, `lost` the entries a raise lost; both are history that no action reads.

### ResearchSession
The nodes are actions (`Research`, `RemainingResearch`, `CaseReview`, `Converge`, and `Attention` with its
decisions); inside a node the Lead, the specialists, the reviewers and the convergence are reduced to what they
leave in the state, since they have modules of their own. A request reads the state (`PostContinue`, ...)
and acts later (`CreateRun`, `WriteGuidance`). Digests are modelled by what they are taken of: the papers, the
question with its guidance, and the run whose invocation id the plan used.

### ResearchConvergence
`at` is the node to run. A text is a number and the paper versions its author was given; a review is the
number of its text and who has to answer it, drawn freely by the verifiers. The plan (depth and papers) is
chosen at the start. `route_review` is four actions, one per outcome. Between runs `HumanEdit`,
`SingleAgentRevision` and `Followup` are what the report session does to the saved state. A person may edit any
of the papers with the report (`EditPapers`); `prose` says whose text of a paper readers are shown, and an edit
of a paper that an author had revised is `"unread"`: the graph puts its authors' revisions in front of it
(section 4, `research_edited`). An author, writer or
verifier that fails changes nothing and is run again; this is a stutter of the model.

### ReportDelivery
`converge_node` and `revision_handler` run the graph on a copy of the saved state and take over the report, its
review, the unresolved answers and the stop reason when it ends. `ReportSession` has one step for this run
(`Revised`) and one for the first (`Init`); `ReportDelivery` puts the session's copy beside the graph
(`session`), numbers texts as the session does, and `DeliversAsPromised` says that what the graph delivers is what
`ReportSession` assumes of it: the two models are one statement about a report.

### ReportSession
A request is posted (`Post...`, which checks the state it reads) and takes effect later (`CreateRun`,
`WriteAbandon`), so that any other request's whole run may come between. The thread is idle, busy,
interrupted or failed; the server refuses a second run on a busy thread. `Graph` is the node the run is at:
`human_review` with its actions, `writer`, `quick_writer`, `verifier`, `research_revision`, `finish`. `Fail`
is a run that ends with an error at any node. Assumed of the server: a resume of a failed thread runs
its node again, a resume of an ended thread does nothing, a refused `human_review` leaves its
interrupt. A request may be under way for any number of other runs. `lapses` is history that no action reads:
that an abandonment came down on a text its writer had left and `finish` had not numbered (`"draft"`) or on an
accepted report (`"closed"`), both possible because `abandon_question` checks one state and writes over another,
and that a run of a team finished the text of a single agent (`"unverified"`). The properties name the lapse up
to which they hold; they are checked and proved over all interleavings, those after a lapse included. `Book` maps the session to
`ReportBook`: the pages are the report snapshots of the thread's checkpoints, and a text that its writer has
left and `finish` has not numbered is on its way, no page yet.

### SubmissionReceipts
A call is at one place between the page and the endpoint: sent, claimed, answered (the endpoint took effect
or not), on its way back, read or lost. The service may stop at any of them and starts again with its receipts;
the page may be reloaded and keeps its keys. `Reuse` is a client that sends a known key with any content.
`Overlap` says whether the page may submit a content again while a call with it is open. `Ledger` maps the
receipts to `SubmissionLedger`: a key is open while a call works under its claim, and closed when that call
has ended in whichever way.

### WorkbenchJobs
A runner thread has a program counter from waiting for its slot to `ended`; each step is one read or
write of the store, the process table or the cancel set, as `process_runner.py` orders them. `Raised` is an
exception at any step that can raise (`Popen`, an event of a pruned row, a process that does not die).
`Prune` removes rows of jobs as the store's history limit does. `Pool` maps the runner to `JobPool`: a job is
inside from its slot to its release, and over when its runner has ended.

## 3. Runs

| Run | Instance | Checks |
|---|---|---|
| `run_create` | 1 session, 2 runs, 2 invocations, 2 server runs, 2 digests, 1 ordinal | `ServerIdentityAgrees`, `OperatorDecides`, `OneExecutionPerInvocation`, `AppendOnly`, and that it implements `ServerRunBinding` |
| `lead_research` | 3 tasks, 2 workers at once, 3 turns, 2 tasks per delegation, 1 restart | `NoRepeatedWork`, `NeverStranded`, `ReviewIsComplete`, `StopsAfterExecutionFailure`, `Settles` |
| `specialist` | 2 reads, 1 method, 1 note, batches of 2, 2 turns and 2 actions per run, 2 runs, 1 restart | `RepeatsOnlyWhatWasLost`, `WithinAllowance`, `SeenBeforeCited`, `EndsWithReason`, `ReadsAnswered` |
| `research_session` | 2 requests in flight, 2 tasks, 1 message, 3 runs | `ReportStandsOnReview`, `IncompleteIsDirected`, `KeepsWork` |
| `research_convergence` | up to 3 papers, every depth, 2 authors at once, 2 revisions, 1 rewrite or edit of the report and any papers (`Bound`: a plan of all 3 papers two of these together) | `ReadyIsReviewed`, `WritersComeAfterAuthors`, `RoutesOnCurrentText`, and inside its session `DeliversAsPromised` |
| `report_session` | 2 requests in flight, 3 runs, 1 targeted id | `VersionNamesText`, `OncePerRequest`, `UnreviewedByLapse`, and that it implements `ReportBook` up to the first lapse |
| `workbench_jobs` | 2 jobs, 1 slot, 1 cancel, pruning, fair runner threads | that it implements `JobPool`, `JobsEnd`, `CancelStops` |
| `receipts` | 2 contents, 3 keys, 3 calls | `AtMostOnce`, `NoBlindRepeat`, and that it implements `SubmissionLedger` |
| `report_stale_abandon` | as `report_session` | finding, below |
| `research_followup` | up to 2 papers, 1 revision | finding, below |
| `research_edited` | up to 2 papers, 1 edit, 1 revision | finding, below |
| `research_continue` | 1 request, 2 tasks, 3 runs | finding, below |

Every passing run checks its module's `TypeOK` as well. What an abstract specification implies is not checked
beside it: `OkIsTrue` follows from `SubmissionLedger`, `BoundedProcesses` and `SettledRow` from `JobPool`.

Why the bounds are enough for what is asked. Conflicts in the record are between two writers (two
clients, a client and the operator, two runs), over one server run; a second server run and a second digest
are what a wrong one can be taken from. One ordinal leaves the second invocation to compete for it; that
ordinals are closed in order is proved for any bound (`SequenceClosed`, `Refinement`). A Lead's mistakes
need a task that depends on another, a third one that runs beside it, and a superstep that is restarted.
A specialist's need two calls in one response, a request seen in an earlier turn and in an earlier run, and
a ceiling that is reached in the middle of a batch: two of each do; one restart repeats a response whose calls
were made in part (take-overs of take-overs and more restarts are covered by the proofs). In a research session a race is between two requests with one run between
them, and the third run is the first that can continue after a continuation; once the last run
was created no further decision is posted, because nothing could take it. The convergence counts
only the rounds 0 and 1, so a second revision is the first that starts from what a revision left; three papers
with two authors at a time give a superstep with two authors and a round of several supersteps. A plan with all three papers is followed through two revisions, edits or rewrites
together (the constraint `Bound`), smaller plans through two revisions and one edit or rewrite. In a report
session a race is again between two requests with one run between them. Jobs interfere through one row, one flag,
one slot: two jobs and one cancel. A submission is repeated once with a lost answer and once after that;
a second content is what a slot can be confused with. Most theorems (section 5) hold without any of these
bounds. Symmetry is used where no liveness is checked, over sets whose members the module never orders.

`CHECK_DEADLOCK FALSE` is set where the system may stop for good: nobody has to make another call, a report
may be accepted, a worker may be done, all jobs may be done. The convergence says so itself (`Rest`) and its
deadlock is checked.

Fairness. `LeadResearch`: the next step of a running graph is taken (`WF_vars(Step)`); model calls and
workers end because each has ceilings on calls, tokens and time; errors and restarts are not fair.
`WorkbenchJobs`: each runner thread goes on; that a process ends
is not assumed, and that its time runs out only where `JobsEnd` says so. The other modules state no
fairness: what is asked of them is safety.

## 4. Findings

- **`report_stale_abandon`**: `abandon_question` checks the state it read and writes to the newest checkpoint.
  If a revision wrote a report and failed before its verifier in between, the late write puts the unverified
  report before the human as ready, with the old review, and it can be accepted.
- **`research_followup`**: an unresolved author response ends every later revision in `route_review` before the
  author is asked, although a comment says an explicitly requested repair must answer it.
- **`research_edited`**: a person's correction of a paper is not what a later revision works from if an author had
  revised that paper before. The session puts human edits in front of saved revisions (`research_session.py:58`),
  the convergence puts the same revisions in front of that again (`research_convergence.py:125`, `135`) and gives its
  agents no `human_edits`; so they read a text that was withdrawn, although `with_human_edits` is to project "current
  editorial prose" and says "Do not silently restore withdrawn conclusions". Questions and single-agent revisions of
  the report session read the person's text, as `tests/test_manual_review.py:12` tests.
- **`research_continue`**: continuing a research whose task failed with a saved attempt raises
  `recovery_task_or_data_scope_mismatch`: the identity of a task hashes the invocation id of the plan, which is
  the new run's own unless `finsight_plan_invocation_id` is set, and no code of the Workbench sets it.

Seen while modelling, and left out of the runs because no text of the repository promises otherwise or
because the sequence needs a variant of a run above:

- Report session. After a failed question on a single agent's report, `abandoned_question_update` computes the
  phase from stop reason, data requests and findings only, so an unreviewed report reads as ready (README.md:28
  says such a result is marked); `human_review` still refuses the acceptance. `research_stop_reason` is
  cleared by the convergence only, so under a plan without case review a clean revision stays
  `needs_revision`. A run that resumes a single agent's revision after its writer, in another execution
  mode, keeps the previous review (the lapse `"unverified"`). A late abandonment can reopen an accepted report
  (the lapse `"closed"`).
- Research session. Guidance added during a review changes the question its recovery is compared with. A late
  acknowledgement carries no digest of what it acknowledges (`report_sessions.py:544`). A run that failed in
  `recover_workpaper` is not restartable. Two guidance messages sent together lose one. After `recover_workpaper`
  a single-agent session researches again. `review_saved_workpapers` after `amend_reviewed_workpapers` reviews
  the papers as they were before the edit.
- Specialist. A raise in a batch loses what its calls entered in the notebook (`specialist_graph.py:1919`, `2110`):
  after the restart their ports are called again, and the first calls count against no allowance. In a batch a later call hides the tool ceiling an earlier one hit, and the worker goes on without
  actions. A submission that cannot be read replaces the earlier candidate. A read that failed can never be asked
  again. A repeated memory call is executed again and not counted, and memory calls are executed in a
  mixed batch although the reply says that no tool of the response was dispatched.
- Receipts. A 409 of the endpoint ("still running, wait and send again", `conversations.py:186`) is kept
  under the key the page goes on using, so the same text is refused for ever. With `Overlap = TRUE` the late
  answer to an old key takes the slot of a new one and `NoBlindRepeat` fails.
- Jobs. With two slots (the default), of two builds of one bundle that end together each may read it before the
  other stores it, and the artifacts of one are lost; nothing else loses them (`UpdateKept`). The runner writes `running` after its last look at a row that a cancel
  has meanwhile set.

## 5. Proofs

TLAPS checks every proof for all values of the constants under the named assumptions of the modules:
`MaxOrdinalAssumption`, `NoneAssumption` (an absent row is no row), `CapacityAssumption` (the ceilings the
graph's constructor enforces), `FiniteAssumption` (a finite set of task ids), `SpecialistAssumption` (positive
ceilings, finitely many requests, of one kind each), `ResearchSessionAssumption` and `ReceiptsAssumption` (natural
bounds, a distinct `None`), `ConvergenceAssumption` (1 to 12 parallel authors, a finite set of papers distinct from the
other actors), `ReportAssumption`, `JobsAssumption`.

- `RunCreateLifecycleProofs`: each of its nine safety invariants, `TypeOK` and `AppendOnly`. None is
  inductive alone. That a binding agrees with every observation needs what a bind transaction in flight has
  read to stay true until it commits (`BinderFits`); that needs the shape of the attempts of an invocation
  (`AttemptShape`, `OutcomeShape`) and the agreement of all known servers (`ServersAgree`); a
  decision is grounded because observations may only be added for the same server (`Grounded`,
  `BoundDecided`); gaps are excluded by distinct places (`PlacesDistinct`, `NoGap`). `IInv` is their
  conjunction; there is a lemma per part, with a step per action.
- `Refinement`, in the same module: `Spec => Binding!Spec`, the mapping being `Fate`, the place and the
  bound server. `IInv` supplies what a step's abstract guard asks for.
- `LeadResearchProofs`: `TypeOK`, `NoRepeatedWork`, `RunsOnPapers`, `ReviewIsComplete` and the two action
  properties, from an invariant that adds that seeds and tasks are disjoint, that each phase belongs to its
  nodes, and that what the Lead saw is what the rows are.
- The Lead's schedule, in the same module, from a second invariant (`PInv`, theorem `LeadScheduled`): tasks depend
  on saved papers and on each other without a cycle (a delegation with one is refused), so a least pending task, which
  the well-foundedness of the naturals gives (`WFMin`; induction theorems with an operator as parameter are
  not available), is ready: `NeverStranded`. The superstep and the plan stay within `max_parallel_tasks` and
  `max_tasks` (`WithinCapacity`), which needs that a restart sends only what the failed superstep had left. A
  measure of turns, nodes and workers falls with every step and is kept by an error and its restart
  (`SpendsDown`), and is at most (`max_model_turns` + 1) supersteps (`LeadBudget`): what `Settles` says, without the
  fairness.
- `SpecialistGraphProofs`: all six properties of `SpecialistGraph`. Every step leaves the notebook as it is, sends one
  request or falls back to the checkpoint (`NotebookSteps`), and what the invariant says of the state holds of the
  checkpoint as well (`CheckpointFits`), so a raise and its restart keep it: a port is called again for a request once
  per entry that a raise lost, and never for what a checkpoint names (`RepeatsAreLosses`). What was observed was sent, in a run whose turns can be found (`ObservedSent`), so a
  repeated read finds its result after any number of take-overs; a call that ends the work is alone in
  its response, and nothing was observed since the model answered (`ShownSucceeded`), which is why an
  accepted workpaper cites what was seen; `Placed` says where workpaper, hand-over and reason can be found. A measure
  of the turns left and the calls that wait falls with every step between two starts (`WindsDown`), and no take-over or restart starts with
  more than one allowance (`WorkerBudget`, from `TurnsLeft`): the notebook a run takes over raises both sides of the ceiling.
- `ResearchSessionProofs`: `TypeOK`, `ReportStandsOnReview`, `IncompleteIsDirected`, `KeepsWork`, for any tasks, requests,
  messages and runs. The invariant says what hand-off, review, feedback and direction each node may find;
  each node and decision has an outcome predicate, and a lemma per part of the invariant goes through them.
- `ResearchConvergenceProofs`: all six invariants, for any number of papers and revisions. The invariant says
  where authors may be waiting (`AuthorsPlaced`), what a run starts from (`StartsFresh`), how often each
  actor can have worked at each node and round (`AuthorsCounted`, `LeadCounted`, `WriterCounted`), which
  text the saved reviews are of (`ReviewsCurrent`), and that what lies before a verifier was written from
  the papers as they are (`ReportsCurrent`, `BriefsCurrent`), a brief from papers that only a person has changed
  since (`EditedSince`).
- `DeliversAsPromised`, in the same module, for any papers and revisions: `DeliveryInv` says that a report the
  session was given stays while the graph works (`FromOrigin`, `ReportThere`), that the graph and the session have
  the same review of it (`ReviewShared`), that a run that goes on without a new text goes to a stop with a reason
  (`StopHasReason`, `WritesOrStops`), and that only findings send a revision back (`BackForFindings`). So
  `AcceptedWasReviewed` of the session and `ReadyIsReviewed` of the graph are about the same results.
- The end of a convergence: `Distance` (the round of corrections that is left, the nodes after this one, two steps
  per author to ask) falls with every step (`RunsNearTheirEnd`) and starts at no more than 4 steps per paper and
  24 (`RunsAreShort`): with 24 papers 120, within the graph's `recursion_limit` of 280.
- `ReportSessionProofs`, for any requests, ids and runs and with no premise on how late a request or an abandonment
  is: `TypeOK`, `OncePerRequest`, `VersionNamesText`, `UnreviewedByLapse`, `BasedOnWhatWasSeen`, `QuestionKeepsReport`
  and the implementation of `ReportBook`. A text is newer than its version only between its writer and `finish`
  (`Numbered`, `OnItsWay`); elsewhere the report is the snapshot of its version (`Snapshots`), requests aim at a
  snapshot (`Aimed`), a review is of the text a model wrote last (`Reviewed`), a text on its way is on no page and no
  text is on two (`Distinct`). `TextInv` says which lapse each of these stands up to: only an abandonment on an
  unnumbered text breaks the first ones, and a team that finishes a single agent's text the review. Since lapses stay
  on record (`LapsesGrow`), every step before one is a step of the book.
- `SubmissionReceiptsProofs`: `TypeOK`, `AtMostOnce`, `OkIsTrue` for any contents, keys and calls, `NoBlindRepeat` where
  the page waits for its calls (`~Overlap`). A claim is owned by one call (`ClaimsOwned`), effects come from owners
  (`EffectsCounted`), an ok is the answer of an effect for this content (`AnswersTrue`). `LedgerImplemented` maps each
  step to a step of `SubmissionLedger` or a stutter, with no premise: a stop of the service closes every open key
  at once.
- `WorkbenchJobsProofs`: `TypeOK`, `BoundedProcesses`, `SettledRow`, `UpdateKept` for any number of jobs, slots and cancels.
  What is in the bundle, or was when a build read it, is of builds that have stored (`BundleInv`), so whoever stores
  without the artifacts of another overlapped with it. A process is alive only at places inside the slot (`AliveInSlot`),
  the runners inside are as many as the slots taken (`SlotsBounded`), and a verdict is terminal from the
  place where it is decided (`VerdictKnown`). `PoolImplemented` maps each step to a step of `JobPool` or a stutter; its
  bound on those inside is the count of the slots taken, and its promise that nobody who left is reported active
  is `SettledRow` where the runner leaves.

Some theorems state properties that no run spends time on, because the proof covers every instance:
`OneBinding`, `SequenceClosed`, `FailedNeverDispatched`, `StaysGrounded`, `CasesAnchored`, `ClosedEndsRun` of the
record, `WorkOnPapers`, `WorkKept`, `LeadWithinCapacity`, `LeadSpendsDown` and `LeadBudget` of the Lead, `WorkersWindDown`
and `WorkerBudget` of the specialists, `ReadyBriefsAreReviewed`, `CorrectsOnce`, `RunsNearTheirEnd` and `RunsAreShort` of
the convergence, `ProcessesBounded`, `RowsSettle` and `UpdatesKept` of the jobs, `OkMeansDone` of the receipts,
`WorkFitsItsBase` and `QuestionsKeepReports` of the report session.

Only model-checked: the liveness properties `Settles`, `JobsEnd` and `CancelStops`, which rest on
fairness and are out of the prover's reach. For the Lead, the specialists and the convergence the measures above are
the part of it that is safety: no run goes on for ever by taking steps. Every other property of a passing run is a
theorem.

`ReadyBriefIsReviewed` excepts two things the code allows: after a rewrite by one agent the findings that stopped
the former run are gone with their review, and the next revision does not return to the brief (`alone`); and a person
may edit a paper after the brief was written from it, which no revision takes back to the Lead unless a finding does.

## 6. Not modelled

Reasons are in `PROJECT.json`, component by component. In short: what an agent or a model says is a free
choice; validation of content is data, and most of the repository's lines are of this kind (contracts,
compilers of source families, prompts, message formats); retrieval, ingestion and facts are pure or
batch code judged by evaluation sets; the earlier research graph has no concurrent actors; authentication is a
guard in front of every handler. Inside a reviewer of the case review only what it submits is
modelled. Of the report endpoints, notes, exports and streaming are left out. Storage and network errors are
modelled where the code handles them (recovery of ambiguous dispatch, failing runs, lost submissions,
exceptions of a runner).

## 7. Plan

Done, in order of importance: the run-create record with its abstract specification, the Lead graph, the
specialists, the research session with its endpoints, the report session with its endpoints, the convergence, the
receipts, the jobs; each with the proof of its safety, four of them with an abstract specification they are proved
to implement, and the convergence proved to be what the report session takes it for.

Next:
1. The research session over the Lead graph and the case review, as `ReportDelivery` is the report session over
   the convergence: what `Research` and `CaseReview` leave in the state is what those graphs return.
2. Two reviewers of the case review as actors, with their ceilings.
3. Notes and working memory under concurrent edits; the capture cache.
4. Proofs: an abstract specification of the research session (what was finished stays, what is reported was
   reviewed); a check of `abandon_question` at its write, stated as a variant and
   proved to leave the lapse `"unverified"` alone.
