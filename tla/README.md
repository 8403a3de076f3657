# A TLA+ model of ExceptionOps

ExceptionOps ingests operational exceptions, collects evidence, asks a language
model for a classification and a remediation plan, puts risky cases before a
human, and executes an allowlisted action. An API process, Temporal, a worker
and PostgreSQL share the work. The specifications here model what these
processes do to one case, step by step; TLC checks them on small instances and
TLAPS proves the main results for every value of the constants.

Paths below are relative to `src/src/exception_ops/` unless they start with
`docs/` or `README`, which are those of the repository.

## Inventory

| Part | State it keeps | Operations | Status |
|---|---|---|---|
| Case lifecycle: `workflows/exception_resolution.py` | `_approval_decision_id`, position in `run` | `run`, `submit_approval_decision` signal | modelled |
| Ingest: `api/routes/exceptions.py` `create_exception`, `temporal.py` | the new case row | persist, start the workflow, link | modelled |
| Decisions: `api/exception_cases.py` `submit_approval_decision` | `approval_decisions`, `approval_state` | record, retry, signal | modelled |
| Activities: `activities/*.py` | the tables below | collect, classify, plan, gate, finalize, execute | modelled |
| Case store: `db/repositories.py`, `db/models.py`, `db/__init__.py` | `exception_cases`, `evidence_records`, `ai_records`, `approval_decisions`, `execution_records`; the pool of connections | one function per write and per query | partly: every write of the workflow and of decisions, the queries of a case's page, the sessions on the pool; the list of cases, audit events and row-to-object copies are not |
| Policies: `domain/*_policy.py`, `domain/enums.py` | none | `evaluate_approval_requirement`, `evaluate_execution_policy` | modelled |
| Adapters: `evidence_adapters.py`, `execution_adapters.py` | none | `collect`, `execute` | modelled: arbitrary in `CaseResolution`, as configured in `Services` |
| AI service: `ai/*.py` | none | `_generate`, the providers | partly: arbitrary in `CaseResolution`, as configured in `Services`; the OpenAI client is not |
| Worker: `worker.py` | none | polls Temporal | partly: as the fairness and the failures of attempts |
| Sessions: `auth/*.py`, `api/routes/auth.py` | signed cookies | log in, log out, roles, CSRF | partly: signing, hashing and parsing of the operator file are not |
| Operator pages: `api/routes/operator.py`, `api/operator_ui.py` | none | show, approve and reject by form | partly: the forms and their handlers and what a page shows of a case, not the rendering |
| Replay: `replay.py` | overridden global `settings` | run the stages without Temporal, fixture after fixture, and compare | modelled; reading the JSON and printing are not state |
| Migrations: `alembic/` of the repository | the schema and its revision | `upgrade`, `downgrade` | modelled for PostgreSQL, without indexes |
| Application: `api/app.py`, `config.py`, health | `settings` | start, health check | partly: `DB_AUTO_CREATE`, the settings the services read, a health check on the event loop |

How the parts interact. `create_exception` commits the row, then starts the
workflow through a network call, then writes the workflow's id to the row
(*links* the case); the workflow may already be running, and even over, by then.
The workflow calls six activities in a fixed order; each opens a session of its
own and commits one or more times. A case of medium or high risk waits for a
signal. An operator's decision is committed by the API first and signalled
second. An operator decides through a form of the operator pages (or the JSON
routes, which end in the same function); who the operator is comes from a signed
cookie and from the operator file, read anew on every request. `replay.py` calls
the same activities and repository functions in one process, without Temporal
and without the API. A page of a case is put together from five queries while the
others write. All handlers of an API process share one pool of connections, and
the asynchronous ones one event loop. Alembic changes the schema under all of
them, and an API may create tables itself when it starts. The signal carries only the id of the decision, the workflow keeps the
last one it has received, and `finalize_approval_decision` applies that one.

What is hard here:

- four activities are retried by Temporal, so each can be cut off at any commit
  and run again, while operators act on what the first run has written;
- an attempt that outlives `start_to_close_timeout` is not stopped: it goes on
  committing, beside the attempt that replaced it; a slow answer of the model, whose
  client waits ten minutes where the server waits thirty seconds, is enough;
- `execute_action` commits four times around a call that cannot be undone, so it
  is given a single attempt;
- signals may be lost, late, repeated or out of order;
- the functions that check a state before they write it take no lock;
- the row and the record tables are written in separate commits;
- a session lives in the browser only, all tabs share it, and pages with forms
  outlive it; handlers look it up before they await the body of the form;
- a replay changes settings of the whole process;
- a page mixes several moments of its case, and stays open afterwards;
- asynchronous handlers use synchronous sessions: one that waits for a connection
  stops the loop that those who hold the connections need;
- migrations run beside each other, beside `create_all`, and on tables with rows.

What makes each part correct:

- *execution*: nothing is executed that policy or an operator has not allowed;
  nothing is executed twice; what was attempted is on record before it happens;
  row and record agree in the end;
- *decisions*: a decision that was recorded and not delivered can be repeated;
  contradicting decisions need a fault; a delivered decision closes the case;
- *review material*: the evidence does not change under the reviewer; the plan may
  be replaced by a later answer of the model (see `late_plan`), never by an older;
- *ingest*: what the row says about the workflow is eventually true;
- *sessions*: a decision is recorded in the name of the approver who saw the
  case, with a session that is neither over nor logged out;
- *replay*: it keeps the approval boundary of the workflow, stops where it says
  it did, and comes out as a fixture expects, whichever fixture came before;
- *pages*: what a page says of verdict and outcome it also explains, and what is
  decided on is complete;
- *services*: every combination of settings, failures and cases has an outcome;
- *sessions of the database*: none is left open, and every request ends;
- *migrations*: the schema is that of the revision it names, cases survive, and
  what an upgrade leaves can be read.

## Modules

| Module | What it is |
|---|---|
| `Domain` | enums and the two policies, as sets and operators |
| `GatedExecution` | the abstract promise: verdicts, and at most one action, never before it is permitted |
| `CaseResolution` | the system: API, Temporal, worker and tables for one case |
| `OperatorSession` | one browser with tabs, the session and login cookies, the form handlers |
| `CaseView` | extends `CaseResolution`: an operator's page, query by query |
| `Replay` | extends `CaseResolution`: the same activities driven by `replay_fixture` |
| `Services` | adapters, model service and providers as functions of a case and the settings |
| `Corpus` | extends `Replay` and `Services`: the fixtures, one after the other, and what they expect |
| `ConnectionPool` | the sessions of the API on their pool, and its event loop |
| `Migrations` | the revisions, the commands that run them, `create_all` |
| `MCCaseResolution`, `MCCaseView`, `MCOperatorSession`, `MCCorpus`, `MCConnectionPool`, `MCMigrations` | constants for TLC |
| `CaseResolutionProof` | type correctness; nothing without permission; at most one execution, recorded first; implementation of `GatedExecution` |
| `CaseHistoryProof` | evidence is frozen, decisions need gates, a lost signal can be repeated |
| `CaseOutcomeProof` | what stands behind verdicts and outcomes; on one worker, the outcome is final and agreed on |
| `CaseViewProof` | what an operator is shown of a case |
| `OperatorSessionProof` | type correctness; what a recorded decision stands for |
| `ConnectionPoolProof` | no session is left open; what ends a wait for a connection |
| `MigrationsProof` | the committed schema is that of its revision, what a command may raise on, no case is lost |
| `CorpusProof` | how a replay ends, its approval boundary, its outcome and what the corpus expects |

### `CaseResolution`, and how it corresponds to the code

One case is modelled: no query or write of a handler or an activity touches two
cases. The variables are the tables (`row`, `evidence`, `classifications`,
`plans`, `decisions`, `executions`), what the adapter was asked to do
(`effects`), where the API handlers are (`ingest`, `req`, `checked`), the
workflow (`wf`), the activity attempts (`attempts`) and the number of lost
attempts (`faults`).

| Actions | Code |
|---|---|
| `StartWorkflow`, `StartRefused`, `LinkWorkflow`, `IngestDies` | `create_exception` after its first commit |
| `CheckDecision`, `RecordDecision`, `RetryDecision` | the branches of `submit_approval_decision` |
| `SignalDelivered`, `SignalFails` | `signal_approval_decision` and the signal handler |
| `CollectEvidence`, `StoreEvidenceItem` | `collect_evidence`: the adapter call, one commit per item |
| `ClassifyException`, `GenerateRemediationPlan` | those activities; what the model answers is arbitrary |
| `EvaluateApprovalGate` | that activity |
| `FinalizeApprovalDecision`, `ApplyDecision`, `FinalizeRaises` | `apply_approval_decision`: check, commit, exception |
| `ReadCase`, `SkipExecution`, `BlockExecution`, `CreateExecutionRecord`, `MarkStarted`, `CallAdapter`, `AdapterMisconfigured`, `RecordOutcome`, `CloseCase` | `execute_action`, commit by commit |
| `WorkflowAdvances`, `WaitSatisfied`, `WorkflowCompletes` | `run` |
| `RetryAfterError`, `AttemptLost`, `ResultDiscarded` | what Temporal does with an attempt that raised, was lost, or came too late |

Choices a reader should know:

- *Steps.* The API serves all requests from one event loop, and its handlers call
  the database synchronously: they interleave only where they await Temporal.
  The worker and the API are different processes and interleave between any two
  commits. A repository function that writes constants whatever it has read is
  one step. The ORM writes only the columns whose new value differs from the
  loaded one, so the write of such a column takes effect either at the read
  (nothing to write) or at the commit: for each column the step could have
  happened at one moment. `create_approval_decision` and
  `apply_approval_decision` write *because of* what they read, so they are
  split into check and commit, with the flush of changed columns as it is
  (`DecisionCommitted`).
- *Attempts.* The server waits for the attempt in slot `Current = faults + 1`.
  `AttemptLost` covers a worker that dies, a timeout, a result that does not
  arrive, and an exception that the activity does not handle (a database that is
  away). If its activity is one of `LateActivities`, it may keep running in its old
  slot. One worker is enough for the four that await something (`Awaiting`): the
  attempt sleeps in the event loop, for up to ten minutes at the model's client
  (`ai/providers.py:74`), while the server gives it up after thirty seconds and the
  retry runs beside it. The gate and finalize await nothing, so on one worker the
  retry starts when the first attempt has ended (`OneWorker`); to see theirs come
  late takes a second worker, or a stalled process beside a new one.
- *`RetryAfterError`* is the one exception that the code raises on purpose, by
  `apply_approval_decision`; its retry is not counted as a fault.
- *Signals.* Whether the reply to a signal reaches the API changes no state, so
  delivery with and without reply are one action. A start is different: the
  handler writes what it believes (`StartAmbiguous`).
- *Newest* records are found by timestamp; commit order is taken for timestamp
  order, one case having one current attempt.
- *Left out:* requests that end in 404 or 422 and change nothing, the wording of
  policy reasons and failure payloads, audit events, actor names, and the
  advisory risk fields, which no decision reads.
- The early return of `execute_action` (lines 47-57) is part of `ReadCase`, but
  a single attempt never takes it: only a forgotten retry policy would.

### `OperatorSession`

The server keeps nothing about a session. The state is the browser's (`jar`: its
two cookies; `page`: what each tab shows), the requests under way (`req`), the
operator file (`roles`), the clock, and of the case only its approval state and
the decisions recorded. `record`, `logins`, `approvers` and `retired` remember
what the properties speak of: with each decision the page it was taken on and
the moment its request was checked.

| Actions | Code |
|---|---|
| `AskLoginPage`, `AskCasePage`, `SubmitLogin`, `SubmitDecision`, `SubmitLogout` | the links and forms of the pages; a request carries the cookies of the moment it is sent |
| `Receive` | the answer arrives, with the cookies it sets |
| `OperatorLoginPage` | `operator_login_page` |
| `CheckConfigured`, `OperatorLogin` | `operator_login` before and after the await of the form's body |
| `OperatorCasePage` | `operator_exception_detail`; `CasePage` says which form `_render_approval_controls` offers |
| `CheckSession`, then `OperatorLogout` or `HandleOperatorDecision` | `operator_logout` and `_handle_operator_decision` before and after that await |
| `GateReopens` | what a retried gate activity does to the case (see `CaseResolution`) |
| `Configure`, `Tick` | the operator file is edited; time passes |

- Answers of several tabs may arrive in any order, so an old answer can replace
  a newer cookie. Login, logout and forms act on what has arrived by then.
- The login redirect and the case page after it are two requests, as in a browser.
- A case is taken to be linked and its workflow to be running; the answers 404,
  409 and 502 of `submit_approval_decision` record nothing and are one bare page
  here. `CaseResolution` has these branches.
- Cookies never travel between browsers, and what other browsers do to the case
  is not distinguished from `GateReopens` and this browser's decisions: no
  property relates two browsers. The JSON routes check the same session and role
  and carry no form.
- A generated token is new and a signature cannot be made without the secret.

### `CaseView`

One reader opens one page: `Query` is one of the five queries of
`load_exception_case_detail`, in its order (`Queries`), each with a snapshot of
its own (READ COMMITTED); any step of `CaseResolution` may come between. What a
query returns is kept in `view`, and what the page makes of it is `OffersDecision`,
`OffersRetry` and `LatestRemediation`. The reader changes nothing, so one is enough.

### `Replay`, `Services`, `Corpus`

A replay is `CaseResolution` with another driver in place of Temporal: the
activity under way is `attempts[Current]`, advanced by the same `AttemptStep`,
and `NextStep` is shared with the workflow because `replay_fixture` has the
workflow's order. The API cannot act on a replayed case: it has no workflow id
(`ingest = "dead"`). `ActivityFails` is an exception that an activity does not
handle; `FixtureMisfits` stands for the two `ValueError`s of the driver and of
`create_approval_decision`. `Restored` ignores how the driver leaves: that is
what the `finally` clause does.

`Services` says what the mock adapters, the model service and the factories
answer: `Collected` for `collect_evidence`, `Classifications` and `Remediations`
(sets, because the OpenAI provider gives any valid answer or fails), and
`AdapterAnswer`. A summary is the set of the keywords it mentions. `Corpus`
narrows the arbitrary answers of `CaseResolution` to these, keeps the settings of
the process and what the fixture has hidden of them, and goes on to the next
fixture (`NextFixture`). `V1Cases` is `fixtures/v1_cases.json`. Overrides cannot
change `AI_ENABLED`, so what a fixture expects holds for the settings of
`.env.example`; `OutcomePredicted` speaks of any settings. The selections are a
constant: any non-empty sequences of fixtures that `ReplayFixture` admits
(`SelectionsAssumption`, `EntriesAssumption`), because pydantic validates each
fixture and `_run_cli` refuses an empty selection.

### `ConnectionPool`

A request runs the statements of its handler (`Handler`): `take` is the first
statement after a commit, which gets a connection, `commit` gives it back, `call`
awaits Temporal. `OnLoop` are the `async def` handlers: while one runs, `loop` is
taken, also while it waits for a connection. `Return`, `BeginClose` and `Close`
are the end of a handler and the exit of `get_session`, which FastAPI runs in a
thread that the loop has to start. `CheckoutTimesOut` is SQLAlchemy's
`TimeoutError` after `pool_timeout`, which no handler catches. `PoolSize` is
`pool_size + max_overflow`; `get_engine` sets neither, so it is 15. The number of
threads is not bounded in the model.

### `Migrations`

The database is a schema (the tables and the one column that a later revision
adds), a revision and the cases' values of that column. A command plans from the
revision it reads (`UpgradeHead`, `Downgrade`), enters one transaction for all
its revisions (`Enter`, after which it holds the lock on `exception_cases`, which
every table refers to), executes statement by statement, and commits or rolls
back (`CommitAll`, `Raise`, `Crash`). `InitDb` is `create_all`. `Possible` says
which statements PostgreSQL and Alembic refuse. `InsertCase` stores a case as the
models do; `InsertByPhase4` is the release before revision 0002. SQLite, where
DDL is not transactional in this way, and the offline mode are not modelled.

## Runs

Bounds shared by the runs of `CaseResolution`: two open requests allow one decision
to be signalled while another is recorded. `MaxFaults` bounds the lost attempts of
the whole case. Where a property speaks of plans or of evidence, the AI provider
recommends one of two of the five actions or none (no guard tells two allowlisted
actions apart, two suffice to see a plan replaced) and an evidence result has two
items, so that a crash can fall between them. In `crashes` the evidence adapter
always fails and the provider recommends nothing, so that `manual_triage` is what
is executed: none of its properties tells one record of theirs from
another, and the room goes to lost attempts of several workers.
`CHECK_DEADLOCK FALSE` is set because a closed workflow stops, a replay ends and a
browser may be left alone.

| Run | Bounds | Properties | States |
|---|---|---|---|
| `crashes` | several workers (`LateActivities` is `Activity`), 2 requests, 2 lost attempts, ambiguous start, failed evidence, no advice, fairness | `TypeOK`, `ExecutionNeedsApproval`, `AtMostOnce`, `DecisionsPerGate`, `ReconcileOffered`, `ImplementsGate`, `LowRiskCloses`, `SignalCloses` | 0.5 million |
| `torn_reads` | one worker (`LateActivities` is `Awaiting`), 1 reader, 2 requests, 1 lost attempt, ambiguous start, evidence of two items, 2 actions | `ViewTypeOK`, `EffectIsRecorded`, `OutcomeAgrees`, `VerdictIsShown`, `OutcomeIsShown`, `ReviewedIsExecuted`, `RetryRepeatsWhatIsShown`, `EvidenceFrozen`, `OutcomeIsFinal` | 6.8 million |
| `tabs` | 2 tabs, 2 approvers, 5 tokens, 1 decision, no time | `TypeOK`, `ActorSawTheCase`, `LoggedOutFormsAreDead` | 2.8 million |
| `expiry` | 1 tab, 1 user with 3 role sets, sessions of 2 ticks, 3 ticks, 4 tokens, 2 decisions | `DecisionAuthorised`, `RetryFormNeverDecides` | 2.2 million |
| `replay` | the corpus as a whole and by itself, to every stage; one request of every risk and decision, to every stage, with any plan; 576 fixtures of small requests under 9 settings | `ReplayTypeOK`, `RaisesOnlyForAMisfit`, `StopsWhereItSays`, `CorpusMeetsExpectations`, `OutcomePredicted`, `EachCaseImplementsGate` | 0.7 million |
| `pool` | a create, a decision, a page and a health check at a time, again and again; 2 connections; fairness | `PoolTypeOK`, `NothingLeaks`, `StuckUntilTimeout`, `EveryRequestEnds` | 9 thousand |
| `migrate` | 2 commands or starting APIs at once, 2 cases | `MigrationsTypeOK`, `SchemaMatchesRevision`, `AtLeastItsRevision`, `RaisesOnlyWhenOvertaken`, `CasesSurvive` | 12 thousand |

Five tokens let one user log in, log out and another log in while a page of the
first is still open, with one login form to spare; four let a session expire and
a second one be opened. Time and tabs are checked apart: what ties a form to a
session does not look at the clock, and what looks at the clock does not look at
other tabs. `replay` needs no fault bound, as a replay that meets a fault is over.

Two lost attempts are enough to lose the gate twice, or the gate and finalize, or
the gate and execution; no property counts further. One suffices in `torn_reads`:
the reader already meets every commit of a case at every query. Two connections
can be held by a create and a decision that both await Temporal while a page
waits in a thread or one of the two in the loop. Two commands show every order of two plans,
and a third would wait for the same lock. Symmetry (of requests; of tabs and of
users in `tabs`; of commands and cases) is used in safety runs only.

Which attempts write late is a bound as well. `crashes` lets every activity do so.
`torn_reads` is the deployment of `docker-compose.yml`, one worker: `OutcomeAgrees`
and `OutcomeIsFinal` hold there and are false with several, because a gate attempt
that comes back after its timeout sets the row back to `pending` over what the
execution has written. Its `ReviewedIsExecuted` does not say that the plan on the
page is the one that is executed, which a late plan makes false on one worker too
(`late_plan`), but what does hold: the page is complete, and nothing older than its
plan is executed. `RetryRepeatsWhatIsShown` is about a case whose gate has not been
reopened by a lost attempt. The theorems below hold for every `LateActivities`,
except the two about outcomes.

### Fairness

`FairSpec` is weakly fair to the steps of each attempt and to the workflow. The
worker and the Temporal server run until stopped and are restarted by
`docker-compose.yml` (`restart: on-failure`), Temporal dispatches what is
scheduled, and no step of theirs can be disabled by another actor for ever.
Nothing is assumed of operators, of the API process or of its connection to
Temporal: `SignalCloses` starts from a signal that has arrived.

In `ConnectionPool`, `FairSpec` is weakly fair to what runs (a thread or a
handler goes on, a checkout ends in a connection or in the pool's timeout) and
strongly fair to what the event loop takes up: asyncio's queue of ready callbacks
is first in, first out, so that what is ready again and again gets its turn
although others occupy the loop in between. Temporal's client answers or fails.

### Where code and documents part

Each of these runs must end in a violation; the property is what the document
says, the trace what the code does.

- `older_approval_wins` (`RejectedNeverExecutes`). README: "rejected cases stop
  without execution". The gate's first attempt commits `pending` and its result
  is lost; an operator approves and the workflow is signalled; the gate's second
  attempt writes `pending` again; an operator may now reject, while the workflow
  finalizes the approval. The rejection is on record, the action is executed.
- `late_plan` (`ApprovedIsExecuted`). README: the project "executes approved actions
  through durable workflows". One worker, one slow answer: an attempt to plan is
  given up after thirty seconds, its retry stores a plan, the gate runs, an operator
  reads the page and approves. Then the first answer arrives and is stored as the
  newest plan, and `execute_action` carries that one out.
- `link_after_completion` (`CompletionIsVisible`). docs/architecture.md:
  "Workflow state must remain explicit and inspectable". Without any fault: a
  low risk workflow may finish before `create_exception` writes `started` over
  its `completed`.
- `unlinked_case` (`WaitingCaseTakesDecisions`). docs/architecture.md: "workflow
  linkage is stored back on the exception record". The API process dies after
  Temporal has accepted the start and before the commit of the link. The workflow
  comes to its wait; both endpoints answer 409 to every decision, because
  `temporal_workflow_id` is empty, and nothing sets it later.
- `old_cases` (`EveryCaseReadable`). docs/architecture.md: "Alembic is the
  authoritative path for evolving existing databases". Revision 0002 fills
  `execution_state` of the rows that exist with `"pending"`, the value of the
  enumeration; the models store and load its name, `"PENDING"`, so that loading
  such a row raises `LookupError`, on the list of cases too.

Five more differences have no run of their own. The first four are premises of
properties above; the last changes no state:

- `SignalCloses` speaks of cases with one decision. When a lost gate attempt has
  reopened the gate and a second, contrary decision is committed before finalize
  checks, `apply_approval_decision` raises on every retry and the workflow never
  ends (docs/architecture.md: "the workflow completes by applying that decision
  idempotently").
- `ReconcileOffered` speaks of rows that do not say `failed`. A start that Temporal
  accepted and whose reply was lost is stored as `failed`; when that is written
  after the gate, the retry branch, which needs `started`, is closed to the case
  (docs/operations.md: "Retry the same approve/reject action to reconcile the
  workflow signal path").
- `OutcomeAgrees` speaks of workflows that completed. When the worker dies inside
  `execute_action` there is no second attempt, and the execution record says
  `started` for ever (docs/operations.md: "If execution fails, the failure is
  stored as an additive execution record").
- No property speaks of a case that never gets a workflow. `create_exception`
  handles `OSError` and `RPCError` of the start; after any other error, or when the
  process dies, the row says `started` without one (docs/operations.md:
  "`workflow_lifecycle_state` is stored as `failed`").
- For an operator without the role, `_get_operator_page_context`
  (`api/routes/operator.py:448-454`) returns a 403 page, but its three callers (lines
  52, 92 and 170) test for a redirect only and unpack what they got: a `TypeError`,
  and a 500 instead of the page. Nothing is recorded either way.

## Proofs

Each invariant below was checked by TLC on the bounds of the run that checks its
property before it was proved.

### Executions (`CaseResolutionProof`)

These are for any set of requests, any `MaxFaults`, any `LateActivities`, start
ambiguous or not. The assumptions are the named `ASSUME`s of `CaseResolution`: the
types of its constants.

- `TypeCorrect`: `Spec => []TypeOK`. `TypeOK` is not inductive: what an attempt
  writes into a record comes from its own fields. `TypeInv` adds that an attempt
  about to create a record has chosen an action, that one about to close it
  knows the outcome, and that a checked decision is a decision.
- `NothingWithoutApproval`: `Spec => []ExecutionNeedsApproval`. The activity
  decides on an `approval_state` it reads commits before it acts. So `GateInv`
  says what each state of the row means, that an attempt past its decision
  carries the permission, and that what was checked by a decision about to be
  committed still holds. It is inductive because permission is never withdrawn
  (`PermittedGrows`): risk is never written and decisions are only added. So a
  late gate attempt cannot break it, although it does withdraw the row's state.
- `ExecutedAtMostOnce`, `EffectsAreRecorded`: `Spec => []AtMostOnce` and
  `Spec => []EffectIsRecorded`. `OnceInv` says that at most one slot executes,
  that nothing was executed before the workflow got to that step, and which
  records exist at each point of the one executor's way. Here the retry limit of
  `execute_action` enters (`SingleAttempt` in `AttemptLost`).
- `Implementation`: `Spec => ImplementsGate`. Recording a decision is the
  abstract `Decide`, calling the adapter is `Perform`, and every other step
  stutters; the three invariants above supply the guards.

### The pool (`ConnectionPoolProof`)

For any requests of any kinds and any size of the pool
(`KindAssumption`, `PoolAssumption`, and `FreeAssumption`, that the marker of a
free loop is not a request):

- `NothingIsLeaked`: `Spec => []NothingLeaks`, from an invariant that says who may
  hold a connection (`HoldersAreBusy`), that a handler on the loop and the loop
  name each other (`LoopIsTheirs`), and that a thread has at most its one query to
  do (`ThreadsOnlyRead`); types and the size of the pool are part of it.
- `StuckUntilTheTimeout`: `Spec => StuckUntilTimeout`, an action property, from the
  same invariant: while a checkout occupies the loop, every step that would give a
  connection back needs the loop, or is of a request that holds none.

`PoolIsTyped` is the type part of the same invariant.

### Histories (`CaseHistoryProof`)

For any set of requests, any `MaxFaults`, any `LateActivities`.

- `EvidenceIsFrozen`: `Spec => EvidenceFrozen`. The step that would break it is
  that of a collector that has been given up. `ReachedInv` says how far the
  workflow has come when an attempt may still be running, in any slot, and that
  there is at most one collector (`OneCollector`): `collect_evidence` has a single
  attempt, and its loss ends the workflow before a model is called.
- `ReconcileIsOffered`: `Spec => []ReconcileOffered`. `HistoryInv` ties what the row
  says to what happened: a verdict in the row is the last decision until finalize
  starts (`LastIsShown`), is only given to a linked case (`DecidedMeansLinked`), and
  the lifecycle column changes after the start in `execute_action` only.
- `DecisionsNeedAGate`: `Spec => []DecisionsPerGate`. The bound alone is not
  inductive. `GatesInv` also counts what may still become a decision: a question
  that is open, or checked and not yet committed, and the gate attempts that have
  not written. That sum never exceeds the number of attempts the server has
  given out, and only a lost attempt raises it.

### Outcomes (`CaseOutcomeProof`)

The two theorems assume `OneWorker`: any number of attempts may crash, hang or lose
their result, and those that await an adapter or the model may go on writing after
the server has given them up, but the gate and finalize do not. With a second worker
TLC refutes both, as said under *Runs*. The lemmas on the way there (`RowVerdict`:
the row never shows a verdict nobody has given; `ResultInv`: what stands behind each
value of the row's execution column, `Backed`, and what each executor has committed,
`ExecutorKnown`) need no such assumption.

- `OutcomesAgree` and `OutcomesAreFinal`: `Spec => []OutcomeAgrees` and
  `Spec => OutcomeIsFinal`. `DecidersAreCurrent` is what `OneWorker` gives: whoever
  evaluates the gate or finalizes is the attempt the server waits for. `SettledInv`
  follows: when `execute_action` starts the approval is settled and stays so, which
  needs both ways through finalize (`FinalizeWillBeDone`). `EndInv`: an execution
  that has come to its end has told the row, and a workflow completes only then; with
  `ResultInv`, row and record agree.

### Pages (`CaseViewProof`)

A reader changes nothing (`ReadersAreHarmless`: `ViewSpec => Spec`), so every
invariant of a case holds of one that is being read. What has to be added is what
remains true of the *answers* of the earlier queries while the case goes on. All of it
holds for any `LateActivities`.

- `PagesAreTyped`: `ViewSpec => []ViewTypeOK`.
- `VerdictsAreExplained`: `ViewSpec => []VerdictIsShown`, from `RowVerdict` and
  `PageVerdict`: decisions are only added, so the history that is read later still
  has the one behind the verdict.
- `OutcomesAreBacked`: `ViewSpec => []OutcomeIsShown`, from `ResultInv`: what is
  behind an outcome stays (`PageOutcome`).
- `RetriesRepeatThePage`: `ViewSpec => []RetryRepeatsWhatIsShown`, from
  `DecisionsPerGate`: without a lost attempt there is no second decision to confuse
  the first one with.
- `WhatIsReviewedIsExecuted`: `ViewSpec => []ReviewedIsExecuted`. Whoever reads
  `pending` reads after the gate of a risk that is not low; by then the case is
  classified (`ClassifiedInv`) and has a plan (`PlannedInv`), and the evidence is
  frozen. Plans are only added (`PlansGrow`). A page that lists no decision was read
  before anybody was permitted to execute (`NothingTakenYet`), so that every executor
  takes its action after the page has read its plan (`ActionsNotOlder`).

### Sessions (`OperatorSessionProof`)

For any number of tabs, users, tokens and decisions, any sets of roles and any life
of a session; the assumptions are the named ones of `OperatorSession`.

- `SessionsAreTyped`: `Spec => []TypeOK`. It needs that every token that a page, a
  cookie or an answer carries has been generated.
- `DecisionsAreAuthorised`: `Spec => []DecisionAuthorised`. `AdmissionInv`: a cookie
  expires one session's life after a login of its user, wherever the cookie is (in
  the browser, in a request or in an answer), and a request past the first half of
  its handler was admitted by that and by the roles of the moment.
- `RetryFormsOnlyRepeat`: `Spec => []RetryFormNeverDecides`: the form that repeats a
  signal sends no reason, and a decision without one is refused.
- `ActorsSawTheCase`: `Spec => []ActorSawTheCase`. `NameInv`: a token belongs to one
  user, wherever it is, so a form whose token matches that of the session was
  rendered for the user of the session. A token is taken when it is generated and
  never given again.
- `FormsDieWithTheSession`: `Spec => []LoggedOutFormsAreDead`. `LogoutInv`: a retired
  token never comes back to the browser's cookie, because each session's cookie is
  set by one answer only, and one that is still to be set is nowhere yet (`SetOnce`).

### Migrations (`MigrationsProof`)

For any number of commands and starting APIs at once and any number of cases; the
module has no assumptions.

A command's statements are those of its revisions, one after the other. The first
half of the module (`NextStatement`, `RestGoesOn`) turns that list into a place: a
*leg* from one revision to the next, and the number `k` of its objects that are
done. The list is a fold over at most six sequences, so it is unfolded
(`FlattenIs`), not inducted over. `SchemaAt` is the schema expected at that place;
`LegIsClear` goes through the fourteen statements of the revisions and shows that
each one is possible on it.

`MigrationInv` says of each planned command that it begins with a leg out of the
revision it read, and of the one that holds the lock that it is at a place: if its
database is still at the revision the leg begins with, the schema is the one of that
place (with `create_all`, at least that); if it is not, the stamp that ends the leg
is going to refuse, so that whatever the statements before it have done is rolled
back. A command that is through has a schema that fits its revision (`Done`).

- `MigrationsAreTyped`: `Spec => []MigrationsTypeOK`.
- `SchemaIsItsRevision`: `Spec => []SchemaMatchesRevision`, and `RevisionIsThere`:
  `Spec => []AtLeastItsRevision`.
- `RaisesWhenOvertaken`: `Spec => RaisesOnlyWhenOvertaken`. While the committed
  revision is the one the command read, its place has the expected schema, and there
  nothing is in the way (`NothingInTheWay`).
- `CasesAreKept`: `Spec => CasesSurvive`. A transaction that has lost a case (`Lost`)
  has dropped the table of the cases, which is the last object of the leg to the
  empty database, so all that is left to it is to stamp revision 0 or to refuse.

### Replays (`CorpusProof`)

For any selections of fixtures, any settings of the process and every stage to stop
at. The assumptions are those on the constants of `CaseResolution`, of `Replay`
(`OverridesAssumption`) and of `Corpus` (`SelectionsAssumption`, `EntriesAssumption`).

A replay's activities take steps of `CaseResolution`, so its types are kept by the
lemma that keeps them there (`TypeStep`). Because a replay has one attempt and no
fault, more can be said than of a workflow: `ReplayInv` knows the tables at every
place of the driver. Its parts are the place itself (`InStep`), how the driver may
have left it (`Left`), what evidence, classification and plan are there
(`Reviewed`), what the gate and the fixture have decided (`Judged`), and what
execution has written (`Performed`). `Underway` adds which fixture and which
settings the replay is about, and `Answered` what the services have answered.

- `ReplaysAreTyped`: `CorpusSpec => []ReplayTypeOK`; `OnlyMisfitsRaise`:
  `CorpusSpec => []RaisesOnlyForAMisfit`; `ReplaysStopWhereTheySay`:
  `CorpusSpec => []StopsWhereItSays`. All three are read off `ReplayInv`.
- `ReplaysKeepTheGate`: `CorpusSpec => EachCaseImplementsGate`. A fixture's decision
  is the abstract `Decide`, the call of the adapter is `Perform`
  (`AskedWithPermission`: `Judged` and `Performed` supply its guards), and the next
  fixture begins a new abstract case. Nothing here rests on the checks of the API.
- `OutcomesArePredicted`: `CorpusSpec => []OutcomePredicted`, from `ReplayInv` and
  `Answered` at the last place (`OutcomeFollows`).
- `CorpusKeepsItsExpectations`:
  `OnlyV1CasesExpect => (CorpusSpec => []CorpusMeetsExpectations)`. The hypothesis is
  a condition on the constant: who expects anything is a fixture of `V1Cases`, and
  its selection is replayed with mock services. Other fixtures, with any overrides,
  may come between them in any order, because each replay puts the settings back
  before the next one reads them (`ExpectingStep`). The five fixtures are computed
  one by one. `MCCorpus` asserts the hypothesis of its own selections.

### What is only model-checked

- The liveness properties `LowRiskCloses`, `SignalCloses` and `EveryRequestEnds`:
  fairness is out of the prover's reach.
- The violations, which are counterexamples.

## Plan

Done, in this order: `Domain`, `GatedExecution`, `CaseResolution`;
`OperatorSession`; `Replay`; `CaseView`; `Services` and `Corpus`; `ConnectionPool`;
`Migrations`; the proofs about executions, the pool, sessions, histories, outcomes,
pages, migrations and replays. Every invariant and action property that a passing
run checks is stated by a theorem. What would come next is the rest of the parts
that are marked *partly*: the list of cases, the audit events, the requests of the
OpenAI client.

## Not modelled

Rendering of pages, parsing of forms, of settings and of the operator file, and
scripts change no state of a case. Audit events are written with the rows they
describe and read by pages only. The list of cases is one query. Hashing and
signing are library calls. The OpenAI provider is a valid answer or a failure,
without its HTTP requests and prompts. Indexes, and columns that no revision
changes, play no part in what `Migrations` checks. The number of threads of the
API and of worker slots is left to the libraries that own them.
