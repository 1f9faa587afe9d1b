# OODA-AI in TLA+

Specifications, model-checking runs and machine-checked proofs of the logic of
OODA-AI: a FastAPI backend (`src/multi-agent-backend/backend`) that runs
LangGraph agents for analytics, exploratory analysis, research, simulation and
monitoring, plus an RL environment and its training loop (`src/rl_env`,
`src/training`). Every definition is translated from the source; `PROJECT.json`
maps each one to its lines. Paths below are relative to
`src/multi-agent-backend/backend` unless they start with `src/`.

Contents: [the system](#the-system) - [the modules](#the-modules) -
[the runs](#the-runs) - [disagreements found](#disagreements-between-the-code-and-its-documentation) -
[the proofs](#the-proofs) - [abstractions](#abstractions) -
[what is not modelled](#what-is-not-modelled) - [order of the work](#order-of-the-work).

## The system

    n8n / a user                                       human (through n8n)
        | POST /v1/signals, /v1/chat/completions            | POST /v1/signals/{id}/approve
        v                                                   v
    routes/signals.py, routes/chat.py  -- Signal row --  routes/signals.py
        |                                                   |
        v  run_monitor_for_signal / run_agent_graph         v  resume_agent_graph
    graphs/base.py -------- one DecisionLog per run, one ContextSnapshot per context commit
        |
        v
    graphs/*.py (monitor, eda, research, simulate, analytics) <-> LangGraph checkpointer
        |                                                           (Postgres or MemorySaver)
        v
    nodes/*.py -> LiteLLM, DuckDB, Tavily;    notify_n8n -> n8n webhooks

    training/train_rl.py -> rl_env/env.py (reset, step) -> eda nodes, rl_env/sandbox.py -> Docker

### Inventory

| Component | State it keeps | Operations | Hard behaviour | What makes it correct |
|---|---|---|---|---|
| Signal ingestion and approval (`routes/signals.py`) | `Signal.status` | ingest, background run, approve | callbacks that overlap each other or the worker; a check and a write with awaits between them | no action without consent, at most one action, a final outcome |
| Agent graph runner (`graphs/base.py`) | `DecisionLog`, `ContextSnapshot`, the graph cache | run, resume, run_monitor_for_signal, notify_n8n | rollbacks in the middle of a handler, best-effort webhooks, a UNIQUE row inserted after a SELECT | one log per run, statuses that agree with the graph |
| Monitor graph (`graphs/monitor_graph.py` and its nodes) | the checkpointed thread | detect, classify, decide, approve_or_auto_act (interrupt), log | resuming a paused, a finished or a forgotten thread | the verdict is taken once |
| Chat completions (`routes/chat.py`) | the request's session | one run of any mode, SQL execution, stream | a 502 rolls back what `get_db` would have committed; three cuts between the rows and the reader | no signal left behind, an answer that tells what was executed |
| Decision log (`routes/decisions.py`) | `DecisionLog` rows | list, statistics, delete | a row deleted while a resume updates it | - |
| Database (`database.py`, `models.py`) | sessions, tables | commit, flush, rollback, connect with retries | expired objects after a rollback | - |
| Startup (`main.py`, `database.py`, `clients/duckdb_client.py`) | the checkpointer, the schema, the demo data | five steps, each with its own rule for failures | an outage in the middle, a crash between two rows, a restart that forgets a MemorySaver | production serves only if it is whole; every start ends |
| EDA agent (`graphs/eda_graph.py`, `nodes/eda_loop.py`, ...) | `AnalysisState` | ten nodes | a loop that feeds itself; three nodes that each choose their subject; two accounts of every call | verdicts have evidence, the run ends, web research at most once, the books agree |
| Context loading (`nodes/load_context.py`, `clients/git_context.py`, `clients/prompt_loader.py`) | none of its own: the mounted repository | identity, manifest, load, render | a deployment between any two reads | a row names the context its run used |
| Research agent (`graphs/research_graph.py`, ...) | `GraphState` | peers, evaluation, synthesis | concurrent peers that degrade; two tests of one budget | only a final answer is reported, no consensus with a failed peer |
| Simulate agent (`graphs/simulate_graph.py`, ...) | `GraphState` | personas, drafts, reactions, scores, winner | two fan-outs, one that fails as a whole and one that degrades; late answers | the row counts the calls, the winner is not beaten |
| Analytics agent (`graphs/analytics_graph.py`, ...) | `GraphState` | SQL generation, validation | two guards written separately | what runs has passed both; they differ only where they mean to |
| LiteLLM client | - | chat with retries | which errors are retried, the last attempt | bounded retries, usage recorded once |
| Evaluation harness and routes | `eval:run:*` in Redis | run a suite in the background, poll | a second pass after any exception; a crash leaves `running` | a report is one whole pass, a case has one audit row, every accepted run ends |
| Benchmark runner and routes | `benchmark:run:*` in Redis | run a suite, report, dashboard, compare | reports of two shapes; names of failure modes in two forms; rounded rates compared as floats | every failure has a name, regressions are found, a report stays, every accepted run ends |
| RL environment and training loop | `_analysis_state`, step and episode counters | reset, step, rewards, the loop | two budgets that end an episode; errors that cost a penalty and errors that abort the loop | one way to end, verdicts keep pace with iterations, returns add up |
| RL sandbox (`src/rl_env/sandbox.py`) | one container per call | run | every Docker request may fail; the program ends when it likes | the container is removed |
| RL evaluation runner, agent tools, support code | - | - | - | - |

`PROJECT.json` lists the hazards of this code one by one, with their lines and
the properties that watch them.

### How the parts interact

* The **worker** (a background task, or a chat request) and the **callbacks** share
  a Signal row, a checkpoint and a DecisionLog, and are coordinated by nothing but
  the value of `Signal.status` at the start of the callback.
* The **graph** keeps the decision in the checkpoint; the **row** is written by the
  caller of the graph afterwards; the **webhook** goes out before that write on
  the worker's side and after it on the callback's side.
* Every **run** of every mode reads the context repository at four moments (commit,
  manifest, rules, prompts) while a deployment may rewrite it, and writes one row
  and at most one snapshot.
* The agents share the **LLM client**; what they count on is the abstract call
  `LlmCall`.
* The **evaluation** and **benchmark** tasks run agents through the same runner and
  keep their status in Redis, which drops it after a time and may fail.
* The RL environment calls the nodes `evaluate_hypothesis` and
  `decide_next_step` of the EDA agent directly, with its own budgets, and runs
  Python actions in the sandbox.

## The modules

| Module | Stands for | Uses |
|---|---|---|
| `ApprovalGate` | what the monitor agent promises about each signal | - |
| `SignalPipeline` | ingestion, monitor graph, runner, approval callback, webhooks | `Gate == INSTANCE ApprovalGate` |
| `MonitorRules` | detection, classification and the action matrix of the monitor agent, as operators | - |
| `EdaLoop` | one run of the EDA agent: hypotheses, queries, iterations | - |
| `EdaRun` | the same run with its books: calls, trace, failures, charts, score, row | extends `EdaLoop` |
| `ResearchLoop` | one run of the research agent | - |
| `VariantScores`, `SimulateRun` | scores as operators; one run of the simulate agent | the second extends the first |
| `SqlGuards`, `AnalyticsChat` | both SQL guards as predicates; one chat completion in analytics mode | the second extends the first |
| `LlmCall` | what the agents count on when they call the LLM | - |
| `LlmClient` | `LiteLLMClient.chat` | `Call == INSTANCE LlmCall` |
| `Sandbox` | `DockerSandbox.run` | - |
| `RlEpisode` | training loop, environment and EDA nodes around the sandbox | `Box == INSTANCE Sandbox` |
| `RlReward` | the reward of every step and the return of every episode | extends `RlEpisode` |
| `ContextVersions` | runs that read the context while it is deployed, and their snapshots | - |
| `Startup` | the start of the backend, restarts and shutdown | - |
| `EvalRuns` | an evaluation run over the API, with its scorers and the retries of the LLM client | extends `MonitorRules` |
| `BenchmarkReport`, `BenchmarkRuns` | classification, reports, dashboards and comparison; benchmark runs over the API | the second extends the first |
| `MCSignal`, `MCEda`, `MCRl` | instances TLC checks | one module each |
| `MCAgents` | research, simulate and analytics requests and LLM calls side by side | `ResearchLoop`, `SimulateRun`, `AnalyticsChat`, `LlmClient` |
| `MCService` | starts, deployments, evaluation and benchmark runs side by side | `ContextVersions`, `Startup`, `EvalRuns`, `BenchmarkRuns` |
| `SignalPipelineProofs`, `SignalGateProofs` | theorems about `SignalPipeline` | TLAPS |
| `EdaProofs`, `RlProofs`, `ContextVersionsProofs`, `EvalRunsProofs` | theorems about `EdaLoop` and `EdaRun`, `RlEpisode` and `RlReward`, `ContextVersions`, `EvalRuns` | TLAPS |
| `AgentsProofs`, `ServiceProofs` | theorems about the compositions `MCAgents` and `MCService`, and about the parts in them | TLAPS; `EvalP == INSTANCE EvalRunsProofs` |

Operators called `Mut...` are not part of any specification. Each is a variant
of the definition after it with a plausible mistake; `PROJECT.json` says which
property notices it, which shows that the property depends on that code.

### SignalPipeline

State: `row`, `logs` and `snapshot` are committed data, `thread` is what the
checkpointer holds for the signal's thread, `worker` and `call` are the local
variables of the running tasks (a crash forgets them), and `asked`, `acted`,
`consent` and `turnedAway` record what the world outside has seen: webhooks
delivered and answers accepted or refused.

A handler is cut into actions where it awaits something with an effect that
other tasks can see:

| Code | Actions |
|---|---|
| `ingest_signal`, the monitor branch of `chat_completions` | `Ingest` (row committed), `Chat` (row flushed only) |
| `run_agent_graph`, the graph | `ContextFails`, `RunGraph`, `FailGraph` |
| `ensure_context_snapshot` and the DecisionLog commit | `SelectSnapshot`, `CommitLog`, `RollBackLog` |
| `run_monitor_for_signal`, `_sync_signal`, `notify_n8n` | `Notify`, `LoseNotice`, `AbortNotify` |
| the caller's last commit | `FinalCommit`, `FailFinalCommit` |
| `approve_signal` up to the resume | `Accept`, `TurnAway` |
| `resume_agent_graph` | `LoadCheckpoint`, `FinishResume`, `FailResume`, `SelectLog`, `CommitResumeLog`, `RollBackResumeLog` |
| the rest of `approve_signal` | `CommitVerdict`, `FailVerdict`, `Dispatch`, `LoseAction` |
| `DELETE /v1/decisions/{id}`, other runs, restart | `DeleteLog`, `OtherRunCommits`, `Crash` |

Two facts of the libraries shape the model. A rollback expires the ORM objects
of the session, and reading one in an async session raises `MissingGreenlet`: on
the background path the worker then stops before it can write a status
(`Unreadable`, `AbortNotify`), and after a failed log write a callback writes its
outcome but cannot send the action (`SendsAction`). And resuming a thread that
has already finished replays the approval it holds, it does not take a new one
(`Verdict`).

`ApprovalGate` is the abstract specification: per signal, a verdict taken once,
answers, an action dispatched at most once and only when granted, and a final
outcome. The refinement mapping reads the verdict from the checkpoint and the
outcome from the row; answers and deliveries are the same variables.

### EdaLoop and EdaRun

`EdaLoop` has one action per node of `graphs/eda_graph.py`, and `NodeRaises` for the
exceptions that leave a node. `hypotheses` and `queries` are the lists of
`AnalysisState` reduced to status, the hypothesis a query serves and whether it
was executed. The plan's size, the wish for web research, every verdict and
every refinement are choices of the model (they are the LLM's).

`EdaRun` extends every one of these actions with the bookkeeping of its node:
`books` has the usage list of the graph state next to the counters of
`RunMetrics`, the trace of tool calls and the failure records, all counted in
calls; `outcomes` says what each query brought. The two accounts of a call are two
operators (`Billed`, `Metered`), and each of the seven call sites uses both, one or
none for itself. Its steps are steps of `EdaLoop` by construction (each conjoins one),
so the properties of `EdaLoop` are checked on it directly.

### ResearchLoop

Peers answer in any order (`PeerAnswers`, `PeerFails`), `GatherPeers` is
`asyncio.gather`, and then `EvaluateEvidence`, `Synthesize` and the router
follow. Scores are integers: confidence in percent, weights in tenths, the
threshold in thousandths; the sum over the peers is compared with the threshold
times their number, so that nothing is divided. The sufficiency test and the two
separate tests of the generation budget (`ForcedStop` in `synthesize`,
`NextNode` in the router) are kept apart as in the code.

### VariantScores and SimulateRun

A call of the LLM is open until it answers or its client gives up. Drafts are
joined by `asyncio.gather` without `return_exceptions`: the first failure fails
the graph while the other calls go on, and they answer when they like. Reactions
catch their failures one by one, but the prompt is rendered outside of that try
block (`ReactionPromptRaises`). Scores are integers: the weights in hundredths,
the score in ten-thousandths, rounded as the code rounds. The two definitions a
sum and a sort would need recursion for are stated by counting: `Intensity` counts
the steps of all intensities, and `Ranking` puts a draft behind those that a stable
sort puts before it.

### SqlGuards and AnalyticsChat

A statement is a sequence of tokens of ten kinds, enough to tell every rule of
the two guards apart: a starter of both ("select"), one of the client only ("show", for
`show`, `describe`, `explain` and `pragma_show`), a keyword both forbid, one only the
client forbids, other words, comments, literals, semicolons and parentheses.
`validate_sql` looks for words outside of comments and literals (`CodeWords`),
`assert_readonly_sql` outside of literals only (`Words`). Behind a semicolon the first
accepts semicolons and, at the very end, comments (`Single`), the second semicolons only.

`AnalyticsChat` takes a statement through the graph, the row, the execution, the answer
and the stream. `executed` is what the client returns, `told` what the answer says of it
(`_format_analytics`): the number of rows fetched and up to ten of them, never whether
the client marked them as cut.

### LlmCall and LlmClient

`LlmCall` is the abstract call: a number of requests known before, one end,
nothing after it, usage recorded for an answer only, and an end that comes.
`LlmClient` follows the attempts, what came back for each, and the pauses between
them; the refinement mapping counts the requests sent.

### Sandbox, RlEpisode and RlReward

`Sandbox` follows one container through `create`, `put_archive`, `start`, `wait`,
`kill`, `logs` and `remove`. Any request may be refused by the daemon
(`DockerException`, made into a result) or fail otherwise (an exception that
propagates), and the program ends concurrently. `RlEpisode` composes it with
`env.reset`, `env.step` and `run_training_loop`: an action is malformed, runs
directly, carries a content of the wrong type, or goes to the sandbox; an action
that ran is registered as a query and gets one iteration of the EDA nodes.
`RlReward` extends every action with the reward `env.step` returns and what
the loop adds up; a reward whose computation raises makes an iterated step pay as a
failed one (`unscored`). A scorer is one of four kinds, told apart by the verdicts it can
give on what the environment passes to it.

### ContextVersions

`head` is what HEAD names, `tree` the version of each part of the working tree: a
deployment rewrites the parts one by one and then moves HEAD. A run reads the
identity (the commit, or a content hash when git fails), hashes the files, loads
the rules, and renders a prompt whenever a node needs one. The snapshot is looked
up and inserted in two steps.

### Startup

One action or two for each of the steps of `lifespan`, over a PostgreSQL that comes
and goes. What it and DuckDB have committed survives crashes; `executemany` commits
row by row. `production` is fixed before the first start.

### MonitorRules and EvalRuns

`MonitorRules` keeps of an event what the rules ask of it: which metric it has,
whether its value is beyond the threshold, and whether it has a description. An
answer of the LLM is any kind the rules know with any severity, valid or not.
`ActionFor` composes the three nodes and the edge between them. `MCSignal`
states as an assumption that the actions `SignalPipeline` lets a graph choose
among are exactly the values of `ActionFor`.

`EvalRuns` follows `POST /v1/eval/runs` and `_execute_suite`. `stored` is the
value in Redis, which may fail to take a write and drops it after a day;
`results` are the results of the pass under way and `pass` says whether it has a
database session. Every case goes through `ActionFor` and then to its scorer;
`attempt` counts the attempts of the judge's call (`LiteLLMClient.chat`). An
exception that leaves `run_suite_file` (`ContextRaises`, `JudgeRaises`) starts
the second pass or fails the run (`PassRaises`); one inside the graph fails the
case only (`FailCase`).

### BenchmarkReport and BenchmarkRuns

`BenchmarkReport` has the classification of a case, percentiles, rates, the
dashboard and `compare_reports` as operators. A failure mode keeps the form in
which the result holds it, because `str()` of an enumeration member is not its
value. Rates are rounded as Python's `round` does, half to even. The comparison is one
of binary floating point numbers: `LessByFivePoints` gives the set of its possible
outcomes, which has two members where the rates are exactly five points apart and one
everywhere else. `BenchmarkRuns` has the accepted run, the task case by case, the record in
Redis, and a comparison that reads two records one after the other.

### The compositions

`MCAgents` and `MCService` put components side by side that share no variable.
Interleaving them would add no behaviour to any of them, so one component moves
in each behaviour and the others keep their initial state; each moves under its
own fairness. Components that do interact are composed in their own modules:
`SignalPipeline` interleaves worker, callbacks, faults and the outside world over one
database; `RlEpisode` runs the sandbox, whose program ends concurrently; `EdaRun` and
`RlReward` extend the steps of `EdaLoop` and `RlEpisode` jointly.

## The runs

Deadlock is not checked: a run of the agents ends, signals are ingested once,
and training finishes. The liveness properties say that the end is reached.

### Passing

| Run | Question | Instance | Distinct states |
|---|---|---|---|
| `signal_core` | do consent, single delivery and the gate survive crashes, database errors, graph errors, lost webhooks, failing context and deleted logs? | 1 signal, 1 callback at a time, all faults, Postgres checkpointer | 19,133 |
| `signal_live` | without faults, does every signal settle, is every approval carried out, does every answer decide, even with overlapping callbacks? | 1 signal, 2 callbacks, fair | 2,043 |
| `eda` | are verdicts backed, iterations used well, do the books tell what was done, and does the run end? | budget 3, up to 4 planned hypotheses, one chart, finding and recommendation | 1,710,598 |
| `agents` | research, simulate and analytics requests and LLM calls: is what they answer final, unbeaten, accounted for, and does every run end? | 3 peers and 2 generations; 3 persona files of which 2 are taken, 1 or 2 drafts; statements of 3 tokens; up to 5 retries | 236,570 |
| `rl_training` | does each episode end in one way, do verdicts keep pace, do returns add up, does training end? | 3 episodes over 2 questions (one with a hypothesis, one without), 3 steps, 2 iterations | 2,350,442 |
| `service` | starts, deployments, evaluations and benchmarks under crashes and a failing Redis and database | 2 runs and 1 deployment; 3 connection attempts and 4 faults; the 4 cases of the shipped monitor suite; 2 benchmark runs of 2 cases, with and without recorded modes | 274,637 |

Properties, by run:

* `signal_core`: `TypeOK`; `ActionNeedsConsent`; `ActionAtMostOnce`;
  `ExecutedMatchesGraph`; `PendingIsBacked` (nobody is asked about a signal that
  was never logged or cannot be resumed); `ImplementsGate`
  (`ApprovalGate!Spec` under the refinement mapping, final outcomes included).
* `signal_live`: `AuditedOnce`, `EverySignalSettles`, `ApprovalCarriedOut`,
  `EveryAnswerDecides`.
* `eda`: `EvidenceBeforeVerdict`; `OneQueryPerHypothesis`; `WebResearchLast`;
  `CallsAddUp` (the two accounts of LLM calls that seven call sites keep by hand, and
  the row, count the calls that the plan, the queries, the verdicts, the charts and the
  findings show); `FailuresAddUp` (queries, failures and modes tell the same story);
  `Terminates`.
* `agents`: of research `FinalAnswerOnly`, `StopsAtConsensus`,
  `FailedPeerBlocksConsensus`; of simulate `RowCountsCalls`, `WinnerIsUnbeaten`,
  `LateAnswersChangeNothing`; of analytics `AnswerIsAccountedFor` (what ran is on
  record as valid, and the answer tells what ran), `GuardsAgree` (each guard accepts what
  the other refuses only for reasons that are named); of the LLM client `KeepsPromise` (the refinement of `LlmCall`, its
  liveness included); of all `AgentsEnd`.
* `rl_training`: `OneWayToEnd`, `VerdictsKeepPace`, `RewardsAddUp`, `TrainingEnds`.
* `service`: of the context `SnapshotPerSha`, `TiedToItsContext`; of starts
  `ProductionIsWhole`, `StartsEnd`; of evaluations `ReportIsRight`,
  `LoggedAtMostOnce`; of benchmarks `FailuresAreNamed`, `DashboardsShowRegressions`,
  `DoneIsNeverRevoked`; of both `RunsEnd`.

### Bounds

* **Signals.** Signals share only the context snapshot. One signal is enough for
  the properties of a signal, with `OtherRunCommits` for the rest of the system;
  `signal_audit` has two. The theorems are about any number.
* **Callers.** `Callers` bounds the callbacks in flight, not their number: a
  caller may come back any number of times. One is the case n8n's workflow
  intends (it asks once), two is the smallest case that overlaps.
* **MaxLogs** keeps `DeleteLog` from making the sequence of log rows grow without
  end: 3 allows a row to be deleted, replaced, and deleted again.
* **SnapshotKnown** FALSE starts before the first run of a context commit, so
  that the UNIQUE constraint can be violated; TRUE is the ordinary case and
  shows the other disagreements without it.
* **eda**: up to four hypotheses against a budget of three gives plans
  smaller than, equal to and larger than the budget; refinements add more. The
  code's budget is 5; the proofs are for every budget. One item per list is enough
  for the score to differ by it.
* **agents, research**: evidence counts 0, 2, 6 are none, half strength and above
  the cap of four; confidences 0 and 100 are the two ends of calibration.
  `MinEvidence` is 1 and the budget 2.
* **agents, simulate**: two drafts are the smallest ranking, two personas the
  smallest fan-out in which one fails and one answers late; `PersonaLimit` cuts one
  of three. Intensities 1 and 5 are the ends of the scale. Every mixture of
  stances over two personas occurs. The theorems are about any number of drafts.
* **agents, analytics**: every statement of up to three tokens, with the length
  limit at two, so that it can be exceeded; 0 to 3 matching rows against a limit of
  2 are fewer, as many and more, and `ShownRows` is 1 where the code has 10, so that rows
  that were fetched are not shown; answers of up to 3 characters in chunks of 2 end in
  a whole and in a broken chunk. The theorems are about statements, results and
  answers of any length.
* **agents, LLM**: `max_retries` 0, 2 and 5: no retry, the default, and enough for
  the pause to reach its cap.
* **rl_training**: MaxSteps (3) is larger than MaxIterations (2), so that either
  budget can be the first; the code has 5 for both, where a step that does not
  iterate gives the same order. Three episodes over two questions wrap the
  round-robin pointer around. The judge may approve of any answer, which covers the
  other scorers.
* **service, context**: two runs and one deployment are the smallest case in which
  a deployment falls between two reads of one run and between two runs; proved for
  any number. The inductive invariant was also checked with two deployments.
* **service, starts**: three attempts, two rows per table, and four faults: enough to
  fail twice and be restarted twice.
* **service, evaluations**: three cases whose event breaches a rule, one per action,
  and one the LLM classifies; `MaxRetries` is the default of `config.py`.
* **service, benchmarks**: two cases, of analyses that record no failure modes of their
  own or one (`Recorded`), two runs to compare; `ThresholdHolds` compares all pass rates
  of up to 60 cases. The theorems are about any number of runs and any recorded modes
  and, where rates are rounded, about fewer than 500 or 20000 cases.

### Fairness

`signal_live` assumes weak fairness of each running task (`WorkerStep(s)`,
`CallStep(c)`): the asyncio loop runs every ready task, and each await in it has
a timeout or ends. It assumes nothing of the outside world: nobody has to
ingest or answer. `eda` and `rl_training` are single tasks (`WF(Next)`): the
graph or the training loop continues as long as it can, which rests on the timeouts
of the LiteLLM client and of `container.wait`.

In the compositions each component has the fairness of its module, for the
behaviours in which it moves. Research and the LLM client: `WF(Next)`. Simulate:
weak fairness of its nodes and of its calls separately, since every call ends
(`LlmClient`). Starts: weak fairness of the steps of `lifespan` only; PostgreSQL need
not come back and nobody has to restart the process. Evaluations: weak fairness of the
background task. Benchmarks: while some task can go on, one of them does, which is less
than fairness to each. Nothing is assumed of faults, of the start of a run or of the time
to live in Redis, so that `RunsEnd` rests on the bounded retries, on the single second
pass and on the finite suites. The analytics chat and the deployments are checked
for safety only, without fairness.

## Disagreements between the code and its documentation

Each run below checks one statement of a docstring, comment or test, and TLC
shows a behaviour of the code that contradicts it. `PROJECT.json` quotes the
statements.

| Run | Statement | What happens |
|---|---|---|
| `signal_race` | `OutcomeIsFinal` | two callbacks pass the 409 check together; the later one overwrites the committed outcome of the other (`routes/signals.py:139-158`) |
| `signal_early_callback` | `NoCallbackTurnedAway` | n8n is asked before `pending_approval` is committed; a quick answer gets 409 and nobody repeats it (`graphs/base.py:629`) |
| `signal_audit` | `AuditedOnce` | two first runs on a new context commit: one violates the UNIQUE snapshot row and loses its DecisionLog with it (`graphs/base.py:345`) |
| `research_brief` | `RefinedBriefIsRead` | `next_brief` is read by no node: every generation works on the first brief (`nodes/parallel_peers.py:65`) |
| `rl_sandbox` | `AlwaysRemoved` | when `put_archive` fails the container exists but the finally block does not know it (`src/rl_env/sandbox.py:111`) |
| `bench_regression` | `ApiShowsRegressions` | `compare_reports` reads keys that the stored reports do not have: over the API no regression is ever detected (`benchmark.py:430`) |

What still holds is as telling: with two overlapping callbacks
`ApprovalCarriedOut` and `EveryAnswerDecides` hold, and `ActionNeedsConsent` is
proved for any number of them.

Noticed while reading, without a run:

Signals and chat

* A failed chat run answers 502 (`routes/chat.py:435`), and `get_db` rolls back the
  status `failed` that `_sync_signal` has set, after `processing` was committed with
  the log: the row stays `processing`, although `models.py:60-61` has `failed` as an
  end of the life cycle. `EverySignalSettles` therefore holds without a failing graph.
* A resumed monitor row never gets its tokens: `graphs/base.py:526-530` updates
  status, output, score and error only.
* With `Durable = FALSE` (the MemorySaver fallback) a restart leaves rows in
  `pending_approval` that no graph backs, so `PendingIsBacked` fails, while
  `ConsentInv` still holds: answering such a row never sends an action.
* A failed run has no values any more (`graphs/base.py:443`): its row has no tokens,
  although calls were made and paid for, and in analytics mode the sha `unknown`.
* `clients/duckdb_client.py:115` marks a result as truncated that has `max_rows` rows,
  cut or not, and nobody reads the mark: the answer (`routes/chat.py:107-115`) gives the
  number of rows fetched as if it were all of them and shows ten without a word about
  the others. `AnswerIsAccountedFor` therefore excepts a number equal to the limit.
* The two SQL guards do not agree: `validate_sql` removes comments and checks
  parentheses and length, `assert_readonly_sql` does none of it but forbids more
  keywords, and it lets `show`, `describe` and `explain` open a statement, which
  `validate_sql` refuses, so that in analytics mode they never reach it
  (`clients/duckdb_client.py:27`, `nodes/validate_sql.py:79-83`). A statement with a forbidden word in a comment is recorded as valid, scored
  1, and refused when it is run. `context/prompts/analytics/generate_sql.md:42` tells the LLM that
  "invalid SQL fails the request"; the request succeeds without rows.

Exploratory analysis

* `nodes/eda_loop.py:10-13` ends the loop when "All hypotheses are resolved
  (supported/rejected/refined)" or the budget is exhausted; a hypothesis judged
  `insufficient_evidence` is neither pending nor resolved, and the loop ends with
  budget left (`nodes/eda_loop.py:400`).
* The additional queries such an evaluation asks for are stored "for the next
  iteration" (`nodes/eda_loop.py:351`), and the sub-question branch of
  `generate_eda_sql` (`nodes/eda_loop.py:101-110`) would write them, but it is never
  reached in a run: `OneQueryPerHypothesis` (theorem `IterationsInOrder`).
* `graphs/eda_graph.py:7-8` lists a node `profile_data` that the graph does not have.
* Web research is skipped when the last verdict falls on the last iteration: the
  budget is tested first.
* `metrics.total_tool_calls` is never increased: the trace grows, the metric stays 0
  (`Traced`).
* The fallback charts call `run_until_complete` inside of the running loop and are
  never drawn (`RunFindings`).

Simulate

* A reaction that fails is neutral with intensity 3, which may be better for a draft
  than an answer; opposition with a high intensity raises the score of the draft; with
  more than four personas a draft that all support may lose (`WinnerIsUnbeaten` says
  what does hold).
* A persona without a field of the prompt template fails the whole run: the prompt is
  rendered outside of `react`'s try block.
* `variant_count` and `personas` in the inputs of the shipped suite are read by nothing.

Context and startup

* A deployment during a run gives a row whose sha is not what the run used; the code
  has no lock and no second look (`TiedToItsContext` excludes these runs).
* A crash while the demo data is inserted leaves a table that is neither empty nor
  complete, and every later start takes it for seeded (`clients/duckdb_client.py:164`;
  `orders` and `metrics` in `Startup`).
* `/ready` says `ready` in development when the migrations have failed or checkpoints
  are kept in memory. A start that raises closes nothing, and the context manager of
  the checkpointer is lost when `setup()` fails.
* The graph cache is keyed by `id(checkpointer)` and never freed (`graphs/base.py:255`).

Evaluation and benchmark

* `eval_harness.py:10-13` promises an isolated checkpointer; `routes/eval.py`
  passes the one of production, and cases that ask for approval stay paused there
  (`paused` in `EvalRuns`).
* The second pass of an evaluation leaves no DecisionLog rows. The log message in
  `routes/eval.py:73` blames the database, but a judge that gives up starts it too.
* An unstructured event for which the LLM gives no usable severity counts as
  `medium`, which the matrix answers with `auto_act`.
* `benchmark.py:340` applies `str()` to members of `FailureMode`, while the
  aggregates look up the bare values: a failed case of an analysis that recorded
  modes is counted under none of them, although `src/README.md:39` has "every failed
  benchmark run is classified into one of six failure modes". `FailuresAreNamed` says
  which failed cases are counted and which are not.
* `benchmark.py:430` compares rates as binary floating point numbers: a drop of exactly
  five points from 8/20 to 7/20 is reported as a regression (`0.4 - 0.05` is
  `0.35000000000000003`), one from 20/20 to 19/20 is not.
* A run whose process died, or whose outcome Redis did not take, stays `running` until
  its key expires (`routes/eval.py:130`, `routes/benchmark.py:111`).
* `POST /v1/benchmark/compare` answers for runs that are still running or have failed.
  The docstring of `routes/benchmark.py:6` promises `GET /v1/benchmark/dashboard`,
  which does not exist.

LLM client and RL

* `clients/litellm_client.py:75` promises retries of transport errors and 5xx
  answers; a 4xx answer is retried as well (`Caught`, `JudgeRetries`). An answer with
  status 200 that cannot be read raises something that is no `LLMError`; what an
  attempt that timed out has cost is recorded nowhere.
* `src/rl_env/env.py:135` says that `max_steps` "mirrors max_iterations", but the
  analysis always gets the constant 5 (line 648).
* `src/rl_env/env.py:306` treats a malformed action as an execution error, but
  JSON whose content is not a string passes the parser and raises later
  (`UntypedAction`): training is aborted and its trajectories are lost.
* `src/rl_env/rewards.py:6` ties the penalty to SQL and sandbox errors; it is
  also given when a node of the EDA loop fails, and when the computation of the reward
  raises after an iteration that succeeded (`src/rl_env/env.py:360`).
* `src/rl_env/rewards.py:206` says that its dispatch "mirrors eval_harness._score()
  exactly". Python actions never match a SQL scorer, `exact_match` compares nothing
  with nothing when the expected values do not have the field, and the judge gets
  neither rubric nor output field (`Verdicts`).
* `src/rl_env/rewards.py:7` wants its penalty to encourage brevity, but every step
  that matches is paid 1.00 again: of two episodes that match, the longer one returns
  more (`RewardsAddUp` has the sum).

## The proofs

All theorems hold for every value of the constants that satisfies the named
assumption of the module; the assumptions only give the constants their types
(`SignalAssumption`, `EdaAssumption`, `EdaRunAssumption`, `ResearchAssumption`,
`EpisodeAssumption`, `ScorersAssumption`, `ContextAssumption`, `EvalAssumption`, and
`ComponentAssumptions` and `PartAssumptions` of the compositions). What a theorem
assumes beyond that it says itself. Every invariant and every action property that a
passing run checks is stated by a theorem.

**SignalPipelineProofs** - any set of signals, any number of overlapping
callbacks, either checkpointer.

* `TypeCorrect`: `Spec => []TypeOK`. `TypeOK` is not inductive: `CommitLog`
  writes the status of a task into the log, and only a task that has one gets
  there. `LocalsOK` says so, and `Shape == TypeOK /\ LocalsOK` is inductive
  (`WorkerShape`, `CallShape`, `ShapeInvariant`).
* `ConsentSafety`: `Spec => []ActionNeedsConsent`, under any faults. What is
  dispatched is decided by locals, these by the checkpoint, and this by an earlier
  callback or by the worker, possibly before a crash. `EveryApprovalIsPermitted`
  follows the approval through all these places. It is kept because permission is
  never withdrawn (`PermissionStays`) and because each step that copies an approval
  copies a permitted one (`WorkerApproves`, `CallApproves`).
* `EveryRunIsAudited`: `Spec => []AuditedOnce`, if the database and the process do
  not fail, nobody deletes rows and the context commit is recorded already
  (`CalmAssumption`; without the last, the run `signal_audit` refutes it). Graphs and
  webhooks may fail and callbacks may overlap. `AuditInv` says that a callback cannot
  precede the row, and that the row it finds is the only one.

**SignalGateProofs** - any number of signals and callers and any faults, a durable
checkpointer, and callbacks of one signal that do not overlap (`[]NoOverlap`). Both
are needed: a MemorySaver forgets the verdict a repeated callback would replay, and
overlapping callbacks overwrite each other (run `signal_race`). What remains is every
failure, every crash and every repeated callback.

* `GateInv` is inductive. `RunInv` relates what the worker of a signal holds to what
  it has written, `RecordInv` relates row, checkpoint, log and deliveries of a signal,
  and `CallInv` says what a callback in flight may rely on since its status check:
  the worker is over, nothing is delivered, the row is still the one it has read.
  `WorkerGate`, `CallGate`, `AcceptGate` and `CrashGate` keep it.
* From it: `ActsAtMostOnce`, `RowMatchesGraph`, `AskedCanBeAnswered` and
  `OutcomesAreFinal`. `SerialApprovalIsSafe` is the case of one caller, in which
  `NoOverlap` holds by itself.
* `PipelineImplementsGate`: every step maps to a step or a stutter of `ApprovalGate`.

**EdaProofs**, the loop - any budget of at least one, any plan. The inductive invariant
`Inv` joins the checked properties with `LoopShape` (budget left inside the
loop, only the query just written unexecuted), `StepsInv` (nodes run so far, by
position) and `WebInv`. The key lemma `FirstPendingIsNext` says that the first
pending hypothesis is the one after those already judged, which ties the three
nodes that choose independently to one subject. From it: `LoopTypeCorrect`,
`VerdictsHaveEvidence`, `IterationsInOrder`, `NothingLeftBehind`,
`WebResearchIsLast` and `BoundedWork`.

**EdaProofs**, the books - the same budgets and plans, any faults. `OutcomesInv` ties the list
of outcomes to the list of queries: a query is open exactly until it is executed.
`CountOpened` and `CountSettled` say what writing and running a query does to the
count of outcomes, and `BooksInv` carries the failures through every node; from it
`FailuresAlwaysAddUp`. For the calls, `CallsInv` says at which node the products of a call
exist and relates both accounts to `CallsShown`: `OneVerdictMore` counts the verdict of
an evaluation, and one lemma per call site (`RunPlanIsPaid` to `RunFindingsIsPaid`)
compares what it shows with what it pays. From it `CallsAlwaysAddUp`.

**AgentsProofs**, research - any finite set of personas, any budget (zero included),
any weights, threshold and evidence. `CountsOK` counts the generations and the
evaluations, `AnswersOK` relates the synthesis to the position in the graph,
and `EvaluatedOK` says that consensus means `EveryPeerHasEvidence`, which a
failed peer contradicts. From them: `AnswersAreFinal`, `StopsInTime` and
`FailuresAreNoConsensus`. The score itself need not be opened.

**RlProofs**, episodes - any list of episodes and any budgets, in whichever order
they are spent. `OneWayToEnd` needs `OpenAnalysis` (an episode that still acts
has an analysis that is not complete, with an iteration and, if it has
hypotheses at all, a hypothesis left for it); `VerdictsKeepPace` needs `PaceInv`,
which says the same hypothesis by hypothesis and leaves room for the query of
the step under way; the type needs `CountersOK`. `FirstPendingIsNext`,
`RegisterFacts` and `EvaluationFacts` say what the helpers return, `BoxTyped`
that the sandbox inside keeps its type. From them: `EpisodeTypeCorrect`,
`EpisodesEndOneWay` and `VerdictsKeepPaceAlways`.

**RlProofs**, rewards - the same lists and budgets, any mix of scorers.
`ReturnsTellTheEpisode`: `RewardSpec => []RewardsAddUp`. A step that iterated may match,
not match, or go unscored. The account of a step is open between its execution and its reward; `PayInv` states the account at every point of
the step, and each action either pays for the step or moves the point.

**ContextVersionsProofs** - any set of runs, any number of deployments, with or
without git. `TreeInv` says that the tree is between HEAD and the version being
deployed, `Loaded` which reads a run has behind it, `Undisturbed` that a run without
an overlap has read one version, `Latest` and `NotAhead` bound what it has read,
`SnapshotInv` and `LogInv` keep one snapshot per sha across the two steps of its
insertion. From them: `OneSnapshotPerSha`, `RowsAreTied` and `RunsAreFresh` (no run
sees a version older than HEAD at its start, though nothing is restarted).

**AgentsProofs**, the composition - `AgentsAreTheirParts`: a behaviour of
`AgentsSpec` is one of every part, because a step of one agent leaves the variables of
the others alone. What follows is proved of the parts and stated of `AgentsSpec`.

* *Simulate*, any number of drafts, any faults. `SimInv` has three parts. `CallsInv`
  says which calls the list of the node under way and the usage of the run have
  counted, node by node; without it `RowCountsCalls` is not inductive, since a row
  copies a sum that two fan-outs have built. `WinnerInv` ties ranking and winner to
  the scores *as they still are*: after the reactions are joined no call is open, so no
  late answer changes a score. From it `RowsCountCalls`; `LateAnswersAreDropped`
  follows from the actions.
* *Scores.* `RawType` bounds the rounded quotient, `MoreIsMore` says that 25 points
  more of the sum (one opponent less; a supporter is worth 60) show in the rounded
  score of up to 2500 personas, `UnanimityIsMore` that among up to four no intensity
  makes up for a supporter. `FirstIsHighest` says that a ranking has a first with the
  highest score; that the least of a non-empty set of naturals exists is taken from
  the theorem on well-founded minima, which needs no induction principle. From them
  `WinnersWin`, whose bound of 2500 personas is a fact about four digits, not about the
  proof technique; the repository has four.
* *Analytics*, statements, results, answers and chunks of any size. `ChatInv` says what
  each step leaves for the next: a verdict about the statement that is still in the
  state, a row written from status and verdict, a result only of what both guards
  took, an answer that tells this result, and never more streamed than there is. From it
  `AnswersAreAccountedFor`. `TheGuardsAgree` rests on two lemmas about the guards,
  `ValidatedIsAccepted` and `AcceptedIsValidated`, one for each direction: the second
  shows that without a comment, a starter of its own and the rules only `validate_sql`
  has, what opens a statement for the client opens it for `validate_sql`.
* *LLM client*, any retries. `CallInv` ties the attempts to what came back for them;
  each step of the client is a step of `LlmCall` or a stutter (`CallStepIsAllowed`).
  From it `ClientKeepsItsPromise`, the safety half of `KeepsPromise`.

**EvalRunsProofs** - any suite, retries, answers and faults. `PassInv` says that the
results at hand are all of the pass under way and that a report is stored of a complete
pass only; `RowsInv` that in the first pass no case ahead of the results has a row, but
for the one whose process died between the row and the result. That leaves the second
pass, which writes none. `RulesInv` holds if the exact_match cases of the suite expect
what the rules make of their events (`ExpectsTheRules`). From them: `CasesAreLoggedOnce`,
`ReportsAreWhole`, `RulesAlwaysDecide`, `EvalTypeCorrect`.

**ServiceProofs** - the composition `ServiceSpec`, which implements each of its parts
(`ServiceIsItsParts`).

* *Starts*, any attempts, rows and faults. `StartInv` says what a production start has
  behind it at each step: `ProductionStartsWhole`.
* *Evaluations*: the theorems of `EvalRunsProofs`, instantiated. `SuiteExpectsTheRules`
  computes that the shipped monitor suite satisfies their hypothesis:
  `EvaluationsReportRight`, `EvaluationsLogOnce`.
* *Benchmarks*, any runs and faults. `BenchInv` says that a task has at most one result
  per case, all before it stores, and that what is stored as done is the report of such
  a whole list and its task is over. The last conjunct is what makes
  `ReportsStay` inductive: the exception handler cannot run after the store that
  succeeded.
* *Rates.* `RateBounds` bounds a rate rounded to four digits. `RatedAboveZero`: a number
  of cases has a rate that is not zero exactly if it is not zero, for fewer than 20000
  cases. With `FinishedAreNamed`, which follows the form of a mode from the case to the
  count, this gives `FailedCasesAreNamed`, whatever the analyses record.
  `RoundingDecidesNothing`: a drop by more than five points between two shares of n cases
  is one between the rounded shares, and a smaller one is not, for n up to 499: a drop of d
  cases is more than five points when 20 d > n, and then by at least a twentieth of a
  case. Hence `ComparedRight` and `DashboardsCompareRight`; of drops by exactly five
  points, where the error of the subtraction decides, nothing is claimed.

**Only model-checked.** The liveness properties (`EverySignalSettles`,
`ApprovalCarriedOut`, `EveryAnswerDecides`, `Terminates`, `TrainingEnds`,
`AgentsEnd`, `StartsEnd`, `RunsEnd`, the end of `KeepsPromise`), which
the prover does not handle. Of the operators, `BenchmarkReport`'s percentiles; the
score of a research peer is not opened by any proof. What a
recursive definition computes cannot be proved by induction here; where a proof needed
such a fact, the definition counts a set instead.

## Abstractions

* In `SignalPipeline` the rules, the LLM and the action matrix are a choice among
  the actions they can produce, plus "nothing detected"; `MonitorRules` has the
  computation, and `GraphChoices` in `MCSignal` that the two agree.
* LangGraph writes a checkpoint after every node. For a run, what is kept is
  whether it is paused, finished or absent. For a resume, the two nodes that are
  left are one write of the verdict.
* Query results, findings, reports, prompts and texts are left out: no routing
  decision reads them. Their numbers are in `EdaRun`, where the score reads them.
* Tokens are counted in calls; costs and averages are left out.
* A peer's answer is reduced to its evidence count and confidence. The code
  rounds each score and their mean to four decimals; with confidences in percent
  the scores are whole thousandths, and a mean below the threshold is below it by
  at least 1/(1000 N), which rounding does not bridge for up to N = 20 personas.
* Rewards are in hundredths.
* `Rate` rounds the exact quotient. Python rounds the binary one, which gives another
  fourth digit for some ties of suites whose size is a multiple of 160. Of a drop by
  exactly five points the comparison may answer either way; Python's answer depends on
  the rates. Of a stored report the comparison keeps the keys it reads.
* In `SqlGuards` a comment or a literal holds no apostrophe; the regular expressions of
  the two guards differ further on text that has one.
* `Startup` takes `run_migrations_on_start` as true, its default.
* In `ContextVersions` all files of rules, personas and ontology are the part `rules`,
  and all templates the part `prompts`; a thread that hashes files takes one step.
* Signals listings, decision statistics and logging change no state.

## What is not modelled

* **RL evaluation runner**: a thin wrapper; loading a policy is a stub in the source.
* **Agent tools, Redis client, prompts, settings, schemas, logging**: I/O and data
  definitions. The web search appears in `EdaLoop` as a node that never raises; Redis
  as the writes and reads that may fail.
* **Evaluations** of the other suites and their SQL scorers: text of SQL and of
  answers. The command lines of the harness and of the benchmark.
* **Benchmark**: averages, tokens, costs and the breakdown by category.
* **Chat**: message parsing, the Markdown of the answers, the other streaming modes.
* **DuckDB lock and cancellation**: depends on threads inside DuckDB.
* The registry and the cache of compiled graphs, connection pooling, middleware,
  health checks, listings.
* Contents: of statements, drafts, reactions, findings and files.

What is left of the parts marked as partly modelled in `PROJECT.json` is of these
kinds: formatting, listings without an effect, and scorers that compare texts.

## Order of the work

The part that acts on the world came first: `ApprovalGate` and `SignalPipeline`. Then
the longest loop (`EdaLoop`), the other loops (`ResearchLoop`, `Sandbox` and
`RlEpisode`), `MonitorRules` and `EvalRuns`; then what the agents share and what
surrounds them: `LlmClient`, `SimulateRun`, `AnalyticsChat`, `ContextVersions`,
`Startup`, `BenchmarkRuns`, and the books and rewards on top of `EdaLoop` and
`RlEpisode`. Proofs followed each of the cores.

Worth adding: a lemma for each scorer once the SQL scorers have a model; benchmark
runs as a refinement of a task that stores one outcome, shared with the evaluations; a
second process of the backend over one database, if the deployment ever gets one.
