# JevCity / ADIP: TLA+ specifications, model checking and proofs

This directory holds formal specifications of the decision platform in this
repository: the TLA+ modules, the TLC configurations that check them on small
instances, and proofs that TLAPS checks for every value of the constants.
`PROJECT.json` is the index: components, runs, source lines behind every
definition, findings, hazards, theorems, and for every property a mutated
definition under which the property fails.

    tlc -config MCEngineUnits.cfg MCEngine     # one run
    tlapm EngineProofs.tla                     # one module of proofs

## 1. The system

JevCity decides what to do about city incidents. Reports come from a seeded
simulation, from replayed recordings or from live feeds; each batch of reports is
validated, scored by three models and a trust registry, put to Laya (a language
model that proposes), and decided by a deterministic policy (the guardrail) that
may send a unit. Operators override decisions, change the governance position,
try What-If branches and attach images. Every decision is written to a hash-chained
audit log. A smaller service (ADIP, `serving/`) routes support texts.

| component | state | operations | interacts with |
|---|---|---|---|
| Guardrail policy (`decision_engine/guardrail/`, `policy_position.py`) | none | `decide`, `allocate_for_incident`, confidence gate, step-ups | reads the pool, called by the engine |
| Decision engine (`decision_engine/engine.py`) | cursor over the reports, two validation views, decision registry and history, latest-decision cache, id counter, position, audit banner | `process_pending`, `apply_override`, `switch_policy`, `attach_image`, `run_what_if`, `sandbox_scope` | everything below |
| Simulation state, pool, generator (`simulation/`) | raw and typed events, incidents, units, counters, clock, seeded randomness | inject, bad data, replay, reset, assign, release | engine, API |
| HTTP API (`api/app.py`) | the engine, rate limiter, last 50 sandbox results | 30 endpoints, served by a thread pool, no lock around the engine | all |
| Friction (`decision_engine/friction.py`) | none | tiers of an override | engine |
| Audit log (`audit/log.py`) | SQLite rows, open transaction, counter, lock | append, validate the chain, reopen | engine, export |
| Laya adapter (`decision_engine/laya_adapter/`) | mode, breaker counters, cache, worker threads, the loaded model | `ask`, mode switch, replacement at session start | engine |
| Models and wrapper (`models/`) | a pool of two workers and its queue, shared by all threads | `predict` with a timeout | engine |
| Trust (`ingestion/trust.py`) | scores per source, seen events, report times | `observe`, `block_for` | engine, sandbox rollback |
| Validation, correlation, features (`ingestion/`, `features/`) | none | pure functions | engine |
| Feeds (`feeds/`) | health and hold per feed, the daemon thread | `poll_once`, `start`, `stop` | simulation, API |
| Vision store and analyzer (`vision/`) | a registry of up to 50 images, files, a cache of facts | put, facts, bytes, analyze | API, engine, ADIP |
| ADIP service (`serving/`, `adip/`) | its own audit table with a connection per thread, the loaded model, metrics | `/decide`, `/metrics`, replay | vision store |
| Lineage (`decision_engine/lineage.py`) | none | `pick_clause`, `build_lineage` | called by the policy |
| Dashboard, evaluations, benchmarks, tools, schemas | none of their own | | clients of the above |

What is hard about it:

* **Interleaving without locks.** FastAPI runs the synchronous endpoints in a
  thread pool. Only the audit log and the rate limiter lock. Requests are
  sequences of steps over one shared engine.
* **Rollback by bookkeeping.** A What-If run works on the live simulation and
  undoes it afterwards from lengths and id sets.
* **Derived state**: two validation views, a cache checked by a length, unit
  lists on decisions, on incidents and in the pool.
* **Partial failure**: an audit write that is rejected after the state changed, an
  insert whose commit fails, a process killed in between.
* **Time**: deadlines, retries, threads that answer late, a breaker that must
  open and must close again.
* **Shared capacity**: two model workers for all threads, a capped registry of images
  with an eviction loop and no lock, a bucket per host.
* **Order of rules** in the policy: caps, step-ups, holds, fallbacks, and the
  precedence of the clause that explains them.

## 2. Modules

| module | models | extends |
|---|---|---|
| `Guardrail` | the policy and the allocation as operators | |
| `GuardrailSpec` | one call of the policy and its properties | `Guardrail` |
| `Lineage` | the rules a decision meets, the clause that explains it, its terms | `GuardrailSpec` |
| `Engine` | engine, simulation, pool, friction and the state-changing endpoints | `Guardrail` |
| `EngineProperties` | the engine's properties | `Engine` |
| `AuditChain` | entries, digests, the chain check | |
| `AuditLedger` | abstract: an append-only chain | `AuditChain` |
| `AuditLog` | appends, failing inserts and commits, kill, reopen; implements `AuditLedger` | `AuditChain` |
| `LayaAdapter` | the LIVE path: breaker, attempts, prediction threads, replacement | |
| `LayaProperties` | its properties | `LayaAdapter` |
| `LayaAnswers` | what Laya may answer, what of it is advice, the mock proposer | `Guardrail` |
| `Models` | a decision's evidence: the pool of model calls, then Laya, then the policy | `LayaAnswers` |
| `Feeds` | the feed manager, its pollers, what a batch makes of their events | |
| `Trust` | the trust registry and everything that moves it | |
| `RateLimit` | the token buckets | |
| `Images` | image store, analyzer and the requests that use them, step by step | |
| `CommandCenter` | the guard of the API in front of the image endpoints, restarts | `RateLimit`, `Images` |
| `Decisions` | the ADIP decision service | |
| `MCGuardrail`, `MCEngine`, `MCLaya`, `MCFeedManager`, `MCTrust`, `MCModels`, `MCCommandCenter`, `MCDecisions` | the instances for TLC (`AuditLog` needs none) | |
| `GuardrailTheorems` | lemmas on the policy's operators | `GuardrailSpec` |
| `GuardrailProofs` | its theorems; evidence that comes through the pool of model calls | `Lineage`, `Models` |
| `EngineProofs` | typing; units; lookups, ids, What-If; views, rejections, reports left over | `EngineProperties` |
| `AuditLogProofs` | log invariant, chain, refinement | `AuditLog` |
| `LayaTrustProofs` | the adapter's invariant, answers, breaker; the registry's typing, floods, clean sources | `LayaProperties`, `Trust` |
| `FeedsProofs` | the cost of a dead feed; what was polled is kept | `Feeds` |
| `CommandCenterProofs` | the image registry's cap, the bucket | `CommandCenter` |
| `DecisionsProofs` | the service's table, its counters, its model | `Decisions` |

Definitions whose comment begins with "Broken:" are mutants: each one changes the
definition that follows it the way a plausible bug would. No specification uses
them; they show that the property they belong to can fail.

### Guardrail

`Decide(c, free)` is `decide()` in the order of its branches: rejected input, failed
models, the proposed priority with its caps, the data-quality cap, the EQUITY
step-up, the position's step, Laya's advice (which may hold, never move), the
confidence gate, allocation, source and state. Scores and confidences are whole
percentages; the thresholds are those of the code, and the contexts of the run lie
on both sides of each. `Pick` is the code's choice among free units (first free,
greenest under ECO, local under EQUITY).

### Engine

A client is one worker of the thread pool and `tasks[c]` is what its request has
still to do. An endpoint that does one thing is one action; a batch
(`BeginBatch`, `DecideOne`, `Answered`, `EndBatch`), a policy switch (`SwitchPolicy`,
`DryRunOne`, `EndDryRuns`, `ReoptimiseOne`, `Answered`, `EndSwitch`) and a What-If run
(`EnterWhatIf`, `ExitWhatIf`) are several, and other clients may step in between.

* One decision, `decide_for` with `_persist`, is two steps, because `adapter.ask` may
  take two timeouts. Before it (`DecideOne`, `ReoptimiseOne`) the code reads the
  reports, the validation and the incident and takes hold of the pool; the
  `Question` keeps what it will use afterwards. When Laya has answered (`Answered`)
  the id is drawn, and the policy looks at that pool and at the position now in
  force. A new session replaces the pool: `Stranded` marks the question `stale` and
  notes what was free in the old pool, and the answer then takes any part of it, as
  other requests in the same situation use the old pool too, and leaves the new pool
  alone.
* A dry run of `switch_policy` asks twice and draws two ids; as it works on copies of
  the pool and only its ids are seen, both are one step (`DryRunOne`). `EndDryRuns`
  gives the ids back. A What-If branch asks a mock, which answers at once: one step.
* What the models, trust and Laya say is any member of `Assessments`, chosen anew
  at each decision; the policy that uses it is the real one. Where assessments
  come from is the subject of `Models` (and `LayaAnswers`) and `Trust`.
* `Free = 0` stands for the pool's None. Reports carry an event id, an incident, a
  kind and whether they break the schema (`hard`).
* `switch_policy` and a decision that waits for Laya hold incident objects. When a
  reset or a rollback removes the incident meanwhile, `Orphaned` marks them: the code
  then works on an object no longer registered.
* The audit store is seen through its one effect here: a write is rejected
  (`rejects`), which `_append_audit` turns into the banner and the other callers
  into an exception after their effects.

### Audit log

`append` is `Acquire` (the lock), `Build` (number, link, hash: the counter moves
before the insert), `Insert` or `InsertFails`, `Commit` or `CommitFails`; `Restart` kills
the process and opens the file again, with the counter at the number of rows.
`file` is what is committed, `open` the rows in the connection's transaction, which
stay there when a commit fails and go out with the next one. A digest is the pair
of the entry's content and the link, i.e. a hash without collisions.

### Laya adapter

`Ask` captures the engine's adapter; `Admit` is `_breaker_allows`, `StartAttempt` a new
box and thread, `TimeOut` a missed deadline, `Take` a thread done in time, `Record`
`_breaker_record` and the reading of the result. `Begin`, `Load`, `Predict` and `Raise` are
the thread's life, also after nobody waits. The two breaker methods are one step
each: they neither call nor loop, and CPython 3.11+ switches threads only at
calls and loop edges. `mode = "mock"` stands for both modes that answer at once.
An exception of the model that is itself a `TimeoutError` behaves as a missed
deadline. The contents of answers are in `LayaAnswers`: `Valid` and `AdviceOf` are
`to_raw` and `normalize`, `MockAnswers` the mock proposer.

### Models

`decide_for` calls severity, traffic and anomaly one after the other through
`_timed_call`. `Begin` and `Receive` submit jobs to the queue, `Take` and `End` are the
two threads of the pool, which belong to the standard library and are marked
external. `TimeOut` abandons the job: its future is no longer listened to, but it
is still run. The code does not cancel it, and neither does the model. Models
begin and cease to hang at any time (`SpeedChanges`); `hung` are the workers whose job
began while its model did. A deadline passes only when the job, or every worker
before it, hangs: half a second is hundreds of times what a prediction takes.
`Advise` asks Laya in mock mode or with any of a set of malformed and well-formed
live answers, and calls `Decide`.

### Feeds

A thread is a request of `POST /api/feeds/refresh` or a daemon. `Gate` is `held_open`,
`PollFails` and `PollSucceeds` the call of the poller with the record it leaves,
`AppendItem` one `append_replay` with what its failure does. `HoldEnds` is the passing
of `PROBE_INTERVAL_S`. Each poller is a function of the document that came: how many
events it makes of it, or that it raises. ReliefWeb yields advisories, which are
no events. `Batch` is `process_pending` as far as feeds are concerned.

### Trust

Scores are whole percentages (all constants of `trust.py` are), time is in seconds.
`observe()` is a loop that holds no lock: `loop[c]` is its frame (the reports it was called
with, those still to come, and who was a stranger when it began), `Weigh` one turn,
`Settle` its end. `Decide`, `Reoptimise` and `EnterWhatIf` call it. A batch (`Batch`) takes
up what is new and decides incident after incident; a flood appends its fabricated
reports one by one (`Fabricate`), so that another client's batch may come in between.
A reset and the end of a sandbox replace the registry: `Orphaned` loops go on with the
old one (`live`), which nobody reads any more. Times remembered for the rate carry the
number of their report, as a source may report twice in the same second.

### Images and the Command Center

`put` is taken apart into `Write`, `Insert`, `Evict`, `Pop` and `Unlink`, because the registry is
a plain dict that threads share. `Analyze` and `Answer` are the analyzer, before and
after the model is asked; `Finish` is `set_facts` or the attachment. In `CommandCenter`
every request first passes `api_guard_middleware`: length, bucket, token. A bucket
stores what the code stores, the tokens at the last request; time is a counter per
host (`Tick`), and a token is cut into as many units as a minute has seconds so that
refills are whole numbers. `promise` is the remaining time of the last
`Retry-After`. Two apps may share the directory: `serving/app.py` has a registry of
its own over the same files.

### ADIP decisions

`Begin`, `LookForAgent`, `LockAgent`, `Load`, `Predict`, `Insert`, `Commit`, `Sample`, `Label`, `Inc`,
`Answer` are the steps of one `POST /decide`; `AppendFails`, `CountError` and `Raised` are
its failures, `ThreadEnds` the end of a server thread with its connection, `Restart` a
new process, perhaps with another calibration. Probabilities are percentages, a
temperature is the inverse of a whole exponent. `Unreadable` answers make the
calibration raise.

## 3. Runs

Runs that pass:

| run | question | bounds, and why they are enough |
|---|---|---|
| `guardrail` | the policy's seven properties, and does the explanation fit the route? | every subset of a fleet of three units, all positions, values on both sides of every threshold; a decision uses one unit and compares at most two candidates by type, zone and score |
| `engine_units` | do pool, history and latest decisions agree while others decide? | two clients that inject, assign and switch to ECO; two accidents, two ambulances and a police unit, four decisions, eight ids: a decision waits for Laya while another takes the last unit, an operator assigns it, or a reoptimisation releases it; both clients may be inside their switches at once. `MaxIds` bounds ids apart from decisions, because dry runs give theirs back; `UsedPositions` keeps the model from switching back and forth without end |
| `engine_reports` | validation, rejection, cursor | four reports, bursts of two, two incidents: a rejection before, between and after valid reports |
| `engine_sessions` | ids, cache, What-If rollback | two session changes' worth of reports, a recording with ids the generator uses too, a feed event, one rejected audit write |
| `audit_log` | chain, durability, refinement | two writers, four numbers: a failure, a restart, and appends of both before and after |
| `laya` | late threads, the cost of a model that is down, answers and recovery | one caller that asks again and again about two states, two attempts, three threads, two adapters; Threshold and ProbeEvery 2 instead of 3 and 5: opening, two probes, a retry beside a thread left behind, a replacement. Callers side by side are covered by the theorems |
| `feeds` | what does a dead feed cost, is anything polled lost or doubled, is a recovered feed used again? | a request and the daemon, all four pollers and every kind of document for each, one flaky service, threshold 2 instead of 3, two items, two holds: a cycle of the other thread falls between any two steps, a success clears a hold, a hold ends and is renewed |
| `trust` | who is flagged, who loses nothing? | one client, seven reports: a flood of three (no cluster) or four with an honest report, and two more reports that agree, contradict, come 200 s later or repeat; one incident decided again, one sandbox, resets. `MaxClock` leaves time for one such gap, after which every window is empty. Requests that overlap and sessions started over break `FloodIsFlagged` (`MCTrustDocs.cfg`) |
| `models` | does an answer reach its call, what does a dispatch rest on, do decisions end, does the backlog drain? | both workers, all three models may hang at any time, six unfinished jobs: both workers blocked with jobs queued behind, and calls that time out in the queue. One server thread; it leaves jobs of earlier decisions behind, which compete with its own like those of another thread |
| `command_center` | is the registry capped, is a Retry-After kept? | two threads, three images over one entry: both threads evict at once and choose the same victim; a bucket of one, a minute of two seconds; restarts, mock and cache mode |
| `adip` | do table, counters and clients agree? | two threads, three requests (an ordinary one, an unsure one, an unreadable one), two starts, every step may fail: two first loads, a failed commit followed by an ERROR row on the same connection, a request of each kind counted at once |

One run ends in a violation, `advisory`: `FedEventsAreDecided` says what
`feeds/base.py:4-6` promises. `poll_once` appends ReliefWeb's advisories with
`append_replay`, which puts the advisory into both lists and then raises because it
is no event. Every later batch moves its cursor and then raises at the advisory
while it collects reports, so that the events of the other feeds in that batch are
never decided (`findings`).

The configurations `MC...Docs.cfg`, `MCHungModel.cfg` and `AuditReopen.cfg` are not in
`PROJECT.json`'s runs. Their properties are what a document, a comment or a test says,
and each has a counterexample. A configuration names all its
properties and leaves one in; put the comment mark elsewhere to see another
(`tlc -config MCEngineDocs.cfg MCEngine`).

`MCGuardrailDocs.cfg`:

| property | documented | the code |
|---|---|---|
| `CriticalNeedsTwoSignals` | CRITICAL needs two signals (`GUARDRAIL.md:16`) | the EQUITY step-up comes after the caps (`policy.py:191`) |
| `HeldCaseNamesItsHold` | the lineage names the decisive clause (`lineage.py:4`) | `LAYA-FALLBACK` and `LAYA-CRITICAL-BLOCKED` precede the rules of Laya's holds |
| `ScarcityIsReal` | terms are evidence (`lineage.py:4-6`) | the scarcity term also weighs against cases that needed no unit |

`MCEngineDocs.cfg`:

| property | documented | the code |
|---|---|---|
| `ReoptimiseReleasesUnits` | units are released or reassigned (`API.md:93`) | those of older decisions stay (`engine.py:551`) |
| `DismissReleasesUnits` | dismissing releases the units (`friction.py:107`) | nothing is released (`engine.py:430`) |
| `RejectedWriteRaisesBanner` | the flag is up while writes are rejected (`API.md:120`) | three callers write without the guard (`engine.py:439, 567, 601`): the request fails after its effects and the flag stays down |
| `NothingLeftUndecided` | feed events are decided like simulated ones (`feeds/base.py:3-5`) | only when another request comes (`app.py:530`) |
| `RaiseNeedsBreakGlass` | raising a life-safety priority needs break glass (`friction.py:7`) | not when the request names an old decision that was higher (`friction.py:55`) |
| `EvidenceCitesThisSession` | an attachment cites the latest decision (`test_vision_api.py:79`) | after a reset it may cite one of the last session: the cache is checked by the length of the history, which the reset rewinds (`engine.py:616`) |
| `ViewsNeverDrift` | the two validation views cannot drift apart (`engine.py:676-678`) | an event id of a recording that is used again is filed in one only (`engine.py:134`) |
| `HardRejectionSticks` | rejected input has no automated priority (`engine.py:173`) | a rejected report whose id a recording has used is filed in the view by event only, and the next report is decided as if it had not come |

`MCOverlapDocs.cfg`: two requests at once. `QA.md:78` admits that engine state other
than the audit log is shared without a lock; this is what it leads to.

| property | promised | the code |
|---|---|---|
| `WhatIfKeepsDecidedIncidents` | What-If undoes its own side effects (`engine.py:89`) | it also deletes what others added meanwhile |
| `IdsAreFresh` | an id names one decision | What-If and dry runs put the counter back to what they read (`engine.py:120, 542`), and the ids others drew are given again |
| `HardRejectionSticks` | rejected input has no automated priority (`engine.py:173`) | a rejection that comes while Laya is asked is not seen by the answer (`engine.py:215`) |
| `LatestDispatchHolds` | a decision's units are assigned | a reset while Laya is asked: the decision lists units of the pool that is gone (`engine.py:282`) |

`AuditReopen.cfg`, `NumberingContinues`: after a restart the numbers continue
(`log.py:69`) from the number of rows, below the last entry. `MCLayaDocs.cfg`,
`LoadsOnce`: the checkpoint is loaded once (`adapter.py:47`), but a retry during a slow
load loads it again; `ErrorsAreRetried`: errors are retried, then the breaker
(`LAYA_FAILURE_MODES.md:19`), but an error answers at once (`adapter.py:234`).

`MCFeedsDocs.cfg` (with `MCFeedManager`), `MCTrustDocs.cfg`, `MCHungModel.cfg` (with
`MCModels`):

| property | documented | the code |
|---|---|---|
| `RejectedItemIsAFailure` | an item that cannot be appended is a failure (`base.py:147`) | the handler reads `event_id`, which an advisory has not, and raises itself |
| `OneDaemon` | one daemon thread cycles the feeds (`ARCHITECTURE.md:41`) | `stop` forgets a thread that is still in a poll after five seconds; the next `start` adds one |
| `AgreeingSourceStaysTrusted` | agreeing sources stay trusted (`test_trust.py:64`) | every simulated report has the default source, which exceeds the rate by itself |
| `ReobservingIsFree` | observing again penalises nobody (`trust.py:29`) | availability decays on every call |
| `FloodIsFlagged` | fake sources are flagged (`test_trust.py:86`) | not in a session that was started over: its strangers were seen before |
| `FloodIsFlagged` | the same | not when another request's batch decides the first half of the flood (two clients: see the comment in the configuration) |
| `HungModelIsContained` | error containment (`wrapper.py:1`) | two jobs of a hung model hold both workers, and calls of the others time out |

`MCCommandCenterDocs.cfg` and `MCDecisionsDocs.cfg`:

| property | documented | the code |
|---|---|---|
| `UploadIsServed` | an upload answers with its facts (`app.py:539`) | of two uploads that evict the same image one ends in a KeyError (`store.py:68`) |
| `EvidenceIsOfTheImage` | facts are those of the image named (`app.py:572`) | if it is evicted meanwhile, those of no bytes (`app.py:582`) |
| `BytesAreCapped` | capped, oldest evicted (`store.py:1-2`) | a restart forgets the registry, its files stay for ever |
| `KnownImageHasBytes` | the bytes of a known image can be had | the other process evicts the file of an image this one knows (two applications: see the comment) |
| `AuditAlways` | a decide that raised lands in the table (`serving/app.py:100`) | not when writing the ERROR row fails, which is swallowed |
| `FailedHasNoDecision` | a failed request is marked ERROR | a commit that failed leaves the decision in the transaction, and the ERROR row's commit takes it along |
| `ReplayVerifies` | a row determines its decision (`pipeline.py:349`) | not across a change of the calibration |
| `SummaryIsLive` | a live p50 (`serving/app.py:276`) | the lists stop at the cap and describe the first decisions |

Two configurations pass beside the runs: `MCFeedsTypes.cfg` (with `MCFeedManager`) and
`MCTrustTypes.cfg`, the type invariants.

Three further disagreements need no model: `docs/jevcity/GUARDRAIL.md:65` lists
priority changes as HIGH, while lowering one is LOW; `GUARDRAIL.md:66` asks break glass
for dismissing a CRITICAL fire, which `friction.py:105-112` grades HIGH;
`docs/jevcity/API.md:25-26` says a daemon polls the feeds, and nothing calls
`FeedManager.start`.

**Deadlock.** All runs say `CHECK_DEADLOCK FALSE`: the bounds on
decisions, reports, numbers, requests and starts stop the models in the end.

**Symmetry** is used in `engine_units` among clients and in `command_center` among
images and threads, where only invariants and one action property are checked.

**Fairness.**

* `laya`: a server thread runs on (weak fairness of `Admit`, `StartAttempt`, `Take`,
  `Record`). A deadline passes however the model behaves: `done.wait` counts real time,
  so a service that is slow again and again lets it pass (strong fairness of
  `TimeOut`). A prediction thread proceeds while the model does not hang. No client is
  assumed to ask, no service to recover: `RecoveredModelIsUsed` has recovery and
  further calls as its premise.
* `feeds`: the steps of a cycle (an HTTP call ends, at the latest by the client's
  timeout), the daemon's pause and a hold end. No one is made to ask for a refresh
  or to start the daemon, and no service to recover: these are premises of
  `RecoveredFeedIsUsed`.
* `models`: server threads go on, the pool's threads take jobs, a prediction ends
  unless its model hangs, and it may hang for ever: `EveryDecisionIsMade` does not
  assume that it stops; `BacklogDrains` has that as its premise.

Everything else is safety.

## 4. Proofs

Assumptions: `FleetAssumption`, `EngineAssumption`, `ContextAssumption`,
`AuditAssumption`, `LayaAssumption`, `FeedsAssumption`, `RateAssumption`,
`ImagesAssumption`, `CenterAssumption`, `DecisionsAssumption`, `ModelsAssumption`,
`TrustAssumption`. They type the constants, keep sentinels apart from values and make the
sets of callers and threads finite; TLC evaluates each in the runs. `FeedsAssumption` also asks that the
bound on counted failures be no larger than what the bound on holds allows: where
both counts stand at their bounds the model says nothing more.

* **Guardrail.** The type theorem and the seven properties of the `guardrail` run hold for
  every fleet, every set of contexts and every set of free units. The invariant is
  `Faithful`: the record is what `Decide` answers; the rest are lemmas about the
  operators (how far caps and steps move a priority, what `Allocated` returns, that
  lost evidence sends nothing). For `ClauseFitsTheRoute`, what the clause is follows from
  its place in the order of precedence: no rule before it was met, so the case is
  of the kind its route says.
* **Evidence.** `DispatchRestsOnEvidenceHolds` and `EachCallHasItsJobHolds` are about any
  number of clients, workers, cases and answers of Laya. `EvidenceInv`: what a request
  holds is well formed, a failure of a model shows in the quality score by the time
  Laya is asked, and a decision was made of just that evidence. Whatever Laya hands
  back the policy is told typed advice (`AdviceIsTyped`). `PoolInv` counts the jobs of a
  client's present call: one while it waits without an answer, in one place of the
  queue or with one worker, and none otherwise, wherever a worker, a deadline or a
  submission of another client has moved it; a job still awaited is for the model
  its client waits for.
* **Engine.** `EngineTyped` is the typing of all seventeen variables under every
  interleaving of any number of clients; `EngineTypeOK` follows. For the units each
  step is shown to have one of three effects on the pool: it frees units of the
  incident that is decided again, it clears the session, or it records a decision `r`
  and assigns units that `r` lists and that were free (`FleetEffect`).
  `NoPhantomDispatch` and `NoSilentSteal` follow from that alone, so they hold for any
  number of clients inside each other's questions to Laya, reoptimisations, resets
  and What-If runs. The core is `AnsweredEffect`: the answer looks at the pool it takes
  from, or takes nothing from the live pool (`stale`). `LatestDispatchLasts` proves
  `LatestDispatchHolds` from `Undisturbed`, that no request starts or resets a session
  or runs a What-If, which `MCOverlapDocs` shows to be needed. Its invariant `SteadyInv`
  adds that incidents queued for reoptimisation stay decidable, so that what was
  released is decided again, and that Laya is always asked about the live pool.

  Of the other six two need no premise. `LatestIsCurrent`: each step leaves the history,
  empties it or files one record (`FilingEffect`), and `CacheInv` says that the map
  behind the lookups is up to date whenever the history is not empty, while a rebuild
  that a reset makes necessary finds nothing to add. `WhatIfLeavesNoTrace`: what a sandbox
  takes with it when it starts puts back exactly what is there. Four have a premise,
  which is the condition without which the code breaks the promise; the
  counterexamples are those of `MCOverlapDocs` and `MCEngineDocs`:

  | theorem | premise | without it |
  |---|---|---|
  | `IdsStayFresh` | `OneClient`: one request at a time | a dry run or a What-If gives back ids that others drew |
  | `ViewsStayTogether` | `OwnIds`: no recording, feed ids apart from the generator's, no other request beside a What-If | an id is used twice, and one of the views keeps the first report |
  | `RejectionsStick` | both | a rejection that comes while Laya is asked is not seen by the answer; one whose id a recording has used is not filed |
  | `NothingStaysUndecided` | `Attended`: no feed, and requests one at a time, or no session or What-If at all | a feed's report waits for somebody's request; a reset empties a batch under way |

  Their invariants: `IdsInv` (records are numbered below the counter and below every
  value a request will set it back to), `AgreeInv` (reports with one id say the same, both views
  say what the reports taken up say, and what a sandbox rolls back to is within what
  was there), `HardInv` (a question that waits for Laya knows of every rejection), and
  `CaughtUp` (every report is in front of a cursor that a request will move, or its
  incident is decided, or due in somebody's batch).
* **Audit log.** `LogInv` adds to the chain what makes it inductive: only the lock
  holder has a draft, the draft's link is the hash of the last visible row, ids in
  the open transaction are new. From it: the chain is intact in every state,
  acknowledged entries are committed, and the committed rows implement
  `AuditLedger`.
* **Laya adapter.** `LInv`: a waiting caller has a thread no other caller waits for,
  which is alive and works on its state; attempts are not used up. It gives
  `AnswersItsOwnState` and the bound on attempts in `LayaTypeOK`. `FailuresArePaid` is
  inductive with it: failures plus calls in flight never exceed
  `Threshold + callers - 1 + blocked / ProbeEvery`; a probe pays with a full round of
  blocked calls, a recorded failure leaves the sum as it is, a success clears it.
* **Trust.** `TrustTypeCorrect` holds for any number of clients: no interleaving of the
  loops, and no registry replaced under one, makes a score that is none.
  `FloodsAreFlagged` and `CleanSourcesKeepTrust` are for any sources, floods, gaps and
  numbers of reports; their premise `Serial` is that requests come one after the other
  and no session starts with the registry of the last, without which the code breaks
  the promise (`MCTrustDocs.cfg`). Neither property is inductive, since half an incident
  may be observed when a score is read. `TrustInv` says where that is: what is observed
  is an initial piece of the reports (`Following`), what is not is one incident, due in
  the batch or before the loop, and the sandbox's copy is a registry of just the
  reports that will remain. For a flood, `Hearing` adds that the loop knew every liar for
  a stranger, and that each one heard is already caught; the first report costs 45,
  because there is nothing else in its window, and the later ones never raise the score
  (`SaneWeighed`). For a clean source, `WindowFits`: what a window remembers are reports
  of that source which `WithinRate` counts, so the rate penalty never strikes it. That the
  measure of an incident stays its first report however many follow is `MeasureStays`.
* **Feeds.** `DeadFeedCostsLittle` bounds failures plus calls under way. It is not
  inductive alone: when a hold begins, the threads already past the gate are still
  to come back. `CostInv` adds `Roomy`: while a feed is not held its failures leave room
  for every thread, `Threshold - 1` plus one round of all threads per hold that ended.
  Then a thread may pass the gate, and each hold that ends pays for the next round.
  `PolledIsKept` follows from `KeptInv`: for each feed but ReliefWeb the count of events
  polled is the number appended plus the number the threads still hold; a thread
  holds items of the feed it has just polled, and only between the poll and the end
  of its appends.
* **Command Center.** `RetryAfterIsHonest` is about a division rounded up and buckets that
  fill in between. The invariant `RateInv` says: what is in the bucket, plus what the
  time passed and the time still to wait will bring, makes a token, or the bucket has
  had a whole minute. A refusal promises enough by `CeilCovers`, a tick moves a second
  from the wait to the time passed, another refusal banks what was refilled.
  `StoreIsCapped` needs the typing of requests (`ImagesOK`), and for a `Pop` that finds its
  victim gone that some thread is still looking: the registry is then smaller by the
  other's pop, and that one goes back to `Evict`.
* **ADIP.** `TypeInv` types the state. `LoadInv`: the lock's holder is the one thread that
  loads, and only while nothing is loaded. `RecordInv`: a request past its commit has
  its row in the table. `CountsAgree` needs three invariants: `HolderInv` (who is
  counting holds the lock, and the label in the counter is its route), `IdsInv` (ids in
  flight are new) and `CountInv`: counters are the decisions given, plus one for the
  thread between `inc()` and its answer.

Model-checked only: `FedEventsAreDecided`, which the code violates, and the liveness
properties (`EveryCallIsAnswered`, `RecoveredModelIsUsed`, `RecoveredFeedIsUsed`,
`EveryDecisionIsMade`, `BacklogDrains`), which are beyond the prover, like everything about
ENABLED. Every safety property of a passing
run is stated by a theorem, some under the premises named above.

## 5. Not modelled

The trained models and the vision model (numbers; any answer, a failure or nonsense
instead), Laya's text, seeded randomness, geometry, feature engineering, schemas,
audit export, dashboard, evaluation and benchmark scripts, percentiles: numbers,
formatting or reading. Of the API the read endpoints, the CSV export and the list of
the last 50 sandbox results, a plain bounded map. Of the ADIP service the privacy
and fairness screens, which are regular expressions over the text, and the
explanation. The instance of `command_center` switches the analyzer between mock and
cache only: in live mode it takes the same steps as in cache mode with an unknown
image.

## 6. Plan

1. `Models` with two server threads; the live adapter of `LayaAdapter` in place of a
   set of answers.
2. Proofs: what of the breaker's recovery is safety (a probe that succeeds closes it);
   `AcknowledgedIsDurable` for the service's table.
3. The sandbox's copies of the registries when two What-If runs overlap.
