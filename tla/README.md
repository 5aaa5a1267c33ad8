# Specifications of the AI pull request reviewer

TLA+ models of the service in `src/src/reviewer/`, checked with TLC and proved
about with TLAPS. The service receives GitHub webhooks, queues one review per
event, runs language-model agents over the diff, posts a review and settles a
check run. It is one process with one asyncio event loop and persists nothing.

## 1. The system

| Component | Source (`src/src/reviewer/`) | State | Operations |
|---|---|---|---|
| Deduplicator | `queue/dedup.py` | delivery id -> expiry, time of last sweep | `is_duplicate`, `clear` |
| CancellationRegistry | `queue/cancel.py` | pull request -> cancel event | `register`, `complete`, `cancel_all` |
| WorkerPool | `queue/worker.py` | bounded queue, unfinished count, worker tasks, running flag | `start`, `submit`, `shutdown`, worker loop |
| ReviewAgent | `reviewer/agent.py` | iteration, conversation, trace | `run_review_agent` |
| Orchestrator | `reviewer/orchestrator.py` | results per role, merged findings | `run_orchestrated_review` |
| ReviewPipeline | `reviewer/pipeline.py` | check run id, review | `run_review_pipeline` |
| GitHubReviewService | `providers/github/review.py` | none of its own; check run, review and listing of files live at GitHub | six API calls |
| GitHubAuth | `providers/github/client.py` | installation -> token and expiry | `get_installation_token`, `invalidate_token` |
| Rate limiter | `middleware/ratelimit.py` | token bucket per address, time of the last sweep | `dispatch` |
| Webhook gateway | `middleware/signature.py`, `middleware/logging.py`, `server/routes.py`, `providers/github/webhook.py` | none | verify, parse, submit |
| ToolExecutor | `reviewer/tools.py` | none | three tools, path validation |
| Application lifecycle | `main.py` | pool and clients | `lifespan`, `create_app` |
| Prompts, models | `reviewer/prompts.py`, `models.py` | none | the words findings are written in |
| Configuration, exceptions | `config.py`, `exceptions.py` | settings | none |

How they interact: a request passes the check of its signature, the rate limit and
the logging before it reaches the route, which parses it and calls `WorkerPool.submit`. That asks the
deduplicator and puts the event into the queue. A worker takes it, registers it
(setting the cancel event of the review registered for the same pull request),
and awaits the handler, `run_review_pipeline`. The pipeline opens a check run,
reads the configuration and the diff page by page, selects files, and runs one agent,
or three in parallel under `asyncio.gather`, merges their findings and runs a synthesis agent. All agents of a review
share its cancel event. The review is posted, and the check run concluded.
`shutdown` cancels the registered reviews, waits for the queue to drain, and then
cancels the worker tasks; the resulting `CancelledError` reaches whatever await
the pipeline and its agents are in. `lifespan` then closes the clients of GitHub and
of the model.

What is hard about it, and what makes each part correct:

- *Deduplicator*: table swept lazily, boundary at the expiry. Correct if no id is
  admitted twice within the TTL and none is refused without a recent admission.
- *Registry and pool*: interleavings of several workers with submissions and a
  shutdown at any moment; conservation of events, exact `join()`, cancellation
  only for cause, a graceful drain.
- *Agent*: whatever the model answers, the conversation must obey the protocol of
  tool calls, the trace must agree with it, and the loop must end.
- *Orchestrator and pipeline*: one of several steps fails, an answer is lost, the
  event is set, or the task is cancelled: what GitHub shows must agree with what
  was done, and no agent may run on unnoticed.
- *GitHubAuth*: concurrent exchanges whose answers arrive in another order.
- *Rate limiter*: how much it leaks over a long stretch, through full buckets and
  sweeps that forget, and that it never refuses a client that has used less than its share.
- *Gateway*: the order of the layers, several requests at once, every kind of payload;
  what is answered must agree with what was understood and with what is remembered.
- *Findings and files*: results depend on the order of arrival and on boundaries of
  pages and limits; nothing severe may disappear on the way to the author.
- *Service*: reviews of one pull request start, are superseded and post in any order.

The full list of hazards, each with its line and the properties that watch it, is
in `PROJECT.json`.

## 2. Modules

A step of a model is the code between two awaits. Names follow the source. A
definition whose name extends another (`KeptInverted` beside `Kept`) is a faulty
variant, used to show that a property notices the fault; nothing else refers to
it.

| Module | What it is |
|---|---|
| `Deduplicator` | `dedup.py`: `Check` is what `is_duplicate` does, `Duplicate` what it answers, `Kept` the table after `_maybe_evict` |
| `DedupObserver` | the deduplicator with its answers recorded, and the properties of the answers |
| `DeliveryLedger` | abstract: an id is live for exactly the TTL; `DedupObserver` implements it |
| `CancellationRegistry` | `cancel.py`; a token is named by the number of the job it was made for |
| `WorkerPool` | `worker.py`, composed of `Deduplicator` and `CancellationRegistry`; the handler is opaque |
| `JobBoard` | abstract: a bounded first-in first-out board of jobs; `WorkerPool` implements it |
| `Agents` | agents as their callers see them: iterations, the shared cancel event, outcomes |
| `AgentContract` | abstract: `Agents` with the agents started; `ReviewAgent` implements it |
| `ReviewAgent` | one run of `run_review_agent` with conversation and trace |
| `Orchestrator` | `orchestrator.py` over the agents of `Agents`: gather, merge, synthesis, fallback |
| `GitHubReviewService` | the calls of `review.py` and what they leave at GitHub |
| `ReviewPipeline` | `pipeline.py`, composed of `Orchestrator`, `Agents` and `GitHubReviewService` |
| `ReviewContract` | abstract: what the review of one event promises its worker; `ReviewPipeline` implements it |
| `ReviewService` | `main.py` at run time: `WorkerPool` with handlers that behave as `ReviewContract` says, and the clients |
| `TokenCache` | `client.py`: concurrent exchanges of installation tokens |
| `RateLimiter` | `ratelimit.py`, with an observer who begins to count at any instant |
| `Webhook` | `webhook.py` and the body of the route: which payload has which answer |
| `Gateway` | the layers of `main.py` around the route, several requests at once; composed of `RateLimiter` and `Webhook` |
| `Findings` | `_deduplicate_findings`, `_compute_verdict`, `_parse_findings` and `_determine_review_event` |
| `ChangedFiles` | the paging of `get_diff` and the selection of files |
| `ReviewContent` | a review from its files to its comments, composed of `ChangedFiles` and `Findings` |
| `MC*` | the constants of the runs |
| `DedupProofs`, `WorkerPoolProofs`, `TokenCacheProofs`, `GatewayProofs`, `ContentProofs`, `ServiceProofs`, `ReviewAgentProofs`, `PipelineProofs` | the theorems |

The pipeline is checked with the abstract agents of `Agents`; the run `agent`
shows by refinement that the detailed agent keeps that contract, so the state of
five conversations need not be multiplied. In the same way the service is composed of the
pool and `ReviewContract`, which the run `pipeline` shows `ReviewPipeline` to keep, and
`ReviewContent` leaves out when and whether its steps happen, which is the matter of
`ReviewPipeline`.

### State and actions against the code

*WorkerPool.* `phase` follows `start()` and `shutdown()`: new, running, joining
(inside `queue.join()`), cancelling (after `task.cancel()`), stopped. `queue` and
`unfinished` are the two fields of `asyncio.Queue` that matter. `pc[w]` says where
a worker is suspended: `get` in `queue.get()`, `review` in the handler. `Submit` is
the whole of `submit()`: deduplication, capacity, `put_nowait`. `Take` is the
wake-up in `get()` with `register` and the call of the handler. `Finish` is the
return of the handler by value or by exception, with the `finally` clause;
`CancelReview` is the same clause when `CancelledError` came out of the handler.
`Leave` is the timeout of one second when the loop condition is false.

*ReviewAgent.* A call is named by its iteration and its place in the answer, so the
calls of an assistant message are a set and still have an order. `AnswerTools` appends the assistant message; `SkipCall`,
`RefuseArguments` and `ExecuteTool` are the three ways through the body of the
loop over tool calls; `AnswerStop`, `AnswerLength`, `AnswerUnexpected`,
`AnswerNoChoice` are cases 2 to 4 and an answer with an empty `choices`.

*RateLimiter.* `dispatch()` has no await before it has charged the bucket, so `Consume`
is all of it: sweep, find or make the bucket, refill, take a token. Tokens are counted in
units of `1 / Window`, so that the refill is a whole number.

*Gateway.* `Stack` is what `add_middleware` makes of the calls of `create_app`: the layer
added last is outermost. `passed[s]` is the number of layers the request of slot `s` has
gone through; `Verify`, `Limit`, `EnterLog`, `Webhooks` and `Probe` are the layers inwards,
`LeaveLog` and `Reply` the way back. `Verify` has three ways out: on to the next layer, the answer
401, or an exception that the layer does not catch (`crash`, answered 500 by the server): the comparison of a signature
with characters outside ASCII raises `TypeError`, and reading the body may end with the
connection. Neither the text of signatures nor the connection is modelled, so that is a choice. `Fault` is the first check of the parser that a payload
fails. The pool is the environment: it has room or has not, and forgets ids.

*Findings, ChangedFiles, ReviewContent.* `Merge` is one turn of the loop over findings, in
the order in which the roles ended. `ReadPage` is one turn of the loop over pages and
`Relist` a push between two of them. A file is known by its place in GitHub's list
(`FileAt`), and the diffs that are left are positions in what was collected. `Select` is truncation
and filter, with the slice of Python for limits below zero.

*ReviewService.* `step[w]` says how far the review in the hands of `w` has got; `Begin`,
`Open`, `Answer`, `Post`, `Close` and `CutOff` are the steps of `ReviewContract` joined to
those of the pool, `StartUp`, `CloseHttp` and `CloseOpenAI` are `lifespan`.

*Data.* In the pipeline a review is one of five kinds, the ones the code tells apart: no
findings; findings some of which `_parse_findings` keeps; findings it drops; items
it cannot handle (an exception that is not caught); JSON that is not an object
with a list. Severity, line and category of a finding are the matter of `Findings`; its text is
left out.

*GitHub.* A call ends in an answer, in a `ProviderError`, or in another exception
(a token that cannot be signed, an answer without `id`), and unless it was answered
it may or may not have been carried out. A cancelled call may have been, too.

### Deliberate departures

- `Finish` and the next `Take` of the same worker are two steps, though the code
  goes from one to the other without suspending when something waits. The same
  holds for tool calls that do not await, and for a coroutine that returns to its
  caller (`SoloEnds`, `SynthesisEnds`, `OrchestratorEnds`). The models have more
  interleavings than the code; no violation reported below depends on one.
- A call that raises before it changes anything is no step: `submit()` on a pool
  that is not running (`QueueError`), a pipeline without installation id.
- A worker task that was created and has not run behaves as one that waits.
- The pool is started once, as `main.py` does.
- No crash and restart: nothing is persisted, a restarted process is a new `Init`.
- `TokenCache` takes GitHub's clock and `time.time()` to be the same, and assumes
  that a request ends within `MaxDelay`. The client's timeout is 30 s for each
  network operation and the buffer is 300 s, so the assumption leaves room.
- Of the rate limiter the rounding of floats is left out, and a client is an address
  already extracted from the request.
- The server (uvicorn) drains its requests before `lifespan` goes on to its shutdown, so
  in `Gateway` the pool exists and runs: the answers 503 for a missing pool and for
  `QueueError` cannot occur.
- In `ReviewContent` every call but the synthesis succeeds. Lines of comments outside the diff, which
  may make GitHub refuse the whole review, are one of the failures of `ReviewPipeline`.
- `MaxTime`, `MaxJobs`, `MaxTurns`, `MaxCalls`, `MaxFindings`, `MaxAnswer` and `FileCount` bound
  the models and nothing in the code.

## 3. Runs

| Run | Config | Result |
|---|---|---|
| `dedup` | `MCDedupObserver.cfg` | holds, 20 861 states |
| `pool` | `MCWorkerPool.cfg` | holds, 243 083 states |
| `agent` | `MCReviewAgent.cfg` | holds, 2 399 states |
| `pipeline` | `MCReviewPipeline.cfg` | holds, 780 461 states |
| `tokens` | `MCTokenCache.cfg` | holds, 56 186 states |
| `gateway` | `MCGateway.cfg` | holds, 3.5 million states |
| `content` | `MCReviewContent.cfg` | holds, 815 759 states |
| `service` | `MCReviewService.cfg` | holds, 824 033 states |
| `pool_one_active`, `pool_redelivery` | `MCWorkerPool*.cfg` | violated, see section 5 |
| `pipeline_stale` | `MCReviewPipelineStale.cfg` | violated, see section 5 |
| `content_vocabulary` | `MCReviewContentVocabulary.cfg` | violated, see section 5 |

What they show:

- `dedup`: two deliveries and one without id, TTL 2, sweep interval 3, clock to 6:
  an entry can expire before, at and after a sweep, and be renewed. Lazy eviction
  is invisible (`ImplementsLedger`), which includes that nobody is refused
  without a recent admission; and it does its work (`NothingExpiredSurvivesSweep`).
- `pool`: two workers, a queue of two, three accepted events of two pull requests (one
  delivery has no id and can be accepted repeatedly), a clock of two
  instants so that deliveries expire, and `shutdown` at any moment, with the liveness
  properties. Two workers and three events of one pull request are what the registry's
  races need; a queue of two has an order and is full with one job in hand.
- `agent`: three iterations with up to two tool calls of three kinds each, all
  final answers, supersession and cancellation anywhere. `LoopRunsOut` says that each
  step uses up some of a bounded number, whatever the model answers.
- `pipeline`: both modes; three roles with two iterations, a synthesis with one,
  a single agent with three (the code has 5, 1 and 10; two are the least at which
  an agent is between iterations). `FindingsAreTheAgents` has two sides: nothing is posted that no
  agent returned, and a synthesis that fails costs no role its findings. The pipeline implements `ReviewContract`, and never does
  the same thing twice (`ReviewRunsOut`): a post that fails is not repeated.
- `tokens`: three tasks, one installation, TTL 5, buffer 2, a request of up to 2,
  clock to 9: time for a second generation of tokens. Installations share nothing.
- `gateway`: two requests at once, two clients, one delivery, every kind of payload and
  signature. One request per window of two ticks and a sweep every five: half a token matters,
  a bucket fills up, and the last tick sweeps. The observer begins at any tick. There is time for one
  sweep only, so that sweeps lie an interval apart, a part of `AdmissionsBounded`, is not put to
  the test here; `SweepsAreRare` proves it.
- `content`: up to four files in pages of two (none, part of a page, a full page, two), limits from
  -1 to 4, one push between pages; findings of two agents and up to three in all, on four
  lines with a proximity of one, with severities the prompt knows, the enumeration knows, both know
  or none: a winner can move away from what it was compared with.
- `service`: the pool of the run `pool`, with three events of two pull requests, and what its reviews
  post. Three are the least at which a review can lose its registration.

Deadlock is checked in `dedup`, `tokens` and `gateway`. It is not in the others because the systems end
(a stopped pool, a review that is over); that they end only as they should is what
`ShutdownEnds`, `EveryJobEnds`, `AgentEnds` and `ReviewEnds` say.

Where a type invariant or another plain property has a theorem (section 4) the runs leave it out.

### Fairness

Only `pool`, `agent` and `pipeline` assume any, for their liveness. The event loop runs every ready task, so the
steps of workers, agents and coroutines are weakly fair; a call of GitHub or of the
model ends because its client has a timeout; the drain timeout is a timer of the event
loop. Nothing obliges a webhook, a newer push, a shutdown or a cancellation to come,
and the model is never obliged to give a useful answer: the loops end by their bounds.

## 4. Theorems

`tlapm` proves these for every number of workers, tasks, deliveries, clients and pull
requests, every capacity, TTL, limit and interval that the named assumptions of the modules
allow.

| Module | Theorem | States |
|---|---|---|
| `DedupProofs` | `OncePerTtl`, `SweepIsComplete` | the safety properties of `dedup` |
| | `NoSpuriousRefusal` | a refused id was admitted less than the TTL before |
| | `RefinesLedger` | the lazily swept table implements the ledger |
| `WorkerPoolProofs` | `JoinIsExact`, `Conservation`, `RegistryIsCurrent`, `LossBeginsWithSupersession`, `GracefulDrain` | the safety properties of `pool` |
| | `NoSpuriousCancellation` | only a newer review or a shutdown cancels |
| | `SecondReviewNeedsSupersession` | two live reviews of one pull request need a superseded one that has ended |
| | `WorkIsBounded`, `NoEventIsAbandoned` | the safety half of `EveryJobEnds` and `ShutdownEnds` |
| | `RefinesJobBoard` | the pool implements the job board |
| `TokenCacheProofs` | `TokensOutliveRequests`, `CacheStaysRecent`, `RareExchanges` | the properties of `tokens` |
| `GatewayProofs` | `LimitHolds`, `LimitIsFair`, `SignatureGuardsLimit`, `ParserSound`, `FailuresAreForgotten` | the properties of `gateway` |
| | `SweepsAreRare`, `LogIsComplete` | sweeps lie an interval apart; exactly the requests the limit lets through are logged, the others never reach the route |
| `ContentProofs` | `MergeKeepsVerdict`, `NothingIsLost`, `CriticalSurvivesFallback` | properties of `content` |
| | `SelectionHolds` | the files reviewed are those `content` asks for |
| | `MergedKinds` | the merge yields a kind of list that `Orchestrator` reckons with |
| | `OverlapsAreDisplaced` | kept findings overlap only after a replacement |
| `ServiceProofs` | `ServiceIsPool` | the service implements the pool, so the theorems about the pool hold of it |
| | `HandlersFit` | every review that keeps `ReviewContract` is one the service is a model of |
| | `LastWordIsNewest`, `ClientsLast`, `OncePerTtl` | the properties of `service` |
| `ReviewAgentProofs` | `ProtocolIsKept`, `TraceIsTrue`, `EveryRunIsBounded` | the safety properties of `agent` |
| | `RefinesContract` | the agent implements `AgentContract` |
| `PipelineProofs` | `ConclusionsAreTrue`, `ErrorsSettle`, `FailuresHaveReasons`, `NoOtherOrphans`, `NothingIsInvented`, `SupersessionStopsCalls`, `EveryReviewIsBounded` | the safety properties of `pipeline` |
| | `WaitsEnd` | nobody waits for agents that have all ended |
| | `RefinesContract` | the pipeline implements `ReviewContract` |
| all | `TypeCorrect` (`ServiceTypeCorrect`) | types |

Each module has an inductive invariant (`IInv`, `Inv`, `SInv`) that holds initially, is
preserved by every step, and implies the properties.

*DedupProofs.* That two admissions of an id are a TTL apart does not follow from
itself: the table must be shown to remember. `IInv` adds that every admission lies in
the past, that the latest admission of each id is in the table as long as it has not
expired (whatever was swept), that every entry stems from an admission, and that the
empty id is never entered. Refinement maps the ledger's `live` to the entries that are
live now, so that a sweep and the passing of an expiry need no step of their own.

*WorkerPoolProofs.* The conservation of jobs needs the order of the queue: the jobs
waiting are exactly the numbers after `HandedOut`. `IInv` adds that a cancelled token is
that of a job handed out, that a pool not yet started holds nothing, that handlers are cancelled
only after the join, and that a join that did not time out leaves nothing open. The
last one gives `GracefulDrain`; it rests in turn on `JoinCountsOpenWork`, whose proof
counts the set of reviewing workers with the theorems on finite sets. That a lost
registration begins with a superseded review is inductive only because the chain of reviews
that took each other's registration leads back to one that was cancelled. With the conservation
of jobs it gives `SecondReviewNeedsSupersession`: of two reviews of one pull request at most one is
registered, so the other has lost its registration. That is how much of the promise of
`cancel.py` holds; the run `pool_one_active` shows the rest of it broken.

*TokenCacheProofs.* `IInv` adds that an exchange under way is at most `MaxDelay` old and
its token was issued since it began. The buffer covers the request after a cache hit;
`2 * MaxDelay < Ttl` covers it after an exchange.

*GatewayProofs.* The limiter's invariant is a balance: what a client has spent since the
observer began plus what it has in store is at most what a full bucket, the refill of the time and
a full bucket for each sweep give it (`NoMore`), and at least a full bucket or the refill
of the time (`NoLess`). The bound and the fairness follow from the two sides. Capping
a bucket loses tokens for good, which is why the lower side needs its two cases. The
gateway's invariant ties the charge, the payload, the answer and the log of each slot to the
number of layers passed. `LogIsComplete` is read off it: a request has been charged and not refused just when
it has come as far as the logging, and what ends before has left nothing behind.

*ContentProofs.* The properties of the merge are inductive together with the facts that every
finding kept was given and that a critical finding kept is never replaced. A replacement
moves the line that stands for a finding by at most a proximity and raises the rank, which
bounds the drift by the rank gained. Findings without a severity rank as suggestions when they
arrive and as nothing once kept, and are excluded from that bound. For the files, the places of
GitHub's list are shown to enumerate it: the number of files before a file is a one-to-one map into
as many places as there are files, so it is onto. `FilesInv` says that what has been collected is the
beginning of that enumeration, whole pages of it while the loop runs, and all of it
once a page was not full; truncation and filter are then read off. `MergedKinds` joins the two
views of a merge: `Orchestrator` knows the kinds of the lists only, `Findings` the findings, and
the kind of what the one keeps is always among those the other allows.

*ServiceProofs.* A step of the service is a step of the pool or leaves the pool alone,
which makes the invariant of the pool available. The service's own invariant ties a
review's step to the worker's, the clients to the phase of the pool, the newest post to a
review handed out, and the time of each acceptance to the entry that the deduplicator holds for it.
`HandlersFit` takes the contract by `INSTANCE`, with a variable for each part of a review that the service leaves
out (the event, the draft, what was said): a step of the contract, joined with what the pool and
GitHub see of it, is a step of the service or changes nothing the service has. It is about reviews
in the hands of a worker; agents left behind by `gather()` are in nobody's.

*ReviewAgentProofs.* The protocol is stated of the moments when the conversation is sent;
in between it is broken. `IInv` says how: the calls without an answer are those in `pending`, they
are calls of the last assistant message, and they come in order behind what was told. The
trace is compared iteration by iteration, by the number of tool steps and tool messages.

*PipelineProofs.* `PInv` has four parts beside the types. `GitHubInv` says what
GitHub shows at each stage: nothing is posted before the post, and a failure after it has its
excuse. `AgentsInv` says which agents have been started and which have ended at each
stage of pipeline and orchestrator; that only `gather()` leaves agents behind follows. `AuthorInv`
leads a valid review, a merged or a posted one, back to an agent that returned it, and `UnheardInv`
a merged list without findings back to roles that all had none. The
refinement of `ReviewContract` needs `AgentsInv` and `AuthorInv`: findings to post mean that a model was asked.
`PipelineAssumption` says that the synthesis and the single agent are agents of their own
and no roles. Together with `ReviewAgentProofs` (`RefinesContract`) and `ServiceProofs` (`HandlersFit`) the contracts are proved
from both sides: what the service takes for granted of a review, and the pipeline of an agent, they do.

*Termination.* Two things make a run end: it has only so many steps, and it does not
stop short. The first is proved with a number that every step lowers. For an agent (`LoopRunsOut`)
it counts iterations, calls and what is pending, for a pipeline (`ReviewRunsOut`) the stages of
pipeline and orchestrator and the iterations of each agent, none of which is ever given back, and
for a pool (`WorkRunsOut`) events waiting, events open, workers alive and phases of the shutdown; only an
acceptance raises that one, by two. Of the second the part that is safety is proved: an agent that
is awaited runs, or whoever awaits it can go on (`WaitsEnd`); while an event waits, no worker has left
its loop (`NoEventIsAbandoned`).

Only model-checked: liveness itself (`AgentEnds`, `ReviewEnds`, `EveryJobEnds`, `ShutdownEnds`). What the
theorems on termination leave to TLC is the step from "can go on" to "goes on", which takes
fairness and `ENABLED`, outside what the prover does here, and the induction over the number of steps.
Every safety and action property of a passing run, and every refinement, has a theorem.

## 5. Where the code departs from its documentation

Each is a run that TLC finds violated by what the code does; the quotations are in
`PROJECT.json`.

1. `AtMostOneActiveReview`: review 1 is superseded by 2; when 1 ends, `complete()` pops
   the entry of the pull request, which is 2's. Review 3 then starts beside 2 without
   cancelling it. (`cancel_all()` at shutdown misses review 2 for the same reason.)
2. `DuplicateWasAccepted`: `submit()` records the delivery id before it finds the queue
   full. GitHub's redelivery within five minutes is refused as a duplicate.
3. `StaleFindingsNotPosted`: the cancel event is looked at only between iterations, so a
   review superseded during its last model call is posted.
4. `SchemaFindingsAreComments`: the prompt asks for the category `bugs` and the severities
   `warning`, `suggestion` and `praise`; the enumerations of `models.py` have none of them, and
   `_parse_findings` throws such a finding away.

The models also contain, without a run of their own:

- The older review is cancelled when a worker takes the newer event
  (`worker.py:155`), not when it arrives, as `cancel.py:3-4` reads. With all workers busy
  the stale review runs to its end.
- In the multi-agent mode the `AgentError`s of roles and synthesis are swallowed
  (`orchestrator.py:151`), so with every agent failing a review of no issues is posted and the
  check run succeeds; for the single agent `test_pipeline.py:275` wants a failure. A superseded
  multi-agent review is posted likewise.
- The synthesis agent is offered the tools although a comment calls it a single call without
  a tool loop: if it uses them, they are executed, its one iteration is spent and the fallback is used.
- `main.py:148` says of the middleware "outermost first"; the signature, added last, is
  outermost. `logging.py:21` says "Log every request"; those refused by the signature or the limit are
  not, nor those that crash in the check of the signature (`LogIsComplete`).
- `signature.py` says that it rejects invalid signatures, with a 401; one with characters outside ASCII
  makes `hmac.compare_digest` raise `TypeError`, which `signature.py:59` does not catch, and is answered 500. The request
  goes no further either way.
- The lines of findings are subtracted in the merge before they are validated: with a line written as
  text, which the models accept, or with none (`null`), two findings of one file make
  `_deduplicate_findings` raise `TypeError`, and the review fails although every role succeeded
  (`GatherRaises`). In the same way a severity that is a list makes the fallback of the
  synthesis fail (`SynthesisEnds`).
- A malformed critical finding (category `bugs`) can stand in for a well-formed one in the merge and
  is then dropped; the order in which the roles end decides (`CriticalIsHeardOrHidden`).
- `max_files` of a repository may be zero or negative and then drops files from the end;
  files are truncated before ignored ones are filtered.
- A job that waits when a shutdown begins is still taken during the drain, registered after
  `cancel_all()`, and reviewed uncancelled.
- Agents left behind by `gather()` may outlive the clients that `lifespan` closes.

## 6. Not modelled

- The text of prompts, the formatting of the diff and of the comments.
- `config.py` and `exceptions.py`: settings appear as constants, exceptions as outcomes.
- Path validation and truncation in `tools.py`, functions of a single call, and the filter of
  tools for a role, which turns a call into another answer: for the conversation
  a tool returns or raises.
- Token counts and durations of `trace.py`.
- Signing of tokens and the computation of signatures, which is cryptography. `azdo_secret` is
  accepted by the middleware and verifies nothing, as no route uses it.
- The Azure DevOps package is empty and the provider base class abstract.
- `severity_threshold` and `ignore_authors` are parsed from the configuration
  and never used (though `.reviewer.yaml.example` describes them), so there is nothing to model.

## 7. Plan

Done: every component that keeps state or decides an order, the compositions (gateway,
pipeline, content, service), and proofs of their safety properties and refinements.

Next: the tools of `ToolExecutor` with the filter of each role, as steps of `ReviewAgent`.
