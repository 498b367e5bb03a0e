# Formal models of the agent server

This directory holds a TLA+ description of the server in `src/`: a NestJS
application that answers prompts with a LangGraph agent. The modules describe
the parts whose correctness depends on the order in which things happen. TLC
checks them on small instances and TLAPS proves the most important invariants
for every value of the constants.

In the text, `agents/` abbreviates `src/modules/agents/` of the repository.

- [The system](#the-system)
- [The modules](#the-modules)
- [The runs](#the-runs)
- [The proofs](#the-proofs)
- [What the code does that its documents do not say](#what-the-code-does-that-its-documents-do-not-say)
- [What is not modelled](#what-is-not-modelled)
- [Plan](#plan)

## The system

A client posts a prompt to `/agents/run` (one answer) or `/agents/stream`
(server-sent events). The service takes a lock for the session in Redis, loads
the session's memory, and runs the agent graph on the LangGraph thread that has
the session's id. Every superstep of the graph is checkpointed in Redis by a
checkpointer of the project's own. When a plan is going to write or execute
something and `REQUIRE_PLAN_REVIEW` is on, the graph interrupts itself; a later
request approves the plan, rejects it or asks for another one, and approval
resumes the graph from its checkpoint.

```
 client ── controller ── agents.service ──────── plan-review.service
                            │  lock, cache, memory       │ lock
                            ▼                            ▼
                         agent graph (17 nodes) ◀── updateState, invoke(null)
                         │       │          │
                 llm.provider   tools   vector memory ── Qdrant
                 (breakers)              (connection, cache)
                            │
                       redis-saver ── Redis ── session.service.deleteSession
```

One process serves many requests on one event loop. Code between two `await`s
is atomic; everything else interleaves, also with other instances of the server
that use the same Redis and Qdrant. Timers decide races (`Promise.race`), and
the loser of a race goes on unless it looks at an abort signal.

### Components

**Agent graph** (`agents/graph`, `agents/nodes`, `agents/state`). State: the
channels of the thread (phase, plan, current step, selected tool, last results,
the critic's decision, counters, attempts, the review request, the answer) and
LangGraph's list of nodes to run next. Operations: the node handlers; the
router, which compares the limits, obeys the critic and names the next node.
What makes it right: a decision is obeyed exactly once; a step is executed with
its own tool; groups run whole; retries and replans are bounded; nothing is
executed before its review; an answer comes after all steps; a run that ends
has ended in one way. Hard: several channels are carried along by nodes that do
not own them (a parallel group leaves `selectedTool` stale, `attempts` survives
the run), and a plan can be resumed minutes later by another request.

**Plan rules** (`agents/nodes/plan-validator.node.ts`,
`parallel-execution.node.ts`). No state. The preflight checks and the slice of
a plan one parallel pass executes. The two have to agree: a group that preflight
lets through must fit into one pass.

**Plan review** (`agents/services/plan-review.service.ts`). Works on the
checkpoint through `updateState`. approve and replan take the lock after they
looked at the checkpoint; reject takes none. Right: what was shown is what runs,
what was rejected does not run. Hard: what approve begins was read before the
lock, what it goes on with is found after it.

**Requests** (`agents/agents.service.ts`). State: the lock, the response cache,
and what every request holds between its awaits. Operations: run, streamRun and
their ends: answer, timeout, client gone, exception, process gone. Right: work
on a session is exclusive, no lock is taken from its owner, every lock ends.
Hard: the lock lasts 120 seconds, a run up to 300, a stream as long as it takes.

A stream is a generator that the controller's Observable pulls: tokens that the
graph emits wait in a queue until the generator has handled an update of the
graph. Right: each token arrives once, the outcome is told, also when the graph
runs on during a yield, throws, or the client leaves.

**Session memory** (`agents/services/session-memory.service.ts`). A list under
one Redis key, read at the start of a request and written, merged with the new
entry, at its end; two endpoints write it without the lock. Right: no entry of
another request is lost, none is there twice. Hard: read and write are minutes
apart, and a failed read looks like an empty memory.

**Checkpoint store** (`agents/utils/redis-saver.ts`). State: six kinds of keys
per thread (records, writes, latest id, sorted history, and the two keys of an
older layout). Operations: put, putWrites, getTuple, list, deleteThread, the
memory keys. Right: the id that a run is resumed from can be read; the history
is trimmed to its newest; a deleted session is gone. Hard: a pipeline is not a
transaction, its single errors are never read, the whole of it is sent again
after a transient error, and deleteThread takes no lock.

**LLM calls** (`src/modules/llm/llm.provider.ts`). State: circuit breakers by
session and a global one, the time of the last sweep, and for each call its
attempt, its abort timer and its backoff. Right: breakers count their own
failures, stay open for their cooldown and no longer, calls end.

**Vector memory** (`src/modules/vector-db`). State: the memoised connection
promise, the memoised embedding model, a cache of research answers. Operations:
research, search, upsert, salience update. Right: one connection at a time,
whoever waits for one hears of its failure, no request before the collection
exists, a bounded LRU cache.

**Feedback** (`agents/services/feedback.service.ts`). Statistics of a session
in Redis and the salience of its points in Qdrant, updated without a lock, one
point after the other. Right: what the statistics say is what the points have.
Hard: two ratings at a time, a rating broken off, points two sessions share, and
runs that store a point again.

**Health** (`src/modules/health`). A cached report of optional dependencies
with a single-flight refresh.

**Sessions** (`agents/services/session.service.ts`). Listing and detail views
over the store; deletion.

**The rest.** Model router (a table), prompts and structured output (text in,
text out), tools (files, shell, HTTP), metrics (counters), Redis client and
configuration, HTTP layer (validation, guards, the 408 interceptor). The web
page is a client; what it shows of a stream depends on the order of the events.

`PROJECT.json` lists all of them with what is and is not covered, and the
hazards of this code, each at its line, with the properties that watch over it.

## The modules

| module | models | extended by |
|---|---|---|
| `PlanRules` | preflight rules and the slice of a plan a parallel pass runs | `AgentGraph` |
| `AgentGraph` | one thread: graph, runs on it, review calls | `MCAgentGraph`, `AgentGraph_proofs`, `AgentGraph_limits_proofs` |
| `RunLifecycle` | abstract: what callers may rely on about a run | instantiated by `AgentGraph` |
| `SessionAccess` | requests on one session, lock, loops, checkpoint, memory | `MCSessionAccess`, `SessionAccess_proofs` |
| `LlmCalls` | breakers, retries, timeouts, streams | `MCLlmCalls`, `LlmCalls_proofs` |
| `CheckpointStore` | the Redis keys of one thread, command by command | `MCCheckpointStore`, `CheckpointStore_proofs` |
| `VectorMemory` | connection, embedding model, research cache | `MCVectorMemory`, `VectorMemory_proofs` |
| `SessionData` | what requests leave behind: memory, cached answers, points, ratings | `MCSessionData`, `SessionData_proofs` |
| `StreamEvents` | the events of one stream, from the graph to the page | `StreamEvents_proofs` |

`AgentGraph` assumes that no two loops run on its thread and that a checkpoint
is written whole. `SessionAccess` shows when the first assumption holds, and
`CheckpointStore` what a checkpoint written in pieces can look like. A loop of
`SessionAccess` is the graph of `AgentGraph` reduced to planning, waiting for a
review, executing and ending. `SessionData` takes the other half of a request:
its graph is one step, while what the request reads and writes is kept in full,
for several sessions. `StreamEvents` looks at one stream between its lock and
its release.

Definitions whose comment begins with "Faulty variant" are not part of the
model. Each is what the definition that follows it would be with a plausible
mistake in the code, and `PROJECT.json` ("mutants") names the property that
notices the difference. They show that the properties depend on the code.

### AgentGraph and PlanRules

`s` is the record of the channels and `tasks` the set of nodes scheduled for
the next superstep: together they are a checkpoint. `running` says whether an
`invoke` or `stream` loop is at work on the thread. A node handler is one
action, because LangGraph applies the updates of a superstep together; the two
research branches share a superstep, and `memory_persist` shares the router's.

Answers of models and tools are free choices, including the exception that
`safeNodeHandler` turns into a failed run. Texts are reduced to what routing
can see: `toolResultRaw` is text, an error or a JSON list (a single tool can
return such a list too, and the normalizer then sees no error in it);
`finalAnswer` is an answer or a failure message. The `errors` channel only
words messages and is left out.

`BeginStep`, `Advance`, `Replan`, `Retry`, `RetryOrReplan` and `Route` are the
functions of `decision-router.node.ts`. The order in `Route` matters: limits
are compared before the decision is read, on every pass, also on the pass that
brings a new run to its first node.

`StartRun` merges `createInitialAgentRunState` into the channels of the thread:
`attempts` has an appending reducer and is not reset by the `[]` in the input.

A review call is two steps, because the code reads the checkpoint before it
waits for the lock. `ReadReview` puts the plan it finds into `asked`; from then
on any number of calls may act on that plan, at once or after other runs and
calls. `Approve`, `Reject` and `ReplanSession` are the second halves. `Approve`
begins the first step of the plan that was *read* (`BeginWith`: its tool, or the
parallel executor if it is in a group) and leaves the plan channel as it is, so
a late one runs the tool of one plan as the first step of another. A call is
late when the checkpoint is no longer the pending review of the plan it has read
(`StillPending`); `late` counts those.

`UpdateState` is LangGraph's `updateState`, which acts as the node that ran
last. How LangGraph itself behaves (supersteps, `updateState`, `invoke(null)`, a
new input replacing pending tasks) is taken from how the code uses it. An update
that LangGraph would refuse because two nodes ran last is let through: only late
calls meet that, so the model has more late calls than the code.

Most properties carry the condition `InTime` (no call was late). They relate a
run to its plan, and after a late call nothing does: the executor runs a tool the
plan does not name, steps are skipped, an interrupted retry or a run that has
ended is resumed with old counters. `TypeOK`, `EndsComplete` and `RunEnds` need
no condition and are checked, and the first two proved, however late calls come.

`Abort` ends a loop between two supersteps: the process stops, the recursion
limit is hit, or a checkpoint cannot be written. The checkpoint stays, and
later calls meet it.

`runs` and `verdicts` are history variables: how often each step of the plan in
`s` was executed, and what the reviewer said about this plan.

Steps of a plan are numbered from 1 while `currentStep` counts from 0 as in the
code, so step `currentStep + 1` is the current one. The tools, their
classification, and the limits are constants.

### SessionAccess

A request is at one of its awaits (`pc`): it has looked at the checkpoint
without a lock (`asked`; approve keeps the plan it saw in `seen`), has the lock (`locked`), has loaded the memory, has
updated the checkpoint, waits for its loop, writes the memory, releases the
lock. `Approved` is the update approve makes of the plan it has seen: the
checkpoint's `first` says whose first step the channels `selectedTool` and
`toolParams` hold, while its `plan` stays that of the latest checkpoint. In phase
`execute` a loop runs the tool of `first` (`LoopExecutes`), in phase `steps` what
comes from the plan itself (`LoopRunsSteps`): the steps after the first, or all
of them if approve chose the parallel executor, which looks into the plan.
`Parallel` holds the plans that begin with a group. `streamRun` follows the same path as `run`, has no timeout, and may lose
its client. A loop belongs to the request that started it and may survive it:
the graph timeout of `run` wins a race but nothing stops the graph.

`Expire` lets the lock run out at any moment, because nothing in the code ties
the lock's 120 seconds to the length of the work. `Restart` is a crash of the
process: requests and loops are gone, Redis keeps its keys. Any call of Redis
may fail or lose its reply.

Three history variables carry the properties: `overstayed` (who worked on
without its lock), `approved` (the plans pending when an approve looked) and
`kept` (whose memory entry was written and could be read back since). The
memory is the set of requests whose entry it holds; its order, its cut and the
endpoints that write it without the lock are in `SessionData`.

### LlmCalls

Time is a number of ticks. Instants of the code become durations that are left
or have passed, each cut off where no comparison can tell more. Timers are
prompt: time does not pass while one is due, which is how an event loop that is
not blocked behaves. `Start` is `checkCircuitBreaker` with the first attempt,
which follows in the same turn. `FailAttempt` stands for a failure of the model
and for the timeout; the breaker is not looked at again before a retry, as in
the code. The abort timer of an attempt starts before its backoff sleep
(`left` and `sleep` run together). `Yield` hands a chunk of a stream to its
consumer while the attempt can still fail. `streak` counts, per scope, the
failed attempts since the last good one.

### CheckpointStore

Each key of the thread is a variable: `record`, `writes`, `latest`, `history`,
and `thread` and `index` of the older layout. `put` and `del` are the pipelines
under way. Every command of put is a step that takes effect (`PutCommand`) or
fails unnoticed (`PutCommandFails`); a pipeline can be rejected and sent again
from its start (`PutAgain`, `DeleteAgain`) or lose its rest (`PutStops`,
`DeleteStops`). LangGraph chains the puts of a thread, so there is one at a
time; `putWrites` is not chained and may come at any time. deleteThread first
reads four keys and then deletes what it found. `ExpireRecord` is the TTL of an
old checkpoint, `ExpireThread` that of a thread nobody used: its keys are
refreshed together by each put and expire together.

`astray` holds the checkpoints of which a command was lost or which met a
deletion. The code promises nothing about these, and the properties except
them; everything else must be in order.

The model has one namespace, since the graph has no subgraphs, and keeps
pending writes as the set of checkpoints that have some.

### VectorMemory

`memo` is `connectPromise`: nothing, the operation that connects, or resolved.
An operation is at one of its awaits; `on` names the connection it waits for.
`cache` holds the keys of the Map `vectorResearchCache` by the time of their last
use (`ts`), which `Hit` sets anew and by which a full cache chooses what to
evict. Time is reduced to that order: entries run out of their TTL in it, and
two uses in the same millisecond are taken to be one after the other.
`OthersCreate` and `OthersDrop` are other instances and operators at work on
Qdrant. A blank query returns at once and is left out; the `vector_search` tool
takes the way of a research whose answer is not kept.

### SessionData

Each key a session has beside its checkpoints is a variable: `lock`, `memory`,
`ids` (the vector points its last run used) and `stats` (its rating); `cache`
belongs to all sessions, `salience` to the points in Qdrant, `head` to the git
repository and `fp` to the process, which asks git for the commit once. A
request is at one of its awaits (`pc`) and keeps what it has read (`mem`, `todo`,
`got`).

`Merged` is `merge` of the memory service, `Cuts` what `persist` makes of a
memory that is too long: the text is cut in the middle of an entry, so the model
keeps a `Fragment` there. `Load` is `tryLoad`, which turns a failed read into an
empty memory: the next write then drops what could not be read. `KeyOf` is
`_buildCacheKey`, in which the session does not appear: two sessions with the
same memory share an answer. `Lookup` and `Store` are the cache's two sides in
`run`; whoever is served writes neither memory nor ids. `KeepIds` is
`setVectorMemoryIds`: a run without research keeps the ids of an earlier one,
and an empty list is not written. `AddEntry`, `WriteEntry`, `Clear` and
`DeleteSession` are the endpoints that take no lock.

`Submit`, `ReadIds`, `UpdatePoint` and `StoreRating` are the awaits of
`submitFeedback`. The rating a session already has is answered at once.
`GraphAnswers` may store a point again, and since an upsert replaces the payload
its salience is lost. `Restart` ends all requests and forgets the fingerprint;
`Commit` moves the repository on.

Two history variables name the circumstances in which the code promises
nothing: `crossed` holds the requests between whose read and write an unlocked
or expired one wrote, and those that could not read; `muddled` the sessions whose
ratings overlapped, broke off, or share a point that someone else has changed.

### StreamEvents

`graph` is the graph as the stream sees it: it makes updates, speaks once,
and is complete, paused, or has thrown. `updates` are the updates the generator
has not taken; `queue` is `tokenQueue`. `gen` is the generator `streamRun`, at
one of its awaits or yields: `Take` and `LoopEnds` are the `for await`, `Drain`,
`Splice` and `SendToken` the drain after an update, with the reset in front of
it and `burst` for what `splice(0)` returned, `Conclude` the one event that tells
the outcome, then `Persist`, `Fail` (catch) and `Release` (finally).

A yield (`Yield`) hands its event to the client and resumes. If the client has
left, or the interceptor has timed the stream out, the Observable returns the
generator at that yield and only `finally` runs: such a request persists
nothing. `Rejected` is the error that the controller's `catchError` sends when
`streamRun` itself throws.

`page` is what `handleStreamEvent` of the page makes of the events: the text of
the streaming bubble and the bubbles that stay. Events that only report progress
change neither; they are kept as points at which a client that left is noticed.
`seen` (the tokens received), `late` (a token came while the generator was not
waiting) and `fault` (an await of the generator threw) are history variables.

## The runs

### What has to hold

**`graph`** (`MCAgentGraph.cfg`). Two runs on one thread, or one run and a late
review call, with every answer of models and tools, every decision of the critic,
any number of review calls in time, and aborts. What is said of a run and its
plan is said of runs without a late call.

- `DecisionObeyedOnce`, `SelectedToolIsCurrent`: channels that several nodes
  carry along hold what the router and the executor take them for, in particular
  when approve begins the step it has read and a group leaves `selectedTool` stale.
- `GroupRunWhole`: the preflight limit on groups and the executor's cut agree,
  so that advancing past a group skips none of its steps.
- `AnswerAfterAllSteps`, `RetriedAtMostOnce`, `BudgetKept`: progress through
  the plan. `BudgetKept` also says that every turn is a retry or a replan, and
  that tool calls exceed their limit by less than one group.
- `NothingRunsUnapproved`, `ReviewShowsWhatRuns`: plan review, also after
  replans, second runs, and runs that were aborted and resumed.
- `EndsComplete` and `ImplementsLifecycle`: whatever fails and however late a
  call comes, a run that reaches the end of the graph has been completed; and the
  graph refines `RunLifecycle` under the mapping `RunStatus`, in which a run ends
  once, its answer stays until the next run, and a halted run can be resumed only
  while its review is pending. A late call is `ComeLate` there, from which on
  nothing is promised: an approve that comes after the end of a run does resume
  it.
- `RunEnds` under weak fairness of the nodes: retries, replans and fallbacks do
  not go on for ever, not even in a run that a late call has confused.

Bounds: plans of `MCPlans` are those that differ for the router, the preflight
rules or the review: a plan that begins with a group and one that begins with a
single step, each with a patch whose anchor may be missing, so that a late
approve can begin either kind of step on either kind of plan; a plan over the
budget; and three that must be refused. With `Turns = 2`, the router ends a run at
its second replan or retry, so a plan is seen before and after either;
`StepRetries` and `Fallbacks` are 2 as well. `AttemptsCap = 2` (10 in the code) is
as small as the look-up of two attempts allows, so that attempts of an earlier run
and of earlier steps are pushed out early; `GroupLimit` and `MaxParallelTools` are
2 instead of 5, `MaxSteps` 12 instead of 20, which a plan needs to exceed the ten
tool calls of two turns. `MaxRuns = 2` bounds runs and late calls together: a
second run meets everything a first run can leave in the channels, and no third
kind of leftover exists because `StartRun` resets all but three channels. The
larger limits of the code are covered by the proofs, which hold for all of them.

**`session`** (`MCSessionAccess.cfg`). Three requests of any kind on a session.

- `WorksAlone`: two requests work at a time only if one of them lost its lock
  or left its graph running.
- `OwnLockOnly`: a late release does not take the lock another request has.
- `EntriesSurvive`: while nobody loses its lock, the read at the start and the
  write at the end of requests lose no memory entry.

Bounds: three requests are an owner whose lock expires, its successor, and a
third that profits if the first release takes the successor's lock. Two plans
let one plan replace another that is still pending; one of them begins with a
single step and one with a group. Requests differ in nothing
but their names (`CallerSymmetry`), and no property here is about liveness, so
that states which differ in the names only are explored once.

**`llm`** (`MCLlmCalls.cfg`). A streaming and a plain caller, each of which may
call for a session or without one.

- `TripsOnOwnFailures`: what a breaker counts, calls of its scope suffered.
- `SweepSparesOpen`: the sweep of idle breakers never closes an open one.
- `OpenEnds`: calls in flight when a breaker opens cannot keep it open.
- `CallEnds`: every call ends, also when a backoff uses up the timeout of its
  attempt.

Bounds: `Threshold = 2`, so that both one caller's retries and the calls of two
callers can trip a breaker; `Cooldown < Cleanup` as in the code (30 s, 120 s);
`Timeout = 2` and backoffs below and at it.

**`checkpoints`** (`MCCheckpointStore.cfg`). Two puts, one deletion after the
other, with every failure described above.

- `LatestReadable`: the latest id has its record: put writes the record first,
  and deletion removes the id with the record.
- `HistoryIsNewest`: a thread at rest has the newest ids in its history, at
  most the limit, ids trimmed from it are older than those in it, and `list`,
  which reads both layouts, names every record that is there.
- `DeleteForgets`: a deletion that met no other work and lost no command leaves
  no key of the thread, including records of checkpoints trimmed from the
  history, which only the older set still names.

Bounds: with `Limit = 1` the second put already trims; `Retries = 1` (3 in the
code) sends each pipeline a second time, from every point.

**`vector_memory`** (`MCVectorMemory.cfg`). Three operations on three queries
with a cache of two.

- `OneConnect`: one connection at a time, and the memo is the operation that
  makes it, however connections fail and are tried again.
- `RequestsHaveCollection`: unless someone deleted it, the collection exists
  when an operation sends its request, also when another instance won the race
  to create it.
- `LastUsedStays`, and `TypeOK` for the size of the cache: searches that end
  together, also for the same query, neither push out the entry used last nor
  overfill the cache.
- `CallsEnd`: nobody awaits a dead connection.

Bounds: three operations are one that connects, one that waits, and one that
arrives after a failure and connects anew; three queries compete for two places.

**`session_data`** (`MCSessionData.cfg`). Three requests of any kind on two
sessions.

- `EachEntryOnce`: `merge` filters the memory its request has read, so an entry
  is in a memory once, also after cuts and overlaps.
- `WritesAreSerial`: a request that nobody crossed writes its entry in front of
  the memory as it is at that moment, though it has read it minutes before.
- `ServedAnswerFits`: an answer from the cache was given to the same prompt with
  the same memory, and no earlier than at the commit the process knows of.
- `RatingsReachPoints`: a stored rating that nothing disturbed is the salience of
  each point it counts.

Bounds: three requests are one that reads, one that writes in between, and a
successor that reads what they left, or two ratings and a run; two sessions
share the point and the cache. Two commits are one before and one after a
restart. Two entries are kept (three in the code), so that the third request
pushes one out. With one prompt and one point the run does not mix up two
prompts or update two points; the proofs do, for any number.

**`stream_events`** (`MCStreamEvents.cfg`). One stream.

- `TokensOnce`: what was received, is in hand and is queued is what was
  emitted, in order, however far the graph is ahead; all of it was received
  before the outcome is told.
- `ScreenShowsAnswer`: no reset falls into the middle of a streamed answer, as
  long as the generator keeps up with the graph.
- `EndTellsOutcome`: a client that stayed is told the outcome of the run, and an
  error comes last if an await has thrown.
- `StreamEnds`, under the fairness below: every stream ends, and gives its lock
  back unless Redis failed at that.

Bounds: four tokens are one batch in hand while another is queued, each of two;
four updates let the generator fall behind by several.

The state graphs are explored completely:

| run | distinct states | depth |
|---|---|---|
| `graph` | 1 406 775 | 102 |
| `session` | 520 218 (up to symmetry) | 30 |
| `llm` | 104 947 | 32 |
| `checkpoints` | 1 117 584 | 36 |
| `vector_memory` | 307 768 | 24 |
| `session_data` | 2 579 140 (up to symmetry) | 26 |
| `stream_events` | 61 951 | 41 |

### Where the code does not do what is said of it

Each of these runs checks one sentence of the repository and TLC finds a
behaviour of the model that breaks it. They are described
[below](#what-the-code-does-that-its-documents-do-not-say).

| run | property | sentence |
|---|---|---|
| `rejected_plan` | `RejectedPlanNeverRuns` | "Reject plan → stop run" |
| `placeholder` | `PlaceholderIsPreviousStep` | "resolves to the output of step N-1 ONLY" |
| `two_loops` | `OneLoopAtATime` | "prevents concurrent mutations on same session" |
| `unseen_plan` | `OnlyApprovedPlansRun` | "Pause for human plan approval before execution" |
| `stream_retry` | `StreamIsOneResponse` | "Stream the LLM response" |

### Fairness and deadlock

- `AgentGraph`: weak fairness of `NodeStep`. A scheduled superstep is executed:
  model calls, repairs and vector searches have timeouts. For tools this is an
  assumption: `execution.node.ts:104-118` aborts the tool's signal but awaits
  its promise, so a tool that ignores the signal can hold a run. Users and
  `Abort` are not fair.
- `LlmCalls`: weak fairness of time, and of each caller's answer, timeout or
  wake-up. The client aborts a request whose signal fired.
- `StreamEvents`: weak fairness of the generator's steps, which the event loop
  gets round to, and of the graph's: its model calls have timeouts and its
  recursion limit is 200 steps. The client is not fair: it may stay or leave.
- `VectorMemory`: weak fairness of each operation's work and of the model's
  loading: requests to Qdrant are answered or time out in the client.
- `SessionAccess`, `SessionData` and `CheckpointStore` have no liveness property
  and no fairness: requests and loops may stop anywhere.

Deadlock is not checked in the runs of `AgentGraph` (after `MaxRuns` runs and
late calls the thread rests), of `SessionAccess` and `SessionData` (each request is made once),
and of `StreamEvents` (a stream ends). In the other runs it is.

## The proofs

`tlapm` checks the theorems of eight modules. They hold for any number of
requests, sessions, callers, checkpoints, operations and tokens, any plans, and
any limits within the assumptions below, where TLC checks one small instance each. `PROJECT.json`
lists the theorems and the properties of the runs that they establish.

**`AgentGraph_proofs`.** `TypeCorrect` first, since everything else is about
records; it holds however late calls come. `StillInTime` says that a step after
which no call was late had none late before it, and `StepInTime` that such a step
is one of `NextInTime`, in which the plan a call has read and the plan it meets
are the same. All other invariants are therefore proved over `NextInTime` and
stated as `[](InTime => ...)`. The invariant `IInv` then ties the phase to what may happen in it:
`Scheduled` (which node can be scheduled in which phase; without it an action
could be taken in a phase its handler never sees), `OnOneStep` (a failed result
is that of a single, ungrouped step, so a retry is never a retry of a group
with a stale `selectedTool`), `StepsDone` (how many steps were executed in each
phase), `ReviewedFirst` and `ReviewUntouched` (an unapproved plan has not begun,
and a pending review leaves the plan alone, through rejection and abort).
`DecisionsAreObeyedOnce`, `ExecutesTheCurrentTool`, `AnswersAfterAllSteps`,
`ReviewComesFirst` and `ReviewIsHonest` follow from it.

**`AgentGraph_limits_proofs`** builds four invariants on `IInv`, one on another.

- `ExecutionInv`: a plan that is executed passed the validator's group rules
  (`Validated`), the loop stands where a group begins or ends (`BetweenGroups`),
  what it has not reached was not executed (`LaterNotRun`), and the newest
  attempts of the history are those on the current step, as many as it was
  executed (`Retried`); this is where the cap of the history must hold
  both attempts of a step. The lemma `PassIsGroup` joins the two bounds: the
  validator's limit on a group is not over the executor's cut, so a pass that
  starts where a group starts takes all of it. `GroupsRunWhole` and
  `StepsAreRetriedOnce` follow.
- `BudgetInv`: only the router looks at the limits, so a run that has used up
  its tool calls can be only at its end or between the executor and the
  router, and a pending review is never that of a run at a limit
  (`LimitsChecked`); approving starts the executor without a pass of the router.
  `BudgetIsKept` follows.
- `LifeInv`: a loop that runs has a node to run, and a review is pending in it
  only until it pauses. `KindOfStep` sorts every step into seven kinds, as a
  caller sees them (goes on, goes to a review, stops, ends, starts, resumes,
  rejects), of which each is a step of `RunLifecycle` or a stutter, from which
  the refinement `GraphImplementsLifecycle` follows. `RunsEndComplete` does not
  need it and is inductive by itself, also with late calls.
- `SuperstepsLeft`: the distance from the scheduled node to the end, plus 8
  supersteps for each replan and 6 for each execution the limits still allow.
  Until a call comes late every superstep lowers it (`SuperstepsLead`), so no
  loop takes more than
  `38 * Turns + 3` (`LoopsAreShort`, with a count of supersteps added to the
  specification). With up to five turns that is below LangGraph's limit of 200,
  which therefore stops no such run (`RecursionLimitSuffices`). It is the part of
  `RunEnds` that needs no fairness.

**`SessionAccess_proofs`.** `WorkNeedsLock` (who works has the lock or has
overstayed) is nearly inductive; a loop may go on after its request, which
`LoopHasRequest` excludes for requests that did not overstay; `ReadIsCurrent`
says that from its read to its write a request knows all entries kept, which
needs mutual exclusion in between. `LockExcludes`, `MemoryKept` and the action
property `LocksAreNotStolen` follow.

**`LlmCalls_proofs`.** `TripsOnlyOnOwnFailures` is inductive with the types. For
`OpenBreakersAreNotSwept` the invariant needs `OpenIsRecent`: an open breaker
was used when it opened and has been idle for no longer than it is open, hence
less than `Cleanup`.

**`CheckpointStore_proofs`.** `PutOnCourse` says that a put past its first
command has its record unless its checkpoint is astray; `LatestOnCourse` that
the latest id lacks its record only between two commands of a deletion that
is about to remove the id. `ResumePointReadable` follows. `HistoryInv` follows the
history through the commands of put: from its third command the checkpoint is in
it (`PutListed`), what was trimmed is older than all that stayed
(`TrimmedOlder`), by the lemma `NewestKeepsTheLast` on the trimming. `ErasureInv`
says that the older set names every stored checkpoint that did not go astray
(`KeptIndexed`), so that a deletion, once it has read the set, has found them all
(`KeptFound`), and that what its commands removed stays removed while no run
disturbs it (`QuietErases`). `HistoryHoldsNewest` and the action property
`DeletionForgets` follow.

**`VectorMemory_proofs`.** `OneConnect` is inductive with the types of the memo
and the operations; for `RequestsFindCollection` the invariant
`CollectionThere` follows the collection from the moment one operation has seen
or created it to all that waited for that one. `CacheInv` adds that the entry
used last is at the end of the cache, and that a research under way has a query;
what `Without` and `Kept` leave of a cache are lemmas, from which the bound of
`TypesKept` and the action property `LastUsedIsKept` follow.

**`SessionData_proofs`.** `TidyInv` says that memories, and what requests have
read of them, name no entry twice and have a fragment only at their end: so
`merge`'s filter leaves nothing of the new entry, and a cut makes no second
fragment. `SerialInv` ties what a request that nobody crossed has read to
the memory as it is, by way of the lock. `CacheInv` says that an answer in the
cache fits its key and that no key is newer than its answer, and follows what
a served request holds. `RatingInv` follows an undisturbed rating: the points it
has updated so far have it. `EntriesOnce`, the action property `WritesSerial`,
`CacheServesFitting` and `RatingsReach` follow.

**`StreamEvents_proofs`.** `Counts` places every token: a piece of the stream of
tokens is known by the number in front of it and its length, and what was seen,
is in hand and is queued are consecutive. `Control` is what the generator can
rely on at each point, such as that a graph which is over emits nothing, so that
an empty queue stays empty from the last drain to the outcome. `Screen` says
that, while nothing comes late, tokens wait in the queue only before the first of
them is sent; without it a reset could wipe half an answer. `Told` lists the
bubbles a page can have at each point. `TokensArriveOnce`, `ScreenIsWhole` and
`EndsTold` follow, and the bounds of `TypesKept`, which need all of it.

The assumptions on the constants are those of the modules and are what the code
has: group limit no larger than the executor's cut, non-empty plans, thresholds
and timeouts of at least one, a history of attempts that holds two (the code's
holds ten), a cooldown no longer than the sweep's limit, a
cache of at least one entry.

Every invariant, action property and refinement of the passing runs is stated by
a theorem. Only model-checked are the liveness properties (`RunEnds`, `OpenEnds`,
`CallEnds`, `CallsEnd`, `StreamEnds`): they rest on weak fairness, hence on
ENABLED, which the provers do not handle. The properties of the runs that expect a
violation are false of the code and have nothing to prove. What a recursive
definition computes for every input is beyond the prover too; the modules with
theorems have none.

## What the code does that its documents do not say

1. **A rejected plan can still run.** `reject` (`plan-review.service.ts:115-133`)
   writes phase `fatal` and an answer, and leaves `reviewRequest` in place. approve
   asks only for a review request and a plan, so approving after rejecting
   starts the plan. (`rejected_plan`)
2. **`__PREVIOUS_RESULT__` on a retry.** The executor fills the placeholder from
   the last raw result. When a step is retried that is the error of its own
   first attempt, not the output of the step before. (`placeholder`)
3. **The lock is shorter than the work.** It lasts 120 seconds and is not
   extended. A run may take 300, its graph goes on after the timeout, a stream
   or an approved plan has no limit. (`two_loops`)
4. **approve begins one plan and goes on with another.** It reads the pending
   plan A, takes A's first step, waits for the lock, and only then updates
   whatever is the latest checkpoint (`plan-review.service.ts:77-92`). If another
   request has made plan B in between, A's first tool runs, with A's parameters,
   as step 0 of B. The router then goes on with the second step of B: B's first
   step is never run, the others run although nobody approved B, and of a B with
   one step nothing runs, though the run ends as if it had. If A begins with a
   group, approve chooses the parallel executor, which looks into the plan: B is
   then run from its first step, a row of ungrouped steps in parallel.
   (`unseen_plan`; in `AgentGraph` it is a late call, which `InTime` excludes)
5. **A retried stream repeats itself.** Chunks are handed on before the attempt
   is known to succeed, so a consumer gets the beginning of a failed response
   and then a whole one. (`stream_retry`)

For a reader of the code, what else the models contain or came with reading the
source, without a run of its own:

- A plan of 20 steps passes validation although the default budget is 15 tool
  calls, and is then failed by the router.
- `AGENT_MAX_ITERATIONS` may be up to 10, and the router is said to abort after
  that many cycles (`.env.example:22`). A run may take 38 supersteps for each
  turn and two more, so from six turns on LangGraph's `recursionLimit` of 200
  (`agents.service.ts:136`, `:265`) can end it first. `RecursionLimitSuffices`
  says that up to five turns it cannot, unless a review call came late.
- `AGENT_MAX_RETRIES` and `AGENT_MAX_RETBACKS` are not what `docs/ENV.md:40-41`,
  `README.md:306-307` and `.env.example:23`, `:39` say. A step that has failed
  twice is replanned whatever `AGENT_MAX_RETRIES` is (`RetriedAtMostOnce`); that
  variable is the number of retries in a whole run at which the run fails. The
  limit on replans is `AGENT_MAX_ITERATIONS` (`agent.config.ts:20`), and
  `AGENT_MAX_RETBACKS` bounds only the router's fallback to the supervisor, which
  is never taken (`DecisionObeyedOnce`).
- A run that pauses for a review has no final answer, so `run` answers an error,
  or an earlier tool result, which it also caches (`agents.service.ts:191`).
- `memory_persist` follows the generator whether or not it succeeded, and stores
  a failure message as "Result: …" (`memory-persist.node.ts:11`, `:20`).
- put trims the sorted history only; the id stays in the older set and the record
  stays, and list reads both, so the listing grows past the
  history limit (`redis-saver.ts:450`).
- A read of the session memory that fails empties it at the next write.
- The cache is shared by all sessions that have the same memory, and holds
  answers of failed runs too. An answer stays until its TTL though the repository
  moves on: the process asks git for the commit once.
- Statistics of a rating outlive `DELETE` of the session, and a rating sent again
  reaches no point that the session has got since.
- Storing a point again replaces its payload, and with it its salience.
- The tokens of a node are sent after the node has ended, since the queue is
  drained only when an update arrives: the client gets the answer in one burst.
  The design notes call it real-time token streaming
  (`docs/superpowers/specs/2026-03-20-agent-enhancements-design.md:11`). In the
  model the drain after the loop (`agents.service.ts:379`) finds no token.
- `final` is sent before the memory is written and the lock released. A client
  that sends its next prompt at once can be refused, and an `error` can follow
  `final`, when the ids of the points cannot be stored (`agents.service.ts:447`).
- A comment says that "no tokens can be pushed during a yield suspension"
  (`agents.service.ts:386-387`). They can: the graph runs on while the client takes
  an event (`late` in `StreamEvents`). No token is lost by that (`TokensOnce`), but
  tokens of an answer are then split over two drains, and the reset of the second
  wipes the first from the page until `final` shows the whole text.

## What is not modelled

- **Health**: its single-flight refresh has the form of the connection memo in
  `VectorMemory`, and no other part reads its state.
- **Model router, metrics, JavaScript extensions, prompts, structured output**:
  no state, or state nothing decides on. That an output cannot be parsed is one
  of the outcomes of every node that asks the model.
- **What tools do** to files, shells and HTTP servers: I/O. Their verdict, the
  time they take and their classification are in the model.
- **Expiry of session memory and statistics**: a session nobody used for a day is
  empty, which any of the modelled readers handles as a new one. Expiry of
  checkpoints and of cached answers is modelled.
- **Texts**: prompt enhancement, file trees, images, and the wording of entries.
  A memory is split at separator lines, so an entry that contains one counts as
  two; the model's entries contain none.
- **Fields of pending writes** (`hsetnx` keeps the first write of a task): the
  model keeps the set of checkpoints that have pending writes.
- **HTTP validation, guards, Redis client configuration, deployment**, and of the
  web page everything but the events of a stream.

## Plan

Done: the graph with its plan rules and life cycle, requests and lock, model
calls, checkpoint store, vector memory, session data with the response cache and
feedback, and the events of a stream; the types of all of them, every safety and
action property and the refinement, proved.

Next, in this order:

1. Proofs of the fairness-free part of the other liveness properties, as
   `SuperstepsLead` is for `RunEnds`: what a call of the model, a request and a
   stream have left to do falls with every step they take.
2. Pending writes by field (`hsetnx` keeps the first write of a task), composed
   with a task that runs again after a crash.
3. An abstract store (put a checkpoint, read the latest, forget the thread) that
   `CheckpointStore` refines while nothing goes astray.
4. Health's single flight, if it ever gets a reader that decides on it.
