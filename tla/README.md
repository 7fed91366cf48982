# A TLA+ development of redax

redax is a self-hosted service that detects and replaces personal data in
texts. The service is a set of API processes (FastAPI) and job workers (ARQ)
around one Redis, with an audit log in a file or in Redis. This directory holds
TLA+ models of its stateful core, the TLC configurations that check them on
small instances, and TLAPS proofs of the most important properties for every
instance. `PROJECT.json` maps every definition to the lines it models.

    tlc -workers 2 -config jobs_delivery.cfg MCJobs     # a run: <name>.cfg, its MC module
    tlapm JobProofs.tla                                 # a module of proofs

## 1. Inventory

| Component (source) | State it keeps | Operations | Interacts with | What is hard | What makes it correct |
|---|---|---|---|---|---|
| Job store (`app/jobs/store.py`) | a hash per job, two admission counters, an index of creation times, a dead-letter list, all in Redis with TTLs | ADMIT, CLAIM, CANCEL, TERMINAL scripts; reap, sweep, dead letters | called by API, workers and every starting process | scripts of many callers interleave; replies are lost or commands repeated; keys expire on different clocks | counters equal the unfinished jobs; a job ends once; caps hold |
| Job API (`app/api/jobs.py`) | handlers between awaits | submit, read, cancel, `run_job`, `record_failure` | job store, ARQ, audit, redactor | cancellation races the claim; a crash between admission and enqueue | one execution, one audit event where it is required; confirmed cancellations hold; done is then audited |
| ARQ queue and worker (`app/jobs/queue.py`) | queue entries, delivery counts, leases (library) | deliver, retry, give up, time out | job API | duplicate delivery, lost workers, the timeout race | every job ends |
| Circuit breakers and pipeline (`app/redaction/circuit`, `pipeline.py`) | one breaker per replica, one hash in Redis | allow, success, failure, `Pipeline.__call__` | model detector, regex gate | late results, cancelled probes, failed reports | text is never returned unprocessed; one probe; nobody is shed for nothing; an outage is probed again |
| Redact endpoint (`app/api/redact.py`, `idempotency.py`, `cache.py`) | lease and record per idempotency key, response cache, all in Redis | reserve, complete, release, cache read and write | redactor, audit, Redis link | a lease that expires under its holder; failures between audit, record and cache; a client that the link drops | successes are audited where required; keyed results are published before they are returned, or are kept nowhere; the lease excludes and is given back |
| File audit (`app/audit/file.py`) | log and backups, a queue and a drain task per process | start (prune), record, drain, rotate, stop | every endpoint, worker | threads that rotate at once; two processes on one file | a line is lost only when due; a healthy disk does not disable the log |
| Redis audit (`app/audit/redis.py`) | list of events and list of timestamps | APPEND_AUDIT_SCRIPT | every endpoint | calls out of timestamp order, unequal lists | pairs stay pairs; events leave only when due |
| Admission and teardown (`app/middleware.py`, `app/main.py`) | semaphore, counter, `drain_event`, readiness | admit, release, teardown | all handlers | a deferred release; teardown next to requests | slots are exact and released; nothing runs on closed dependencies; teardown ends |
| Redis link (`app/main.py`, `store.py` start/stop) | client, ARQ pool, a background task | ping, drop, rebuild | teardown, job API, readiness | an outage that ends between two awaits; a task that reopens what teardown closed | the link recovers; closed stays closed |
| Span redaction (`app/redaction/apply.py`, `redactor.py`, `strategy.py`, `consensus.py`, `offsets.py`, `app/inference/*`) | none (functions) | validate, deduplicate, fuse, replace, remap | pipeline | overlaps, empty and longer replacements, fields on each other's output, offsets that a model got wrong | exactly the kept spans are replaced; survivors map back; reports cover |
| Streaming (`app/api/stream.py`) | one generator | split, redact, send, audit, `[DONE]` | audit, client | a client that leaves, two budgets | chunks tile the text; `[DONE]` means all of it, audited |
| Rate limit (`app/ratelimit.py`) | a counter per key and minute in Redis | RATE_LIMIT_SCRIPT | every endpoint | calls that arrive after their bucket expired | bounded excess; refusals have a reason |
| Batch, detect (`app/api/batch.py`, `detect.py`) | tasks under `gather`, a semaphore per batch | redact every item, detect | redactor, detector, audit | siblings of a failed item, a deadline that cancels items at any await, two semaphores in a row | a success is whole and audited; nothing runs on after a deadline was answered; no deadlock |
| Model detector (`app/inference/gliner2.py`, `app/redaction/stages/model.py`) | one semaphore for all loops, threads | `detect`, `detector_sync` | every path to the model | cancellation at the grant, while waiting, while the thread runs; loops on several threads | on one loop no slot is lost or given twice |
| Readiness (`app/api/health.py`) | none; reads link and teardown | `readyz` | Redis link, teardown, the orchestrator | state read before the ping, used after it | a process that is closing never says ready; a recovered one says so again |
| R-Score benchmark (`app/bench/annotation.py`, `combinators.py`, `fusion.py`, `rscore.py`) | none (functions) | build connectors, select contextual spans, score | | overlaps, runs that touch, bisection on unmerged spans, pairs across mismatches | runs are exact; only characters count; the score is bounded and monotone |
| Authentication, policies, configuration, integrity, observability, relex, disagreement and corpus scripts, wasm, site | none that another part reads | | | | not modelled, reasons in `PROJECT.json` |


## 2. Modules

| Module | Models | Extends / instantiates |
|---|---|---|
| `JobLifecycle` | what the job API promises a client (abstract) | |
| `JobStore` | the Redis keys and scripts of the job store, as operators | |
| `JobSystem` | handlers, ARQ, workers, reaper on that store | `JobStore`; refines `JobLifecycle` |
| `CircuitBreaker` | both breakers, as operators on their state | |
| `ModelStage` | `Pipeline.__call__` of several requests | `CircuitBreaker` |
| `RedactEndpoint` | POST /v1/redact with lease, record and cache | |
| `FileAudit` | the JSONL log, cut at every system call | |
| `ApiServer` | `request_context` and `teardown_state` | |
| `RedisLink` | `refresh_job_metrics` and what it keeps | |
| `ApiProcess` | the two together in one process, and `readyz`, which reads both | `ApiServer`, `RedisLink` |
| `Inference` | `detect` on the shared semaphore, from the main loop and from the pipeline's threads | |
| `BatchEndpoint` | batches and detections, which call it | `Inference` |
| `Sorting` | `sorted`: the list of a finite set under an order | |
| `Redaction` | span operations and the paths that use them | `Sorting` |
| `RScore` | the R-Score of a document | `Sorting` |
| `Stream`, `RateLimit`, `RedisAudit` | the components of these names | |
| `MCParts` | those three, side by side, one of them the subject of a behaviour | all three |
| `MCSpans` | `Redaction` and `RScore`, one of them the subject of a behaviour | both |
| `MC*` | instances for TLC | |
| `JobProofs`, `StageProofs`, `RedactProofs`, `AuditProofs` | theorems about jobs, breakers, the redact endpoint and the audit file | the modelled module |
| `ServerProofs`, `InferenceProofs`, `PartsProofs`, `SpanProofs` | theorems about the API process, batches with their detector, the three small parts, and the span operations with the score | `ApiProcess`, `BatchEndpoint`, `MCParts`, `MCSpans` |

How code becomes actions. A coroutine is cut where it awaits, a thread where it
makes a system call, and each piece is one action; a Lua script is one action.
What stands between two awaits is in one step because asyncio does not
interleave there. A Redis call has four outcomes where its fault is allowed: it
works, it fails without effect (`"store"`, `"os"`, `"redis"`), it takes effect
and the reply is lost (`"lost"`), or the client sends it again after a timeout
(`"resend"`): `store.py:179` builds the client with `retry_on_timeout=True`,
and `requirements.lock` pins a redis-py that repeats a command once in that
case. The faults of a behaviour are a constant (`Faults`) or are picked
by `Init` from a constant set (`FaultSets`, `Setups`), so that one run covers
sound and unsound environments; a property that needs a sound part of the
environment says so in its own text.

Abstractions that matter:

* `JobStore`: a job id is fresh, so it is minted once. `drifted` records that a
  key in use has expired or an admission was sent twice, after which the
  counters no longer equal the jobs. `audits` counts the audit calls that took
  effect; `AuditRequired` is `settings.audit_required` with a backend. Where it is
  off, `record` returns whether or not the event was written, and `run_job` goes on.
  Jobs without owner are not modelled, since anonymous submissions are
  answered 401. The reaper's cutoff is read when the scan starts in the code and
  at each read in the model, which only makes more jobs stale. A repeated ARQ
  enqueue is ignored by its job id, so it is the same as a lost reply.
* `CircuitBreaker`: times are kept as what is left of a cooldown; the replicas'
  clocks agree.
* `RedactEndpoint`: a body stands for the whole effective request; fingerprint
  and cache key are injective in it. A client's retry is another request. The faults
  `"optional"` (the audit is not required, or there is no backend) and `"drop"` (the
  Redis link may drop the client at any moment) are settings like the others. Every
  use of the client tests it first, but a command goes to the client it was given.
* `FileAudit`: sizes are counted in lines; files are inodes, so descriptors
  survive renames. Truncating and writing back in `prune_old_events` is one
  step; errors of the first touch and prune are not modelled.
* `JobLifecycle`: its `lost` is `drifted`; until then the caps bind, and its
  moves bind for ever.
* `ApiServer`: health probes pass admission by, and the flush of traces is left
  out. Both ways to defer the release (wrapped iterator, background task)
  are modelled, since the class of the response decides.
* `Redaction`: a text is the sequence of its positions, a replacement is a run of
  fillers. Mask and hash strategies get no spans in policy mode. Formats
  that contain the text itself are left out. A model may detect what is no span of
  the text (`Strays`); negative offsets do not occur, since
  `normalize_gliner2_result` drops them and tokenizers have none. Regex hits are spans.
  `clean` says whether the paths without `validate_offsets` met no stray and the
  regex strategy's hits did not overlap.
* `Inference`: `asyncio.Semaphore` is external and modelled from CPython's (3.13, as
  in `pyproject.toml`): a thread may be preempted between the test of `locked()` and
  what follows from it, and in `_wake_up_next` between the test of a waiter's future
  and the decrement with `set_result`, which is an error if the waiter was woken or
  cancelled meanwhile; so these are separate steps once a call runs on a thread
  (`TestValue`, `PickNext`, `Grant`). Where all calls are on the main loop nothing
  comes between (`LoopIsFree`), and a release wakes in one step. An update of
  `_value` is one step. The semaphore belongs to the loop of its first waiter. A grant
  from another loop may not wake a thread's loop (`asleep`).
* `BatchEndpoint`: the batch's semaphore is used on one loop only and is a count.
  A detection is a request with one item. An item makes one call.
* `ApiProcess`: one probe at a time. Redis answers a ping in time or not at all.
* `RScore`: one character stands for each class the code tells apart; scores are
  whole parts of `Unit`, a multiple of every divisor, so no rounding is modelled
  (the code adds up floating-point numbers).
  Annotations beyond `MaxOverlap` spans are disjoint, which the paper's algorithm asks
  for; below, any overlap is tried. A set of spans holds each once. The components
  of a graph of spans are its least sets closed under the links, which is what the
  search in `connected_components` finds; groups are sets, as nothing in the score
  depends on their order.
* `Stream` treats a chunk as a range; each is redacted on its own.

Definitions named `Bug...` are what a plausible slip would make of the
definition that follows. No specification uses them; they serve to show that a
property notices.

## 3. Runs

| Run | Instance | Shows |
|---|---|---|
| `jobs_lifecycle` | 3 jobs of 2 keys, caps 2 and 1, 1 worker, 1 canceller, TTL 2, clock to 2, optional audit, undecodable jobs, reaping | `CountersExact`, `RefusedOnlyWhenFull`; refinement of `JobLifecycle` |
| `jobs_delivery` | 1 job, 2 workers, 1 canceller, 2 tries, TTL 2, clock to 2, required audit, every fault but undecodable jobs, restarts | `ClaimRespected` (one execution, none after a cancellation), `DoneIsAudited`, `DeadLettersHaveEnded`, `TerminalIsFinal`, `EveryJobSettles` |
| `jobs_retry_lost` | 1 job, 2 workers, 3 tries | violation: a failed attempt is never retried |
| `breaker` | 2 requests, threshold 2, cooldown 1; local, shared, shared with every fault | `FailsClosed`, `OneLocalProbe`, `ShedsWithReason` (of both breakers), `OutageIsProbed` |
| `inference` | a batch of 2, a detection and a call of the pipeline's thread or of another request, 1 slot | `SemaphoreExact`, `NothingRunsLate`, `BatchIsWhole`, `CallsEnd` |
| `redact` | 4 requests, 3 with one key, 2 bodies; every fault with required audit, every fault but lost leases and evictions with optional audit, no Redis fault | `SuccessIsAudited`, `KeyedResultIsPublished`, `OneHolder`, `LeaseIsGivenBack`, `LeaseIsHonoured` |
| `audit_file` | 2 processes, 3 events, queue of 2; four settings | `LogIsKept` (a line is lost only when due, and is in one file at most), `HealthyDiskNeverFails`, `QueuedIsTaken` |
| `audit_prune_race` | 2 processes on one log | violation: pruning loses acknowledged lines |
| `server` | 2 requests, 1 slot, teardown, Redis task, probes | `SlotsExact`, `NothingRunsClosed`, `StaysClosed`, `ReadyIsHonest`, `SlotIsReleased`, `TeardownEnds`, `LinkRecovers` |
| `span_paths` | texts of 4, 2 detections per detector, among them 4 that are no spans, 3 confidences, replacements of 0 and 2, 2 fields; five annotated texts of 4, up to 3 labels (2 if they overlap) and 2 predicted spans | `RedactsExactly`, `BestAreKept`, `MapsBack`, `RunsExact`, `ScoreIsSound` |
| `span_regex_overlap` | the regex strategy | violation: overlapping hits are not replaced exactly |
| `request_parts` | 4 calls, limit 1; texts of 4 with widths 1, 2, 4; 4 events, list of 2, retention 2 | `RateIsBounded`, `StreamIsWhole`, `StreamEnds`, `AuditLeavesOnlyWhenDue` |

Why the bounds are enough for the interesting cases. Two workers and a
canceller on one job make every race on a hash; more jobs only share
counters and the index, which `jobs_lifecycle` does with three jobs under caps of
2 and 1. More jobs with all faults are beyond TLC; there `CountersExact`, the
caps and the refinement rest on the proofs, which have no bounds.
A clock of 2 with TTL 2 lets every key expire, under a live job too. Two
requests and threshold 2 give a probe, a late result from before the
opening and a call that is shed; one replica is enough as replicas only differ
in their own breakers. Three requests with a key allow a holder, a successor
and one that replays; the fourth, without key, shares the cache. Three events
fill a log of one line with two backups and make three threads rotate at once.
A batch of two, a detection and a fourth call for one slot give a holder, two waiters
that are granted and cancelled in any order, and a thread that comes between.
Two requests for one slot make one wait; counts beyond that are covered by
proof. Two spans with different lengths and confidences, nested, adjacent,
and crossing, are all the relations two spans have; the strays are one empty, one inverted
within the text, one inverted at its start, whose last place is before the text, and
one beyond its end, and each overlaps some span or none. The five texts of the benchmark
have each connector rule, quotes, a mismatched and a nested pair, and a newline;
three labels make a chain of two connectors. Deadlock is
not checked where requests and jobs are one-shot, so that behaviours end; in
`breaker` slots are reused and it is checked.

Fairness. `Fairness` in `JobSystem` assumes that a started handler and the
worker loop run on, that ARQ polls, and that in-progress keys expire; nobody has
to submit, cancel or fail. `RestartSpec` adds that processes are restarted again
and again, and that Redis does not fail every call of a reaper: that is what the code relies
on, since only a starting process reaps. The other faults may happen at any time, for ever.
`ModelStage` assumes running requests end, time passes and requests keep coming
(nothing else probes), and strongly that not every request is cancelled before
its thread starts. `FileAudit` assumes its threads and drain task run.
`ApiProcess` assumes requests, teardown, the task and deadlines go on and that probes
are sent again and again (`deploy/kubernetes/api-deployment.yaml` sets them up), nothing of
clients or Redis. `BatchEndpoint` assumes that the loop and the threads run and the
model returns, and claims that calls end only where all of them are on one loop. `MCParts` assumes the stream's generator is resumed.

## 4. Proofs

All theorems hold for every value of the constants that satisfies the named
`ASSUME`s (finite sets of jobs or requests, positive caps as in
`app/config.py`, owners that are total functions, a `Unit` that the divisors of a score
divide).

* `JobProofs`. `TypeInv` (types, plus `Busy`: a worker or canceller that is not idle
  has a job) is inductive. `SafeInv` strengthens the safety properties:
  `Fresh` (a job that was not admitted has no trace anywhere), `ExecInv` (whoever
  executes a job holds its only claim, and its status cannot be queued,
  done or cancelled), `AuditInv` (the audit count follows where the executor is).
  They give `ClaimRespected` (executed once, never after a cancellation) and, where
  the audit is required, `DoneIsAudited`. `DeadInv` says that whoever is about to push or trim a dead
  letter, and every letter, is of a job that ended; `EndedStays` carries it over
  every step, and it gives `DeadLettersHaveEnded`. `CountersExact` is
  inductive together with these: the counting lemmas say what adding or
  removing one job does to the cardinalities, `TickCounts` that expiry
  either removes no live job or sets `drifted`. Caps, refusals and the finality of
  terminal statuses follow, and each step is a step or a stutter of `JobLifecycle`,
  whatever the faults: a tick of the clock is its `Forget` of the jobs that expire.
* `StageProofs`. `KnownInv` relates where a request is to what its model call
  did, which gives `FailsClosed`. `ProbeInv` (who probes holds the slot) gives
  exclusion; `SlotInv` adds that a slot taken has a prober; `SharedInv` is the
  same for the shared breaker while its environment is sound. Together they give
  `ShedsWithReason` (theorem `Shedding`).
* `RedactProofs`. `Keyed` (who uses a key has one), `Sound` (whatever is stored or
  answered comes from an execution of the same body, audited where that is required),
  `Recorded` (past completion, a keyed request is published, unless it found no client, and
  then nothing of it is kept), `HoldsLock` (who works owns the
  lock, while leases outlive their holders), `LeaseInv` (an owner still has its
  release ahead). `LeaseIsHonoured` is proved as an action property.
* `ServerProofs`. `Inv`: the slots are exact, and a request that has not passed
  the semaphore holds none. `Quiesced`: nothing is closed before readiness is
  dropped, and where the lifespan waits, nothing is in progress from then on.
  `ProcessImplementsServer`: each step of `ApiProcess` is a step of `ApiServer` or
  leaves it alone, so both invariants hold of the composition. There `Ended` (once
  the pool or the client is closed, the task that could open it is gone) makes
  `StaysClosed` inductive, and `Quiesced` gives `ReadyIsHonest`, an action property:
  readiness is dropped before anything is closed, and `readyz` reads it last.
* `InferenceProofs`. `RequestInv`: a request that goes to its audit event has every
  result (`AuditedIsDone`), only requests that are over have an answer, and the two
  properties themselves. No step of a call moves one that is done or failed
  (`Keeps`), which carries all of it over the steps of the detector.
  `SemaphoreInv` makes `SemaphoreExact` inductive: the semaphore's value, the calls
  inside it and the grants that nobody has taken up yet add up to the limit on one loop,
  and to no more than it across threads, and who waits is in the queue. A thread that
  picked a waiter takes from the value before it grants or fails, so that a wake-up that
  comes to nothing loses a slot and never makes one. On one loop a call between its test
  of `locked()` and what follows is alone there and finds the slot it saw, so the
  value is never negative.
* `PartsProofs`. `RateInv`: a bucket's count lasts beyond its minute, so late calls
  find at most two counts, and the second (`SecondCount`) outlives every call that named
  the bucket; without repeated calls a count is never ahead of the answers. `StreamInv`: what was sent tiles the text up to `start`, and the
  place of the generator says what is still to come; that a chunk makes progress
  and keeps its budget rests on `Least` and `Greatest` (a set of naturals has a least
  element, a bounded one a greatest), which follow from the well-foundedness of the
  subsets of a finite set. `ListInv`: the lists are paired or the timestamps were
  never there, and what is in them was recorded before the keys were last touched; `ScriptPairs` says that the repair, the
  pushes and both cuts of the script leave the lists paired.
* `AuditProofs`. A rotation renames one file at a time, so `LostOnlyWhenOld` is not
  inductive: midway, a line in backup `k` must already be followed by the lines
  that its next place asks for. `Followed` says so, for the places a rotation has
  passed and for those still to come; it needs that one append runs at a
  time (`Turns`, from the drain task and from a start that finds nothing running),
  that what a thread saw of the directory is still so (`Steady`), that files share no
  line and names no file (`Apart`), and that what `prune_old_events` read is still
  there (`Pruning`). `Apart` and `Turns` need only one process at a time and give
  `OneCopy` under required mode too, where rotations race; the rest needs that they do
  not (`Calm`, the negation of `MayRace`), and gives `HealthyDiskNeverFails` as well.
  `FreeInodeIs` counts names and descriptors against inodes, so that the model never
  runs out of them.

* `SpanProofs`. The span operations are folds over sorted sets. An induction rule
  takes a predicate as its parameter, which the provers cannot instantiate; a set of
  naturals has a least element, though, so `Reaches` does the induction on the set of
  places where a claim holds. `Lists` sorts a finite set by counting what comes before
  a member, and `DedupeTurns` and `ApplyHasTurns` take each fold apart into its turns.
  For `dedupe_overlaps` follow that its result is disjoint, that a span more confident
  than all it overlaps comes in at its turn and stays, and that spans of one confidence
  are kept greedily, so that others which do not overlap them change nothing
  (`OthersDoNotMatter`); this gives `BestAreKept`. For `apply_spans`, `AfterTurns`
  says after each turn that what lies left of the last span is in its place and what
  is missing is what the spans so far cover; the next span ends left of it as the spans are
  disjoint. `ExactInvariant` carries that over the fields of a policy, as long as
  `clean` holds, and gives `RedactsExactly`. What `BestAreKept` needs of
  `dedupe_overlaps` holds of strays too. `inverse_position_remap` walks the same spans from left to right
  (`OrdersMirror`); `AfterCuts` says after each cut that the segments so far are a map
  of what lies left of it (`IsMap`: every place has a segment, the map rises, and it
  stays in the old text) and that each gap maps to its own characters, so that with the turns of `apply_spans`
  every surviving character is found where it was (`InverseFinds`). `Traced` composes
  these maps over the fields: besides each character's place it needs that the composed
  map rises, since the ends of a reported span may lie in text an earlier field put
  there. `MapsInvariant`, with `ExactInvariant`, gives `MapsBack`.

* `SpanProofs`, second part: the score. Whatever its labels, links and predictions are,
  it is made of sums over sets that no recursion names, so the proofs first say what
  a sum is. `SumFunction` is a fold over a set that takes its members in an order
  of its own choice; `SumFolds` writes that order down (`Picked`, `SubsetsReach`), and
  `SumBetween`, `SumGrows` and `SumCounts` give the bounds, the monotonicity and the
  value of a sum by the least turn at which the claim fails. `MergeBuilds` goes
  through `prediction_chars` turn by turn: the runs so far are apart and rise
  (`AreRuns`), the last starts no later than the next span (`StartsBy`), and they hold the
  characters of the spans so far, cut to the text. `GapsAre` does the same for
  `gap_runs`, and `FalseAreMaximal` shows that `false_positive_runs` are the longest
  stretches of a set of characters (`Maximal`), so that all three depend on characters
  alone. `IntersectIs` is the heart of the rest: a
  bisection on starts and on ends, sorted apart from each other and not merged,
  finds a span exactly if some prediction shares a character with it, since the
  predictions that end before it and those that start before its end are counted, and
  the first are among the second. With `CoverageIs` (a coverage counts the characters
  that a span shares with the runs) every term of a score depends on the
  predicted characters only (`SameScore`), is between 0 and its weight (`ScoreInside`),
  and grows with them where it should (`OneMoreHelps`). The inductive invariant is
  `ScoreInvariant`: an annotation lies in its text (`SplitIs`, for what
  `split_on_newlines` leaves of a span), and a structure or a score that is there is
  that of this annotation and this prediction; without it the properties would speak of
  any structure. It gives `RunsExact` and `ScoreIsSound`.

Only model-checked: the liveness properties `EveryJobSettles`, `OutageIsProbed`,
`CallsEnd`, `QueuedIsTaken`, `SlotIsReleased`, `TeardownEnds`, `LinkRecovers` and
`StreamEnds`, as fairness and ENABLED are out of the prover's reach. Every other
property of a run that passes is a theorem. Not proved and not stated as a
property is that the connectors (`Rule`, `Scan`) are the ones of the paper: the
theorems hold whatever they link.

## 5. Where code and documentation disagree

Three disagreements are runs of their own, with TLC's counterexample:

* a failed attempt is redelivered but not retried (`jobs_retry_lost`;
  `docs/architecture.md:80-81`);
* startup pruning loses lines another process writes (`audit_prune_race`;
  `app/audit/file.py:232`, `docker-compose.yml:22,77`);
* the regex strategy substitutes overlapping hits (`span_regex_overlap`;
  `app/redaction/apply.py:14-15`).

Others were met while modelling. Where the behaviour is in a model, the property
named in brackets carries it as an exception; the rest is described here only.

* Jobs. A worker that dies after its claim leaves a running job that a
  redelivery drops as successful (`docs/failure-modes.md:32` says another worker can
  claim it); ARQ's timeout cancels `run_job` past its handlers, so the job stays
  running (`docs/api.md:204-205` says it fails) [`EveryJobSettles` needs restarts]. A
  dead letter is written even if `set_error` found the job done. The reaper
  fails a job that was claimed after its age was read [`ClaimRespected` allows
  an executor of a failed job]. A record that expires unfinished leaks its slot
  (`docs/api.md:177-178`), and a repeated ADMIT_SCRIPT counts twice or answers 429 for
  a job that exists [`drifted`]. A repeated CLAIM_SCRIPT refuses its own delivery.
* Worker. A heartbeat is an HSET and then an EXPIRE: a worker that dies between the
  two of its first leaves a key that never expires and stays in
  `redax_active_workers` (`docs/observability.md:31-32` says 15 seconds). At
  shutdown `worker_main` suppresses neither `worker.close` nor `worker_stop`
  failing with a `RedisError`, and `teardown_state` is then not reached.
* Breakers. A cancelled probe keeps the shared slot until the hash expires
  [`ShedsWithReason`]; a late failure clears the slot of a running shared
  probe; a `RedisError` is not among the caught exceptions
  (`docs/failure-modes.md:19`); the default predicate counts every exception,
  against `breaker.py:14-15`; a repeated FAILURE_SCRIPT counts twice.
* Optional audit. With `REDAX_AUDIT_REQUIRED=false` a failed write is swallowed
  (`file.py:159-165`, `redis.py:93-103`), and without a backend none is tried: jobs are
  done, and requests answered and published, without an event, as
  `docs/failure-modes.md:21` says [`DoneIsAudited` and `SuccessIsAudited` speak of
  required mode].
* Redact endpoint. If the Redis link drops the client between reservation and
  completion (`store.py:183-187`, `main.py:306-312`), a keyed request skips
  completion, cache and release (`redact.py:358,377,425`) and answers 200: nothing can
  be replayed, and retries meet the abandoned lease (409) until its TTL and then execute
  again (`docs/integration.md:116-117` promises a replay) [the answer `"unkept"` in
  `KeyedResultIsPublished`; `LeaseIsGivenBack` asks that the link stands]. Record and lock are read and taken in two commands, so a key
  may execute again right after its completion (`idempotency.py:63` says
  atomically); an answer from the cache leaves no record
  (`docs/integration.md:116-117`); a Redis error in `reserve` is answered 500 where
  `docs/integration.md:121-123` says 503; a repeated SET NX is refused by its own
  token [`LeaseIsGivenBack`].
* File audit. In required mode two threads that rotate at once can lose a line
  or fail on a missing file, and `failed` then stays set [`MayRace` in
  `LogIsKept` and `HealthyDiskNeverFails`]; `stop` discards queued events when
  it runs out of time; a start next to a running process can bring a line back that a
  rotation has just moved, so that it is there twice [`OneCopy` excepts "overlap"]; backups are never pruned (`docs/deployment.md:153`).
* Redis audit and rate limit. A repeated script appends or counts twice
  [`AuditLeavesOnlyWhenDue`, `RateIsBounded`]; a call that arrives after its
  bucket expired is allowed over the limit [`RateIsBounded`].
* API process. `drain_event` is set by any idle moment and never cleared, so
  teardown does not wait by itself (`tests/unit/test_smoke.py:66`)
  [`NothingRunsClosed`]; a release in a background task is lost if sending fails
  [`SlotIsReleased`]; `readyz` answers ready with a pool that the Redis task dropped during its ping.
* Spans. Of two overlapping spans one is dropped whole, the rest of it is
  returned (`redactor.py:47`, `consensus.py:23`) [`BestAreKept`]; after
  overlapping regex hits the inverse map is off [`MapsBack`]. Only `Redactor.plain`
  calls `validate_offsets` (`redactor.py:114`): the pipeline (`pipeline.py:82-112`) and Deid
  (`strategy.py:242-256`) substitute what the model returned. An inverted span duplicates
  text, among it characters of other spans that were replaced; an empty one of higher
  confidence displaces a span around it; and then neither survivors nor reports map back
  [`clean` in `RedactsExactly` and `MapsBack`; in `BestAreKept` such a detection counts
  as a rival]. Rule 2 of `fuse` says that a model span that overlaps a regex span is kept
  if it is confident enough (`consensus.py:24-26`); the code always drops it
  (`Trusted`) [`SafetyNet`, a part of `BestAreKept`, rests on that].
* Streams. A client that leaves before `[DONE]` leaves an audited incomplete
  stream (`docs/failure-modes.md:29`); chunks are sent before the audit event
  can fail (`docs/deployment.md:124`).
* Inference and batches. A cancelled call gives its slot back while its thread runs
  on, so more threads than `inference_concurrency` use the model
  (`gliner2.py:63-66`) [`Inside` counts calls, not orphans]. The semaphore is
  shared by the loops of the pipeline's threads: two can pass a test for one
  slot, a waiter on a second loop gets a RuntimeError, a granted one may
  not wake, and two threads can pick the same waiter, or one pick a waiter whose
  deadline cancels it: the second `set_result` raises, its call fails, and its slot is lost
  for good [`SemaphoreExact` claims the exact count and the bound, and `CallsEnd` the
  end, on one loop only; across threads `SemaphoreExact` says that no slot is given twice].
  When an item fails, its siblings run on without a deadline (`batch.py:68`)
  [`NothingRunsLate`].
* Benchmark. `selected_contextual_spans` asks for a span within a pair to end at the
  closer, `fused_entity_groups` behind it (`fusion.py:8-9`); `score_document`
  passes predictions as merged that are not, which changes no score [`RunsExact`]; one
  more false positive can join two runs and raise the score
  (`test_wrong_predictions_never_increase_R` says never) [`ScoreIsSound` speaks of
  mandatory spans].

## 6. Plan

Written in this order, most important behaviour first: jobs, breakers, redact
endpoint, audit, API process, spans, the smaller parts. What is left:

1. Model: the worker's heartbeat and its gauges, the shared audit of several
   processes with `stop`, submissions that hold a pool the link closes,
   `disagreement.py` of the benchmark.
2. Properties: the bound of the dead-letter list with its writers in between, how
   long an event can overstay in the Redis list, what `stop` flushes.
3. Proofs: that the selection of contextual spans is the least set closed under
   components and pairs (`Pulled` stops there after as many turns as there are spans).

Not planned: what a model computes, regular expressions, cryptography, parsing of
policies and configuration, metrics, corpus scripts, the wasm demonstration and the
site. They keep no state that the core depends on; where their outcome matters
(a detection, a decode error, an integrity check) it is a choice in the models.
