# Chronoverse in TLA+

Chronoverse runs workflows: a user defines one, its jobs are scheduled in
PostgreSQL, dispatched over Kafka, and executed by workers under leases, in Docker
containers on runtime nodes or as HTTP heartbeats. This directory holds TLA+
modules of its services and workers, the TLC configurations that check them on
small instances, and proofs of the main properties for every instance.

Paths below are relative to the repository (`internal/...`, `docs/...`);
`PROJECT.json` maps every definition to the lines it models.

## The system: inventory

| Component | State it keeps | Operations | What must be right |
|---|---|---|---|
| Job table and leases (`repository/jobs`) | `jobs` rows: status, dispatch attempt, attempts, lease, runtime node, container | ScheduleJob, ClaimJob, RenewJobLease, CompleteJob, FailJob, CancelClaimedJob, ReleaseJobForRetry, CancelJob, RecoverExpiredJobLeases, lists and log reads | one owner per running job; one active job per workflow; terminal events match the status; bounded attempts |
| Scheduling worker (`repository/scheduler`) | none | a transaction that queues due jobs and inserts their dispatch events | at most one job of a workflow queued or running; none for a terminated workflow |
| Execution worker (`repository/executor`) | leases and handoffs in memory, execution slots | consume, claim, renew, run, settle; recover; reconcile handoffs; publish logs | a lost reply, a repeated record, a crash or a late renewal neither loses a job nor runs it twice under one lease |
| Runtime nodes and agents (`repository/runtime`, `cmd/runtime-agent`) | `runtime_nodes`: status, heartbeat, running_jobs | register, heartbeat, mark unhealthy, drain | a slot is taken and returned exactly once; the status follows the node's health; a stopped node is draining |
| Outbox and relay (`pkg/outbox`, `repository/outboxrelay`) | `outbox_events`: status, attempts, claim | insert, claim, publish, settle, cleanup | no committed event is lost silently; order per Kafka key |
| Workflow service (`repository/workflows`, `service/workflows`) | `workflows`: generation, build status, terminated_at, failure count; cache entries | create, update, build status, terminate, delete, failure count, cached reads | the chain of automatic jobs neither ends nor forks; failures count once; the cache becomes fresh |
| Workflow worker (`repository/workflow`) | Redis locks | build, reschedule, job-terminal, terminate and delete events | idempotent under redelivery, crashes and expired locks; every event is handled |
| Kafka partition runner (`pkg/kafka`) | lanes, queues, pause reasons | dispatch, process, commit, assign, revoke | nothing committed before it is settled; no partition paused for ever |
| Command ledger (`pkg/commandidempotency`) | one row per command, identities for a rollback | Reserve, Complete, sync, expiry, cleanup | a command takes effect once and is answered with its own result |
| Container and heartbeat kinds (`pkg/kind`) | containers, log streams, Docker clients, requests | execute, wait, stream and replay logs; egress policy, redirects | every line published once, nobody waits for ever, no protected address is reached, no client leaks |
| Image pulls (`pkg/imagepull`) | a Redis lock per node and image | Ensure: inspect, lock, pull, renew, release | one cold pull at a time; every caller returns |
| Job log pipeline (`repository/joblogs`) | ClickHouse rows, search documents, counters, offsets | store, count, delete | committed logs are stored, deleted ones are gone, a line counts once |
| Analytics (`repository/analyticsprocessor`, `repository/analytics`) | counters per workflow, processed events | count, clean up, answer | nothing counted twice; answers add up |
| Users, sessions, signing keys (`service/users`, `server`, `pkg/auth`) | sessions in Redis, cookies, key files, trusted bundles | register, log in and out, CSRF, refresh, rotate keys | valid sessions and tokens are accepted, ended ones are not; calls run as their caller |
| Notifications (`repository/notifications`) | rows | create, list, mark read | one per event |
| Migrations, dashboard, clients, telemetry | | | not modelled, see the end |

How they interact: a service writes its rows and its outbox events in one
transaction; the relay copies outbox rows to Kafka; partition runners feed the
records to the workers, at least once; the workers call the services over gRPC
with commands that carry idempotency keys. The scheduler and the runtime agents
write PostgreSQL directly. The shared state is in PostgreSQL and Redis, so the
hard behaviours are interleavings of transactions (and of the statements of one
transaction, where no lock is held between them), leases and locks that run out
under a process that is still working, replies that are lost after a commit,
records that arrive late, twice or out of order, caches filled with what was read
before a write, and processes, nodes and keys that are replaced while others still
rely on the old ones. Inside a process they are goroutines that wait on each other's
channels and mutexes that are released around a call. `PROJECT.json` lists the
hazards with the properties that would catch them.

## Modules

| Module | Models | Proofs |
|---|---|---|
| `JobTable` | the rows of jobs, runtime_nodes and workflows that decide who may run a job, one action per transaction | `JobLease_proofs` |
| `JobLease` | execution workers over `JobTable`: dispatch records, ClaimJob statement by statement, leases in memory, handoffs, recovery, crashes | `JobLease_proofs` |
| `JobLifecycle` | the abstract specification of one job: status, owner, epoch and runs; `JobLease` implements it | |
| `OutboxRelay` | one topic of the outbox, the relays, the Kafka log | `Kafka_proofs` |
| `PartitionRunner` | one Kafka partition, the runner that consumes it, the rest of its group | `Kafka_proofs` |
| `WorkflowLifecycle` | one workflow, its events and its chain of automatic jobs | `WorkflowLifecycle_proofs` |
| `JobLogs` | publication, storage, counting and deletion of logs | `Kafka_proofs` |
| `ContainerRun` | one container run: daemon, goroutines of Execute, executor, log replay | |
| `HeartBeat` | one heartbeat request: names, addresses, NAT64, redirects, timeouts, classification | |
| `ImagePull` | Ensure, its Redis lock and the shared pull | `ExecutionWorker_proofs` |
| `EndpointCache` | the Docker clients of a process | `ExecutionWorker_proofs` |
| `HandoffGate` | execution slots and the handoff registry of a process | `ExecutionWorker_proofs` |
| `RuntimeAgent` | the agents of one node and its row | |
| `Analytics` | counters, deduplication, cleanup, the answers | |
| `Paging`, `Listing` | keyset pagination; lists over a table that changes | `Serving_proofs` |
| `LogReads` | log pages, searches and downloads over `Paging`, with their cache | `Kafka_proofs` |
| `ReadThrough`, `WorkflowReads`, `UserReads` | cache, singleflight and background goroutines; the reads and writes of two services on top | `Serving_proofs` |
| `AuthKeys`, `Sessions` | a signing key and its rotation; browser sessions on top | `Sessions_proofs` |
| `Access` | routes, interceptors and who may call what as whom | `Serving_proofs` |
| `Serving` | what a request meets in the server: `Access`, `Listing` and the two cached services | `Serving_proofs` |
| `CommandLedger` | idempotent commands of every service | `CommandLedger_proofs` |
| `MCServices` | instances for TLC; the services side by side | `Services_proofs` |
| `MCJobLease`, `MCPartitionRunner`, `MCWorkflowLifecycle`, `MCPipeline`, `MCWorker` | instances for TLC | |

`JobLease` extends `JobTable`; `Sessions` extends `AuthKeys`; `WorkflowReads` and
`UserReads` extend `ReadThrough`; `Listing` and `LogReads` extend `Paging`.
`MCWorkflowLifecycle` extends `WorkflowLifecycle`, `MCWorker` extends `HandoffGate`,
`EndpointCache` and `ImagePull`, `MCPipeline` extends `OutboxRelay`, `JobLogs` and
`LogReads`, and `MCServices` extends `Serving`, which extends `Listing`, so that TLC checks
the very properties that are proved. `MCPipeline` has log reads in both directions of the
query: the module it extends reads upward, its instance `Dashboard` downward, over the same
variables. What `MCServices` instantiates more than once (the ledger, the sessions,
overlapping handlers) it takes from the modules with the proofs, and `Services_proofs` cites
them for each instance.

Definitions whose names end in `Faulty` (or say `OutOfOrder`, `Late`, `Adds`,
`Unbounded`, `Unknown`, `NoClientTimeout`, `cancelStaleWorkflowJobsRunning`) are
deliberate mistakes. They are used nowhere; substituting one for its original
shows that a property notices the mistake.

### Instances that hold several components

`MCPipeline`, `MCServices` and `MCWorker` hold several components, or several instances of
one, side by side: `part`, which is chosen in the initial state and never changes, says
which one moves. The components share no variable in these models; what one sees of the
others (events that arrive twice, a workflow that is deleted, a call that fails) is a step
of its own module. Hence a property that speaks of one component holds in every
interleaving of all of them exactly if it holds in the behaviours in which the others
stand still, and TLC adds the state spaces up instead of multiplying them. A part that
stands still has one initial state. Fairness is stated per part, in the behaviours in
which it moves. For `MCServices` the argument is carried out: `Services_proofs` proves the
four properties of the services together, as invariants of `ServicesSpec`.

What the compositions themselves are: `JobLease` composes the job table, the
scheduler, runtime nodes and several execution workers; `WorkflowLifecycle` the
workflow service, the workflow worker, the scheduler and executions; `JobLogs` the
log publisher, the processor, its stores and the workflow worker's deletion;
`Analytics` the two processors that write one table and its readers; `Sessions`
browser, server and signing keys; `Access` gateway, services and workers.

### JobTable and JobLease

*Atomicity.* An action of `JobTable` is a transaction: its updates are guarded by
predicates that PostgreSQL re-evaluates on the locked row, so two transactions
that write the same row are serialized there. ClaimJob is different: when its claim
statement finds no row, `rejectJobClaim` runs three more statements with no lock on
the job and READ COMMITTED visibility, so these are four actions
(`ClaimStatement`, `DeferStatement`, `RuntimeStatement`, `StatusStatement`) with
`claimTx` as their program counter, and `RollbackClaim` between any two. The
scheduler's statement and the claim statement are each taken as one step, although
subqueries of one statement are evaluated on the snapshot of its start.

*Time.* A lease is live or expired, a heartbeat fresh, stale or lost, a pending job
due or not: the statements compare nothing else. `LeaseExpires`, `HeartbeatAges` and
`BecomeDue` are the clock.

*Tokens.* `grants` counts the tokens ever issued for a job, and a token is its number;
the code draws random ones, and compares them only for the job they belong to.

*Memory of a process.* `held` has an entry for each lease with how the process came
by it: "claimed", "recovered" (the runtime answers), "unavailable" (it does not), or
"awaiting": a claimed job whose execution ended without settling it stays in the
handoff registry until `reconcileHandoffs` finds that the lease has moved on.

*Outcomes.* The result of an execution is a free choice: completed, user failure,
system failure (released below `SystemRetryLimit`, failed at it), workflow found
terminated, or given up (`AbandonLease`). Recovery offers the outcomes the code
has: a container that had exited gives completed or failed, everything else a retry.

*Delivery.* `dispatched` only grows and any process may take any record of it at any
time: this is late, repeated and reordered delivery at once. A reply that carries a
token may be lost, after a claim and after a recovery.

*Bounds.* `MaxDispatch` bounds dispatches of a job, `SystemRetryLimit` its attempts
(as the configuration does), and `MaxGrants` how many grants of a job may meet a late
renewal, a lost reply or a process that gives up. A workflow is terminated at most once
here and is not revived; that is in `WorkflowLifecycle`.

### WorkflowLifecycle

A command of the workflows service is one transaction. A handler of the workflow
worker is a sequence of calls (`handler[w].pc`), each a step, so that commands,
executions and, with `Overlap`, a second handler of the same record run between any
two of them: the read of the workflow comes before the lock, the three listings of the
termination sweep are three steps, DeleteWorkflow reads and deletes in two. Events are a
sequence `log` with a committed position; a handler that fails or crashes leaves its
record to be delivered again. A lock may run out under its handler (`LockExpires`),
and the release that follows removes the lock of the next one, because every lock
holds the same value. Executions schedule the next automatic job first
(`MaxNext` bounds the chain), may be released for a retry, and report their outcome,
which the worker turns into the failure counter; `effect` records what each job's
outcome has done to it. Leases and nodes are left to `JobTable`.

The history variable `root` is the generation whose event started the chain of a job. An
update cancels what waits, but a RUNNING job survives it and, if it is put back for another
attempt, is dispatched in the new generation. `OneChain` says how far this goes: every chain
has one end, and beside the current one there is at most the one of that job. `MaxTrouble`
(`MCWorkflowLifecycle`) bounds the faults and the jobs that are tried again, together.
Deleting the logs holds the lock of the event like the other handlers; what it deletes is in
`JobLogs`.

`ChainAlive` and `OneChain` are checked with one handler at a time, `OneChain` is proved
without that condition; what overlapping handlers do to ChainAlive is among the deviations
below. That two handlers of one record
count a failure once is checked in `services` (part "overlap").

### OutboxRelay

The three steps of publishing an event (hand over, outcome, row update) are separate
actions. After the hand-over a record may reach the log at any time, also when
ProduceSync has returned an error. Every claim increments `attempts`, so the value a
claim returned identifies it as its random token does. Rows become visible in any
order of `created_at`, since that is the start of the inserting transaction; `late`
records the rows that appeared after a later row of their key had been claimed.
`MaxLosses` bounds lost batches and leases that run out under a working relay. A claim
takes any non-empty part of the claimable rows, at any time. The Kafka log is a
set: the properties are about first occurrences, since repeated records are
possible by design.

### PartitionRunner

Three kinds of goroutines meet: `Run` (`step`, `polled`, `target`), the lanes (`ctl`,
`queue`, `batch`) and the client's rebalance callbacks (`assign`, `revoke`). Their
steps are cut where the code releases a mutex or calls out: between `PollFetches` and
`laneFor`, between `laneFor`, `enqueue` and `setPaused`, between reading the
length of the queue and acting on it, between the flags of `setPaused`, its ownership
check and the call of the client, around the processor, and between the ownership
check of `commit` and CommitRecords. One assignment has at most one lane, so lanes
are numbered by assignment; earlier ones may still be inside the processor. `handled`
holds the records whose processing is settled: the processor succeeded or failed with
a code that `ShouldCommitOnError` lets through, for one record or for a batch.

External: the group. While the partition is elsewhere another member consumes it in
order (`OtherMember`). A commit is taken from a lane that is not canceled; one whose
request was on its way when the partition was revoked is taken until another member
has the partition (`fenced`), and its answer may be lost either way. After a new
assignment the context of the lane is the only guard: the coordinator does not check
which member owns a partition.

The client is built without BlockRebalanceOnPoll (`kafka.go:46`), so the group may rebalance
at any moment, also between a poll and its dispatch: a partition that is revoked and
assigned again there gets the polled records into its new lane. Two history variables follow
this: `pollSession`, the assignment that a poll read under, and `strayed`, the records that
entered the lane of a later one. The three safety properties except what such a record
causes, and nothing else. `MaxSessions` bounds assignments, `MaxFailures` retryable errors
and failed commits. Lanes of different partitions share nothing but `Run` and the map.

### JobLogs, ContainerRun and LogReads

`ContainerRun` has the daemon (`network`, `container`, `output`), the steps of Execute
with its two channels, and the log stream: the demultiplexer, a scanner per stream,
and the forwarder that numbers lines, once live and once as a replay. Each blocks where
the code's unbuffered channels and pipes do, and the deadline or a cancellation may
come at any moment. `Script` gives the kind of each line: text, blank (published by
neither) or longer than the scanner's buffer, which ends its stream.

`JobLogs` takes lines from there, in batches with bounded retries, through one
partition into two stores. A Meilisearch write is a task in a queue, done some time
after its caller may have stopped waiting; a lane that lost its partition may still
have a call under way. Deletion of a workflow is the event handler of the workflow
worker, which deletes from both stores while batches arrive. `MaxLogFaults` bounds failed
calls, timeouts and crashes. The partition moves on to a lane that never had it, so there
are fewer rebalances than `LogLanes`. `LogBatchSize` is both the publisher's and the
processor's batch size.

`LogReads` reads pages of both stores while rows arrive, caches those the service takes
for stable, and has the client follow cursors to the end. Rows are ordered as the
query orders them, with the event ids of later attempts first. Every attempt numbers its
lines from 0, so the rows of a retry go in between earlier ones, and a row may come after
the one-minute buffer that keeps a finished job's tail uncached. `untimely` records the rows
that did either, `behind` what a reader is owed and a cached page it was given did not yet
know of; a reader may miss a row only if it is both.

### Listing and Paging

`Paging` says what a page and its cursor are, in any total order; `Listing` lets rows
appear and disappear between the pages of several readers. `stable` are the rows
that were there all the time: a reader that reaches the end has seen all of them.

### ReadThrough, WorkflowReads and UserReads

A read looks into Redis, joins the query of a concurrent caller or starts one, and
leaves cache writes to goroutines that may run much later. A value is the number of the
commit that made it, so freshness is a comparison. Callers may be canceled, queries
fail, entries expire (`Expire`, the TTL). WorkflowReads adds the seven writes of the
workflows service and the replay of a creation, UserReads login, registration, and
the update that deletes its entry before it returns. The two services have their own
processes and caches, hence their own bounds in `Serving`: `WorkflowCallers`,
`UserCallers`, `WorkflowCommits`, `UserCommits`; `AskedKeys` are the reads of a workflow's
callers.

### AuthKeys, Sessions and Access

`AuthKeys` follows `scripts/compose/rotate-auth-key.sh` file by file; every service keeps
the keys it read when it started, and any of them may restart between any two steps, by its
supervisor and not as the procedure says; the next rotation may start before the kids of the
last one are pruned. `Grace` is how long the operator waits before that, shorter than a
session by default. `Sessions` adds the cookies of one browser, Redis with expiry, and the
checks that a request passes one after the other while other tabs log in and out. `Access`
lists routes with their middlewares, the methods each calls, the internal methods, and the
audiences of the services' tokens; a call passes the gateway, the metadata interceptors and
the verifier, over connections that are shared (`Inflight` requests of `Accounts` at a
time).

### CommandLedger

One transaction reserves the key, runs the command, completes the reservation and
commits; `lock` is the key's row lock in PostgreSQL. Kind selects the command and
its specialities: rows from before the ledger that are adopted, keys and UUIDs in
several spellings with their compatible hashes, identities kept for a rollback of
migration 11, registration whose hash leaves the password out, and cancellation whose answer
describes the job before it. A call may fail before or after its commit and its reply may
be lost; the clock expires rows, which the cleanup deletes.

### Inside a worker: HandoffGate, ImagePull, EndpointCache, HeartBeat, RuntimeAgent

`HandoffGate` is one process: partition lanes inside processRecord, slots, entries that
are reserved, claimed, awaiting reconciliation or consumed, and the executions that own
them. The jobs service answers "claimed" to a repeated command as long as the lease lasts.
`MaxEntries` bounds the entries ever made; the instances never reach it. `ImagePull`
counts down the lock's TTL, the wait and the renewal interval; Redis may lose keys and
replies. `EndpointCache` is cut where its mutex is released: constructions, evictions and
Close interleave. `HeartBeat` lets DNS answer differently each time it is asked and spells
addresses as bytes, so that the embedded IPv4 address of each NAT64 prefix length is
computed as the code does; it ends with classifyExecutionFailure. `RuntimeAgent` has the
agents of a rolling restart report to one row.

### Analytics

The analytics topic may hold an event twice and deliver it to two instances around a
rebalance; an UPSERT may take effect although its caller sees an error. The log
transactions of the job log processor insert sorted keys and then lock counter rows in
map order, so two of them can deadlock; PostgreSQL then rolls one back. A key is
cleaned up when it is old (`aged`), which the model lets happen only when no record
with it is left to be handled: the retention of keys (336h by default) is to outlive
that of the topics (168h), as `docs/operations.md` asks. Reads take three queries with
events counted in between, in one REPEATABLE READ transaction.

## Runs

Every run finishes within a few minutes. Deadlock checking is off: with every counter at
its bound and every job ended the models stop.

| Run | Instance | Shows |
|---|---|---|
| `job_order` | 2 jobs of one workflow in either insertion order, 1 process, 3 dispatches, 2 attempts, 2 grants with trouble (205 000 states) | OneActivePerWorkflow, TerminalEventsMatchStatus, TerminatedNotResurrected |
| `job_owner` | 1 container job, 2 processes, 1 node, 2 dispatches, 2 attempts, 1 grant with trouble; fair (435 000 states) | TypeOK, OneOwner, SlotsMatchRunningJobs, AttemptsWithinLimit, ImplementsLifecycle (the refinement), RunningJobEnds |
| `claim_rejection` | 1 container job, 1 node, 1 process | a violation, see below |
| `partition_commit` | 3 records, 2 assignments, buffer 2, batches of 2, 1 failure, rebalances at any moment (2.9 million states) | CommittedPrefixHandled, HandledInOrder, CommitNeverRewinds |
| `partition_stuck` | 3 records, 1 assignment, buffer 2, batches of 2; fair | a violation of AllCommitted, see below |
| `workflow` | 1 CONTAINER workflow, 3 jobs, 1 worker, 2 commands, 1 fault or job that is tried again, 2 generations, 2 failures allowed, 2 attempts (2.6 million states) | ChainAlive, OneChain, FailuresCountedOnce |
| `pipeline` | outbox: 3 events of 2 keys, 2 relays; logs: 2 workflows or 2 lanes; readers of 4 rows of 2 attempts, upward and downward, page size 1; analytics: 2 jobs, 2 consumers, or 2 log lanes that share lines, or a reader (1 million states) | PublishedWasProduced, KeyOrder, LogsStoredOnce, ReaderSeesStoredRows, CountedOnce |
| `pipeline_live` | 2 events, 2 lines in one batch, 2 log lanes; fair (83 000 states) | EverythingArrives |
| `services` | lists of 4 rows, 2 readers, pages of 2; 2 callers, 2 writes; 2 tabs and 2 logins, or a rotation of the key with 2 verifiers and a session longer than the grace; 2 rotations; every route and call; update, notification, registration and cancel commands with up to 3 calls; 2 workflow workers with the same record, 2 jobs and 2 attempts (1.2 million states) | NothingSkipped, PagesAdvance, ReadsHonest, CredentialsHonoured, CallsAuthorized, CommandsOnce |
| `services_live` | 3 writes, 2 callers, 2 rotations, 2 calls of a manual job, a workflow with 3 jobs; fair (32 000 states) | EventuallyFresh, EveryCallAnswered, SignerRecovers, EventsHandled |
| `worker` | 2 jobs on 2 lanes with 2 slots; 3 tasks in 2 processes; 3 endpoints for a cache of 2; a request with a redirect over nested NAT64 prefixes, and all six prefix lengths; container runs: 2 streams with an oversized line, or a replay; 2 agents (1.3 million states) | HandoffsAccounted, PullsExclusive, ClientsOwned, RequestsConfined, RunsAccounted |
| `worker_live` | the same with 1 slot, 1 registry entry, 2 endpoints for a cache of 1, a stream of 2 lines, and a partition whose buffer holds its 3 records; fair (101 000 states) | EveryRecordCommitted, WorkEnds, RunReturns, NodeStatusTrue |

`workflow` has a workflow of kind CONTAINER, whose build has every step; a HEARTBEAT
workflow, which leaves out those of the image, passes too (2.1 million states), and one is
in `services_live`. The clause of `OneChain` that there is no third chain needs a third
generation. That instance (`MaxGeneration` = 3, 7.4 million states) passes too, but takes
longer than a run should; the theorem OneChainEach covers every number of generations.

The properties of the union modules are conjunctions, with a comment for each conjunct,
of properties that their components' modules define and explain
(`LogsStoredOnce` is CommittedLogsStored, EachLineCountedOnce and DeletedLogsGone of
`JobLogs`, and so on); they include the components' type invariants.

Why the bounds are enough to be interesting: two jobs and three dispatches give a
deferral followed by a new dispatch and a stale record of the first; a grant with trouble
and two processes give an owner, a lost reply or late renewal, a recoverer and the return of
the first; two events of a key and a loss give a lease that runs out under its relay; two
assignments give a lane that outlives its partition and a poll that outlives its
assignment; two attempts a job that is put back before or after an update, and rows that go
in between cached pages; two
commands after a creation give an update or a termination during a build or an
execution, followed by another; three calls of a command give one in progress, a retry,
and one after the expiry; two rotations give an entry that names the file of a later
key; three endpoints for two places give an eviction while two constructions are under
way; a registry and a pool of size one are full at once.

### The violations

`claim_rejection` checks what `rejectJobClaim` says when it records "dispatch attempt
mismatch" (`internal/repository/jobs/lease.go:1337`): that the dispatch it turns down is
over. TLC finds: the claim statement misses because no runtime node is eligible; the
deferral does not apply; a node registers; the runtime check now finds a node; the job
is QUEUED, hence "mismatch", and the rejection is recorded and the Kafka record
committed. The job is QUEUED under exactly that dispatch attempt and nothing sends it
again: the scheduler selects PENDING jobs and passes over a workflow that has a QUEUED
one, and recovery looks at RUNNING jobs.

`partition_stuck` checks that a backlogged partition is consumed to its end, as
TestPartitionRunnerDispatchesOtherPartitionsWhenLaneBacklogged expects. `Run` finds the
queue at its buffer and sets the flag; before it calls PauseFetchPartitions the lane takes
the whole queue, clears the flag and resumes; then the pause reaches the client. The
flags say that the partition is not paused, its queue is empty, and nothing resumes it
until the next rebalance. In the deployment this takes a batch that empties the queue
to half its buffer between two statements of `Run`: rare with single records and the
default buffer of 1024, less so for the job log worker, whose batches hold up to 1000.

### Further deviations

The modules state more than the runs check: the following formulas are violated
in larger or differently configured instances, as TLC showed during the development. They mark
where the checked properties above have to be read with their conditions.

| Formula, instance | What happens |
|---|---|
| `HandledInOrder`, `CommittedPrefixHandled` and `CommitNeverRewinds` without their exception for `strayed`, 2 records, 2 assignments | `docs/architecture.md:196`: "Partition-aware Kafka workers preserve per-partition ordering". A partition revoked and assigned again between PollFetches and `laneFor` (`partition_runner.go:386`) puts the old records into the new lane, ahead of those read again from the committed offset: the later record is settled first, its commit takes the offset past the earlier one, and the commit of the earlier one, read again, takes it back. A crash in between skips the earlier one. The runs and the theorems confine this to records with such a stray behind them. |
| `OldGenerationNeverSchedules`, `RetryLimit` 2 | `docs/architecture.md:180`: "Workflow generations guard stale ... scheduling". A RUNNING job survives an update; its retry is dispatched with the workflow's new generation (`scheduler.go:137`) and schedules a follow-up next to the new chain. `EXECUTION_WORKER_SYSTEM_RETRY_LIMIT` is 3 by default. `OneChain` says what is left of the guard: one such chain at most, from the job that was running at the update or put back by then. |
| `ChainAlive` with `Overlap` | The build handler reads the workflow before it takes the lock (`build_workflow.go:60`, `:101`); a second handler of the record that read QUEUED cancels the job the first one scheduled, and its own ScheduleJob is a replay: a built workflow without a job. |
| `NoOrphanPending` | `docs/operations.md:488`: termination "cannot leave orphan `PENDING` rows". A job deferred from QUEUED to PENDING between the two listings of the sweep (`lease.go:223`) is in neither. |
| `NoRunningJobDeleted` | `workflows.go:826`: "Only terminated workflows with no RUNNING jobs may be deleted." A QUEUED job is claimed between the SELECT and the DELETE. |
| `RepeatedTerminationCleansUp` | `workflows.go:750`: a retry "can still enqueue the terminate cleanup event". Its event has the same key, which ON CONFLICT DO NOTHING drops. |
| `DeletedLogsGone` after a rebalance, 2 lanes | An insert of a revoked lane arrives after the DELETE event and after the next lane's second check. |
| `ReplayKeepsKeys` with 2 streams | `docs/architecture.md:162`: "deterministic log event IDs". The sequence numbers depend on which scanner reaches the forwarder first, so a replay may number the lines differently (`docker.go:732`). |
| `OneContainer` with `LossyCreate`, 2 faults | `docker.go:510`: "a missing network proves no container was created". The answer to a create is lost and the network pruned before it is looked for. |
| `SuccessHasAllLogs` | `docker.go:577`: the deadline also runs during the drain, so a run that exits 0 may lose the rest of its lines. |
| `ReaderSeesStoredRows` without `behind` and `untimely`, two attempts | `service/jobs/jobs.go:676` ("Cache only stable cursor pages") caches pages that have a successor; a second attempt numbers its lines from 0 and adds rows in their middle, which a reader that starts later misses until the pages expire. A cached tail misses rows that arrive after the buffer. |
| `UncachedReadsFresh` | A caller of GetWorkflowByID joins a query that read the row before a write the caller has seen. |
| `SessionAccepted` without its second exception, `Grace` below `SessionLife` | `rotate-auth-key.sh:224` prunes old kids "After grace period (15m, token expiry)"; `docs/configuration.md:248`: "Sessions live a fixed 2h from login". The token in the cookie is still looked up by its kid, so that a session may end 15 minutes after its login. |
| `TokensHonoured` without its first exception | `rotate-auth-key.sh:221`: "Next steps (verifier-first)". A signer that its supervisor restarts after the new kid is published and before the verifiers are restarted signs with a key they do not have; its tokens are refused until the operator restarts them. |
| `PullFailureIsTheRegistrys` | A task that joins a pull whose starter was canceled is told IMAGE_PULL_FAILED (`docker.go:904`). |
| `TimeLimitIsTheRequests` | The dial's own timeout of ten seconds is reported as TIME_LIMIT_EXCEEDED of a longer request (`heartbeat.go:463`). |

### Fairness

`JobLease`: weak fairness of the clock (an unrenewed lease expires, a heartbeat ages)
and of ending an execution (executions have a timeout and every call a deadline);
strong fairness of recovery per job, because every live worker polls at an interval
(15 s) below the time a heartbeat stays fresh (30 s), so it meets a node that is
reachable again and again. One process is always alive. Nothing is assumed of the
runtime agents or of dispatch. A recovery that fails for ever against a runtime
that answers (each inspection or log replay errs) is excluded by `MaxGrants`: the code
would retry it for ever.

`OutboxRelay`: weak fairness of claiming each claimable row (relays poll, oldest rows
first), of each relay's progress through its batch, and of the clock. Nothing is
assumed of Kafka: produce calls may fail until rows are DEAD.

`PartitionRunner`: weak fairness of `Run`, of each lane and of each pending client call,
of the other members of the group, and of leaving the group after a shutdown. Rebalances
and shutdown are not assumed to happen: a partition must not need one to go on.

`JobLogs`, `ContainerRun`, `HandoffGate`, `ImagePull`, `EndpointCache`, `HeartBeat`,
`RuntimeAgent`: weak fairness of each goroutine (one conjunct per goroutine or lane,
never of a failure), of the clock and the deadlines, and of Meilisearch's task queue. Of
Docker, DNS, Redis and the remote host nothing is assumed; where they never answer, a
timeout of the code ends the wait. Strong fairness: a lane that waits for an execution
slot gets one in the end (the runtime queues senders on a channel in order), and a
statement that waits for a row of the analytics table again and again gets it.

`ReadThrough`: weak fairness of background goroutines, of expiry (every entry has a
TTL), and of a call's own steps; strong fairness of the query, which a caller's
cancellation may interrupt. `AuthKeys`: the operator goes on with a procedure that was
started and the supervisor restarts a signer that exited, again and again. `CommandLedger`:
weak fairness of each call's next step, retries of its client included.
`WorkflowLifecycle`: weak fairness of the worker's handler, of executions, and of the
expiry of locks; crashes and failed calls are bounded by `MaxFaults`.

## Proofs

For every value of the constants that satisfies the modules' ASSUMEs and the hypotheses
named below: any number of jobs, processes, lanes, calls, keys, retries and faults. Each
`_proofs` module states its inductive invariant with a comment for each part, and proves
that one step of each action keeps it.

| Theorem | Statement | Rests on |
|---|---|---|
| **`JobLease_proofs`** | | |
| TypeCorrect | `Spec => []TypeOK` | TableInv, HeldTokens |
| LeaseOnlyWhileRunning | `Spec => []LeaseWhileRunning` | TableInv |
| SingleOwner | `Spec => []OneOwner` | HeldTokens |
| SlotsAccounted | `Spec => []SlotsMatchRunningJobs` | TableInv |
| EventsMatchStatus | `Spec => []TerminalEventsMatchStatus` | TableInv |
| AttemptsBounded | `Spec => []AttemptsWithinLimit` | FreshJobs, Moves |
| WorkflowExclusion | `Spec => []OneActivePerWorkflow` | Moves |
| NoResurrection | `Spec => TerminatedNotResurrected` | Moves |
| LifecycleImplemented | `Spec => ImplementsLifecycle` (the refinement of JobLifecycle) | Moves |
| **`Kafka_proofs`** | | |
| PublishedRowsProduced | `RelaySpec => []PublishedWasProduced` | OutboxInv |
| PerKeyOrder | `RelaySpec => []KeyOrder` | OutboxInv |
| ClaimsGuardRows | `RelaySpec => ClaimGuardsRow` | OutboxInv |
| NothingSkipped | `Spec => []CommittedPrefixHandled` | IndInv |
| SettledInOrder | `Spec => []HandledInOrder` | IndInv |
| OffsetNeverRewinds | `Spec => CommitNeverRewinds` | IndInv, Forward |
| StaleLanesNeverCommit | `Spec => StaleLaneNeverCommits` | IndInv, SessionInv |
| JobLogsSafe | `LogsSpec => []LogsStoredOnce` | LogsInv, CleanInv |
| ReadersSeeStoredRows | `ReadsSpec => []ReaderSeesStoredRows` | LogReadsInv |
| **`Serving_proofs`** | | |
| ListingTypeCorrect, ListingComplete, ListingOrdered | `Spec => []TypeOK`, `Spec => []NothingSkipped`, `Spec => []PagesAdvance` | BehindCursor |
| **`Services_proofs`** | | |
| CommandsTakeEffectOnce | `ServicesSpec => []CommandsOnce` | LedgerInv of each instance, FailuresAreCountedOnce |
| CredentialsAreHonoured | `ServicesSpec => []CredentialsHonoured` | the theorems of `Sessions_proofs` |
| ReadsAreHonest | `ServicesSpec => []ReadsHonest` | WorkflowInv, UserInv |
| CallsAreAuthorized | `ServicesSpec => []CallsAuthorized` | AccessInv |
| **`WorkflowLifecycle_proofs`** | | |
| TypeCorrect | `Spec => []TypeOK` | BaseInv |
| FailuresAreCountedOnce | `Spec => []FailuresCountedOnce` | FailInv |
| OneChainEach | `Spec => []OneChain` | OriginInv |
| ChainGoesOn | `~Overlap` implies `Spec => []ChainAlive` | AliveInv |
| **`ExecutionWorker_proofs`** | | |
| HandoffsAreAccounted | `Spec => []HandoffsAccounted` | HandoffInv |
| ClientsAreOwned | `CacheSpec => []ClientsOwned` | CacheInv |
| PullsAreExclusive | `RenewInterval < TTL` implies `PullSpec => PullsExclusive` | PullInv |
| **`CommandLedger_proofs`** | | |
| CommandTakesEffectOnce | `Spec => []OneEffect` | LedgerInv |
| NothingLeftInProgress | `Spec => []NothingInProgress` | LedgerInv |
| AnswersAreOwn | `Spec => []AnswersOwnRequest` | LedgerInv |
| IdentitiesFollowRows | `Spec => []RollbackIdentities` | LedgerInv |
| CancellationsReportTheRun | `Spec => []CancelReportsTheRun` | LedgerInv |
| **`Sessions_proofs`** | | |
| KidsMeanOneKey | `KeysSpec => [](KeysTypeOK /\ OneKeyPerKid /\ SignsWithItsKid)` | KeysInv |
| SessionsTypeCorrect | `Spec => []TypeOK` | KeysInv, SessInv |
| ConfirmedLogoutHolds | `Spec => []LoggedOutStaysOut` | SessInv |
| TokensOutliveRotations | `Spec => [](TokensHonoured /\ SessionAccepted)` | VerifierFirst, MintedInv, TokenInv |
| TabsAgree | `CsrfLife >= SessionLife` implies `Spec => []TabsShareToken` | TellInv |

**Job table and leases.** One lemma per transaction shows that it keeps `TableInv`, the
conjunction of TableTypeOK, LeaseWhileRunning, SlotsMatchRunningJobs and
TerminalEventsMatchStatus. These are inductive together: returning a slot is right only
if the job holding it was counted, which rests on the lease being there exactly while the
job is RUNNING. OneOwner is not inductive: a token held by a process whose lease moved on
could come back. The strengthening `HeldTokens` says that every held token of a job is at
most `grants`, and that the current one is held only by the owner in the row; `FreshJobs`
that a job not yet inserted has had no attempt. `Moves` describes what any step may do to
a row, and serves both `AttemptsWithinLimit` and the refinement.

**Outbox.** KeyOrder is not inductive, because it speaks of the log while the order is
decided by the claim: `ClaimedInOrder` says that once a row was claimed the earlier rows
of its key are out, and `BatchCounted` and `SentCounted` tie the log back to claims.

**Partition runner.** Neither CommittedPrefixHandled nor HandledInOrder says anything about
the records on their way, so neither is inductive. `Orders` does: a record in the batch of a
lane, in its queue or polled for it comes after every smaller offset that is not settled, in
that same path, and everything below the fetch position is settled or on the path of the
current lane; `Shape` says in which states a lane has a batch and when it is settled. The
lemma `Take` covers popBatch and drain at once. That the offset never goes back needs more:
a commit is issued from a batch taken long before. `Forward` says that as long as a commit
of the lane can still be accepted, its batch, its incoming records and the fetch position
follow each other, from the group's offset on, each no further back than the one before
unless a stray is at or after it (`Low`). Polled records count as the lane's own only while
the assignment they were read under lasts (`Fresh`); once they enter a later lane they are
in `strayed`, and every record before them is excused (`Cleared`). No theorem has a
condition on when the group rebalances.

**Job logs.** What is committed is stored because of where a lane has got to, so `LaneInv`
says that for each of its states: the lane waits for the task it enqueued itself, the logs
it dropped are of deleted workflows, and those it keeps are in ClickHouse from one state on
and in the search index from a later one. `QueueInv` is what makes waiting for a task worth
anything: tasks end in the order in which they were enqueued, one that deletes is only
about deleted workflows, and one that added has put what is still live into the index;
`BatchInv` ties the batch of the owner to the committed offset, while a canceled lane may
hold any records. `CountInv` says that a counter is the number of processed events of its
workflow, which are all from the topic. That deleted logs are gone is the harder half,
because the deletion, the lane and Meilisearch's queue each know only part of it. `CleanInv`
holds as long as no lane is canceled: a log of a deleted workflow that is not on its way
from the topic and not among what the lane has yet to remove is settled. Its row is gone or
the deletion has still to come to ClickHouse, and its document is in neither index nor
queue, or the deletion has still to come to it, or waits for a task that follows every
addition of that log.

**Log reads.** A cached page is served later, beside stores that have grown since, so the
property needs what a page is worth for good: `PageInv` says that a page from a cursor on has
every row, up to the next cursor, of the table it was read from, and that a page without a
successor was read when the buffer had passed. What a reader is owed and the page lacks was
therefore not in that table, which is what `behind` says. It must also be untimely. A row
that arrives falls in between those of an older table or before or after all of them
(`StoresInv`: both stores hold the first so many arrivals, Meilisearch no more than
ClickHouse), and a row that is before or after all of a table is in no page of it that has a
successor. `ReaderInv` says that what a reader is owed and lies before its cursor has been
given to it or may be missed, and that the answer it waits for, as old as it may be, holds
its cursor and all it is owed. Nothing is assumed of the order of arrivals or their time.

**Listing.** `BehindCursor`: what was there all the time and lies before a reader's
cursor has been given to it, and everything given lies before the cursor. The lemma
`PageKeepsBehind` shows it for one page, from the totality of the order.

**Workflow life cycle.** `BaseInv` types the rows, the events and each handler's program
counter with what it has loaded. A failure count is compared with the set of failed jobs
whose outcome has taken effect: `FailInv` adds that an event about the end of a job is about
one that ended that way, which holds whatever is delivered twice or handled by two workers
at once. For the chain, `EventsInv` says that one event starts a generation; `Lineage` that
the chain of a job was started by such an event, that a follow-up is only of a job that has
been executed, and that no job is dispatched for a generation to come. `ChainInv` has what
an update must not multiply: one job runs at a time, and before the build of a generation is
complete at most one job is active at all, so that the next update finds one chain and one
RUNNING job in it, if any. That job, put back and dispatched anew, is the only way in which
a chain of an older generation goes on, hence there is one such chain. OneChainEach has no
condition on retries or on overlapping handlers.

That a built workflow goes on (ChainGoesOn, for any RetryLimit) is the other half, and
none of its parts is inductive alone. `LogInv`: a current generation has exactly one event
that started it, and a TERMINATE event of that generation is there only if the workflow is
terminated. `HandlerInv`: one handler runs, on the next event, and until a build ends the
handler finds it open, so that a sweep meets the jobs of a built generation only when it
is terminated. `SuccessionInv`: the automatic jobs of the current generation exist only
once it is built, each of them goes on or is followed by one that does, and one has no
follow-up. `RootScheduled`: the first of them is there when the event that started the
generation is committed, because every other way to return (stale, terminated, refused,
failed) means that the generation is not current or not built. The condition ~Overlap is
the group's promise of one member per partition; what a rebalance in the middle of a
handler does is among the deviations.

**Handoffs.** A slot is counted by who holds it: the lanes between their slot and the answer
to their claim, and the executions. The properties speak of entries, which lanes and
executions name by identity: `EntriesNamed` and `LanesNamed` say that a name that is held
is of an entry that was made; `RegistryByJob` and `OneClaimant` that a job has one entry
and an entry that is being claimed one lane; `AnswersTrue` and `RemovedIsOver` what an
answer on its way and an entry no longer in the registry still mean.

**Clients and pulls.** A client is in one place: in the cache, in the hands of one
construction, or in those of Close (`PlacesDisjoint`), and the open ones are exactly those
that are somewhere (`OpenIsHeld`). A task that looks again after it got the image lock, or
builds, has more time left on the lock than until its next renewal (`LockHeld`), unless
Redis lost its keys; a pull that was not canceled has a leader that builds (`PullsLed`).
The hypothesis RenewInterval < TTL is `max(ttl/3, 1s) < ttl`
(`internal/pkg/imagepull/imagepull.go:126`), that is a TTL above one second; the code does
not check it, and the default is ten minutes.

**Command ledger.** Every property is of committed rows, while a transaction acts on what
Reserve read. `LedgerInv` says what holds in between: from Reserve to its commit a
transaction holds the lock of its key, and until then the row is as Reserve found it; if
it found the key fresh, all earlier resources of that key are older than the retention; a
resource keeps its key for good, or is older than the retention, or the row of its key
answers for it and expires no sooner. `LedgerAssumption` states two facts of the code:
migration 11 carried over only keys of workflows, jobs and notifications, and all
cancellations of a job have the key made from its ID
(`internal/repository/workflow/terminate_workflow.go:84`).

**Sessions and keys.** `KeysInv` follows the rotation script: an entry of the trusted file
names the key file only while that file holds its key, so whichever file a restart reads, a
kid means one key. What a rotation leaves verifiable needs the order of the script:
`VerifierFirst` says that the key the signer has now, and after the verifiers' restart the
next one, is in every bundle, but for the time between the publication of a key and the
verifiers' restart (`Early`), when a signer that restarts on its own is ahead of them.
`TokenInv` says what that leaves for the tokens made before: a kid that will be pruned has
signed nothing since the grace began, so a token of a replaced key is verifiable until it
is as old as the grace (`Outdated`). TokensOutliveRotations has no condition on the lifetimes
or on restarts; what it excepts are the two windows in which the code refuses a
token, which the deviations describe. The documented grace is 15 minutes, the life of a
token, so the second window matters to sessions, which carry their token for two hours.
The tokens' expiry is compared without the leeway of 30 seconds that
the validation allows. For logout, `TabsInv` says that a session that is being
stored is known to no tab but its own, so that no other request can bring it back; for the
CSRF token, `TellInv` that each tab, reply and cookie has the one its session was signed in
with. CsrfLife >= SessionLife holds for the defaults, two hours each
(`internal/config/server.go:36`).

**Reads.** One invariant serves both services. `CacheInv`: nothing in the cache or in a
goroutine's hands is newer than the last commit. `FlightInv`: a flight's waiters are exactly
the callers that wait for its key, and what it found is no older than its start. `UserInv`
adds what an update that met no other writer promises: from its return on the cached entry,
the flight and each goroutine have seen it (`Fresh`).

**Access.** `RequestInv`: the calls a request has left are ones its route may make, and the
token it carries is its user's, for the service of the route. That the calls of each route
fit the route is shown route by route (`RoutesFit`), from the tables of the server.

**Services together.** `part` never changes, and the moves of a part are steps of its
component while the rest stands still: a behaviour in which a part moves is one of its
component (`BrowserMoves`, `UpdateMoves` and so on), so the component's theorems apply to
the instance. Of those theorems only TabsAgree has a hypothesis beyond the ASSUMEs of its
module, CsrfLife >= SessionLife, which the instances satisfy as the defaults do.

### What is not proved

Liveness, fairness and ENABLED are beyond the prover: RunningJobEnds, AllCommitted,
EverythingArrives, RunReturns, EventuallyFresh, EveryCallAnswered, SignerRecovers,
EventsHandled, EveryRecordCommitted, WorkEnds and NodeStatusTrue stay with TLC.

Three safety invariants are model-checked only. RequestsConfined rests on addresses as
bytes and RunsAccounted on a script of lines: both are about finite data, which TLC
enumerates. CountedOnce compares the counters with sums over the events; what a sum is for
every set is an induction over data.

`DeletedLogsGone` is proved for a partition that has kept its owner, which is how
LogsStoredOnce states it; with a rebalance it fails (see the deviations). LeaseWhileRunning,
ClaimGuardsRow, StaleLaneNeverCommits and Listing's TypeOK are proved and not repeated in a
run. The theorems of `Services_proofs` are for any callers, keys and numbers of writes in
`Serving`, and for the instances of the ledger, the sessions and the workflows that
`MCServices` lists; those of the components are for every instance. The violations are
counterexamples.

## What is left

Nothing of the plan is open. What could follow: the two invariants about finite data for
any script of lines and any addresses, once the provers can do an induction; and the
snapshots inside one statement, which are not modelled (below).

## Not modelled

Migrations run once, before the services. Telemetry, connection set-up, generated gRPC
code and the dashboard's pages have no control state that the properties could tell
apart; the dashboard's retry after a refused CSRF token is in `Sessions`. Docker,
PostgreSQL, Redis, Kafka, ClickHouse, Meilisearch, DNS and the remote host of a heartbeat
are external: modelled by what the code sees of them. Validation of request fields,
password hashing and cookie encryption are functions of their input. GetWorkflowAnalytics
is a read of one row, and marking notifications as read is one transaction on rows that
nothing else changes. The READ COMMITTED snapshot inside one statement (two schedulers
whose subqueries see an older state than the row they lock) is not modelled: a statement
is a step.
