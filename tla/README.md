# Labrys: TLA+ models and proofs

Labrys is an agent-native PaaS. A pure Rust crate, `labrys-core`, holds the
rules (lifecycles, jobs, rollouts, approvals, evidence); `labrys-control-plane`
makes them durable on PostgreSQL and runs the workers and the HTTP API. This
directory models the parts whose correctness depends on the order in which
several actors act, checks the models with TLC and proves theorems about them
with TLAPS.

## The system

| part | source | state | operations |
|---|---|---|---|
| job queue | `control-plane/jobs.rs` | `jobs` table, leases | enqueue, claim, complete, fail, pause, resume, requeue, recover |
| worker | `control-plane/worker.rs`, `bin/control-plane.rs` | claimed job, stop flag | tick, finalize, observe, stop, drain |
| dispatch | `control-plane/dispatch.rs` | runtime availability | dispatch |
| provider operations | `control-plane/providers.rs`, `core/provider.rs` | `provider_operations` | approval gate, adapter call, record, registry push, domain delivery |
| resources | `core/controller.rs`, `control-plane/repos/resources.rs` | `resources` table, transition evidence | request, observe, fail, delete |
| deployments | `core/deployment.rs` | history, current, domains | begin, build, probe, promote, roll back, attach |
| API | `control-plane/api.rs` | replay records | import, build, deploy, rollback, capability, ... |
| authentication | `control-plane/auth.rs` | live tokens, request windows | authenticate, revoke, reload, limit |
| desired state | `control-plane/repos/applications.rs`, `core/state.rs` | versioned rows | update, observe |
| capabilities, secrets | `core/capability.rs` | bindings, sealed versions | bind, put, replace, inject, delete |
| workspaces, previews | `core/workspace.rs`, `control-plane/preview.rs`, `control-plane/runtime.rs` | worktrees, previews, containers | materialise, start, expire, revoke, merge, clean up |
| agents, plugins | `core/agent.rs`, `core/plugin.rs` | sessions, approvals, calls | event, approve, invoke, cancel |
| observability | `core/observability.rs`, `control-plane/observability.rs` | event log, audit chain, evidence | append, verify, retain |
| managed providers | `control-plane/postgres_provider.rs`, `storage_provider.rs` | roles, databases, buckets, credentials in memory | provision, probe, adopt, delete |
| domain delivery | `control-plane/providers.rs`, `tls_dns.rs` | delivery, certificate files | resolve, issue, attach |
| controllers | `core/controller.rs` | targets, in-memory queue | reconcile, observe, fail, pause, requeue, delete |
| inspection | `core/inspector.rs`, `core/runtime.rs` | profile, plan, configuration | inspect, apply plugin findings, detect, plan |

(`control-plane/` and `core/` stand for `src/crates/labrys-control-plane/src/`
and `src/crates/labrys-core/src/`.)

The API turns a request into a job. A worker claims it under a lease, has a
provider adapter do the work, records the operation and what was observed of
the resource, and settles the job. Leases are the only thing that tells a live
worker from a dead one: nothing renews them and nothing tells a worker that its
lease was taken over. Deployments move through their own lifecycle: built,
probed, promoted, and on approval rolled back.

## Modules

| module | models |
|---|---|
| `JobContract` | what a caller may rely on: a submitted job has at most one live holder, ends once as done or dead, and only a dead one is reopened |
| `JobQueue` | `PgJobQueue`: the table, leases, callers' clock readings, the claims in workers' memories |
| `Resources` | the lifecycle graph of a resource and the two writes of its store |
| `ReconcileWorker` | `Worker::run` over `JobQueue` and `Resources`: every await is a step of its own |
| `Rollout` | `Deployment`, `Rollout`, `execute_rollback`, `attach_domain` |
| `Api` | the mutating HTTP handlers: authentication, replay lookup, the mutation and the stored response of concurrent requests |
| `Convergence` | the five controllers of `labrys-core` over the in-memory queue |
| `Previews` | `PreviewManager` and the container executor: start, probe, expire, revoke, with rows and containers that outlive the process |
| `Provisioning` | the Postgres and the storage adapter, statement by statement |
| `Domains` | `converge_domain` over the resolver and the openssl issuer |
| `AgentSession` | one session: prompts, policy, backends, approvals, lifecycle, log |
| `Plugins` | the registry of plugin processes and their calls |
| `Worktrees` | the workspace registry, the copies callers hold and the directories |
| `Records` | the application store and the audit chain as transactions |
| `Evidence` | retention of evidence, and the verifier |
| `Secrets` | the secret store: versions, rotation of values and of the key |
| `Inspection` | inspector, adoption plan, runtime adapters and planned configuration |
| `JobQueueProofs`, `ReconcileWorkerProofs`, `RolloutProofs`, `ApiProofs`, `InspectionProofs` | theorems about the modules of those names |
| `HostProofs` | theorems about `Previews`, `Provisioning` and `Domains` |
| `SessionProofs` | theorems about `AgentSession`, `Plugins` and `Worktrees` |
| `StoreProofs` | theorems about `Records`, `Evidence` and `Secrets` |
| `MCJobQueue`, `MCReconcileWorker`, `MCRollout`, `MCApi` | instances for TLC |
| `MCHost` | `Previews`, `Provisioning` and `Domains`: what the control plane sets up outside itself |
| `MCParts` | the seven modules from `AgentSession` to `Inspection` |

**JobQueue.** One record per idempotency key holds the columns of its row that
steer anything; `NoRow` is a key that was never inserted. Each SQL statement or
transaction is one action. Workers pass a reading of the clock that is up to
`MaxLag` old, as `tick_once` and `finalize` do. `claims` holds the `ClaimedJob`
values in workers' memories; a claim lives on after its lease, until the
worker answers or drops it. `FOR UPDATE SKIP LOCKED` is taken to be
serialisable: whoever skips a locked row claims after the one that locked it.

**ReconcileWorker.** `pc` follows a pass through recover, claim, execute, the
dispatcher's observation (`read`, `write`), the worker's own (`get`, `put`) and
the settlement. A row that is read and later written back is two steps, so
another worker's write can fall between them. `Break` is a database error in
the worker's own calls or the death of the process; an error ends `run()` for
good, since the daemon starts no replacement, while a dead process is
restarted. `Recorded` and `Read` have the two ways in which database errors
inside `execute_operation` surface: as a failed outcome, or not at all.
Requests only enqueue, as the API does. Targets that name no resource row are
initial states like any other.

**Rollout.** Deployments are numbered in the order of the history vector.
`passed` abstracts the transition list to the one thing that is asked of it,
whether it has the step from deploying to healthy. Plans are not state: what
`plan_rollback` checks stays true, so executing an old plan is executing a
fresh one. Callers are taken to pass all domains to `execute_rollback`.
`mark_superseded` and `mark_rolled_back` can be called on a record by
themselves, through `get_mut`. They check the graph only, so what they say about
the traffic is the caller's to keep: `Next` has the calls where a newer
deployment serves (`NewerServes`), and where the one marked rolled back could
have had traffic and has none (`TrafficMovedAway`). Outside of tests the
repository makes no such call; a failed deployment that is marked rolled back is
among the disagreements below.
Refused calls that change nothing are stutters; a refused probe is not one,
since `record_health` stores the probe first.

**Api.** Each request has its own `pc` and goes through the statements of its
handler, one step per await: `check_replay`, load or save the application,
`enqueue`, `record_event`, `store_replay`. Authentication, scope and policy
checks read the token set once and are one step, `Arrive`. `Break` ends a
request between two statements, as a database error, a dropped connection or
the death of the process does; clients retry with a new request. The id of an
imported application is fresh, so it is named by the request that makes it up.
A job is known by what its idempotency key is made of: application, command
suffix and argument. `tokens` are the ones that authenticate; the reasons why
another does not steer only the text of the audit row. The limiter may turn any
request away; its windows are not modelled. Workers (`Settle`) and the
controller (`Observe`) are the surroundings. Read-only handlers change nothing.

**Convergence.** `kind` picks one of the five controllers. A pass (`reconcile`)
compares what is desired with what was observed and enqueues at most one job;
workers claim, complete or fail it, and the world it changes is seen only
through `observe`. Time is left out: a backoff passes eventually. `WorldBreaks`
and `DesiredChanges` are the reasons to converge again.

**Previews.** `start_preview` is a sequence of awaits, each of which may fail,
and after each of which the process may die. The plan of a preview is in the
caller's memory and goes with the process; rows and containers stay. `docker
run` may time out on the client while the daemon starts the container later.
`closed` remembers how access was ended by a call that succeeded.

**Provisioning.** A call goes through the statements of its action; a
statement that fails may have been carried out. Calls of one process share the
cache of credentials, which a restart empties. A secret is its number. `torn`
and `alone` say when a delete failed or overlapped another call: properties
about what is left are stated for the calls that nothing disturbed.

**Domains.** Each caller converges a delivery of its own again and again, with
the deployment and the approval it has at the time; the certificate files are
shared, and may be cleared or half-written.

**AgentSession, Plugins, Worktrees, Secrets.** One action per operation of the
type, over all orders of callers. Texts are told apart by whether they hold a
protected value, envelopes by the key that opens them, worktrees by the session
that owns them. In `Plugins` callers choose the ids of long calls, old ones
included, and a plugin that is registered again starts over at 1 with nothing of
its past; so `NextIdIsUnused` is about one connection, and does not judge what
an id means to a caller that kept it across two. Ids that come near 2^64, where
`id + 1` overflows, are not modelled. In `Worktrees` a caller works on a copy of
an entry and `sync` writes it back, however old; looking for a directory and
making it are two steps.

**Records.** PostgreSQL is what the statements use of it: a statement sees
what is committed when it starts and what its own transaction did, an updated
row is locked to the end of its transaction, who waits for it looks again, and
keys are unique. A hash is the record it was computed from.

**Evidence.** A retention pass reads the store, decides, and deletes by id,
with appends and other passes in between.

**Inspection.** A snapshot is the set of things the detectors look for.
`inspect` is one step per detector, in the code's order, then plugin findings in
any order, then the profile, the plan, the runtime and its configuration. Of a
runtime, its kind and the framework whose layout was resolved are kept; the
tiers below that, commands and health paths are not, and a plan refused for its
port or limits plans nothing.

*Composition.* The worker is composed with the queue and the resources it
works on. The modules of `MCHost`, and those of `MCParts`, share no state: a
behaviour has a `focus`, chosen in the initial state, and only that part takes
steps, so one run explores the sum of their state spaces and not the product.

## What TLC checks

| run | instance | shows |
|---|---|---|
| `queue` | 2 workers, 2 jobs on one target, lease 2, budget 2, clock 0..3, lag 1 | leases are exclusive, late answers change nothing, dead letters spent their budget, finished work stays finished, the queue implements `JobContract` |
| `queue_budget` | the same | violated: expired leases lead past the attempt budget |
| `worker_safety` | 2 workers, 2 jobs (one destructive) on one resource, lease 1, clock 0..2, one interruption | racing observations leave legal evidence, a row that shows a failure has left generation 0, success is on record |
| `worker_liveness` | the same with one job | workers refine `JobQueue`, no job is stranded, a stopped worker ends |
| `worker_run` | the same, no interruption | violated: a worker ends although nobody stopped it |
| `rollout` | 3 deployments, 2 domains | only gated deployments serve, the serving one is not retired, domains follow rollbacks, failures are early and final, retirement ends only by serving |
| `api` | 3 requests, 2 keys, a human's and an agent's token, 1 application, 14 calls | acknowledged work is on record, replays and retries agree, nothing happens without an entitled request |
| `api_retry` | the same, imports only | violated: one import, sent twice, registers two applications |
| `convergence` | 5 controllers, budget 2, 2 upsets, 3 failing attempts | what is desired is reached and stays, whatever was dead-lettered, paused or deleted before |
| `host` | 2 previews in 4 configurations; 2 callers, 4 secrets, 2 faults; 2 convergers, 2 deployments, 3 convergences | a URL is of a preview that answered, an expired one stays closed, reported containers are named by a row, a cached credential is the role's, a bucket comes back, traffic stays where it was approved |
| `host_provision` | the same | violated: provisioning a database again leaves no credential in memory |
| `parts` | log of 6, 2 plugins, 2 sessions with 2 worktrees and 2 holders, 3 writers with 4 versions, 4 records and 2 passes, 4 stages, 2 secrets and 3 keys, 2 plugin findings | every approval is pending or answered once, the next call id is unused, a session has one worktree, versions, events and audit agree, no append is lost, failures are kept, secrets open, detectors agree, a failed verdict stays failed, plugins decide nothing |

*Bounds.* A lease of 2 with a lag of 1 lets a claim be made with an old reading,
run out, be recovered and be claimed by the other worker, or by the same one,
before the first answer arrives. A budget of 2 has a retry and a dead letter.
One interruption is enough for each kind of fault to meet every step of a pass;
two workers and one resource for every race between two writers. Three
deployments have one that serves, one that was replaced and one on its way.
Three requests are two that race through one key and one that meets what they
stored; the calls cover every outcome of the checks, and the calls on an
application that another request is importing.
Two upsets and three failing attempts of a budget of two have a dead letter,
its requeue, and a change of mind while it is dead. Two faults are a statement
that fails with its effect and a restart after it; two callers race each other
and a delete. Three writers are one that holds a lock, one that waits and one
that comes after both; four records and two passes have one pass overtaken by
appends and by the other. Two worktrees are one that was cleaned up and its
successor, with a stale copy of each. The snapshots combine the markers of all
languages and frameworks in pairs, with and without a container file.
`MaxTime`, `MaxLag`, `MaxInterruptions`, `MaxDeployments` and the constants marked
"bound" where they are declared are bounds of the models; no claim is made with a lease that would outlast the clock.
Workers are interchangeable, so the safety runs use their symmetry, as `host` and
`parts` do that of previews and of sessions. The views
leave out `updated_at` (queue and worker), the stored probe (rollout) and the
end of jobs (API), which steer nothing.

*Deadlock* is not checked: the clock stops at `MaxTime`, and a rollout may be
finished, as may all requests and every part of `host` and `parts`.

*Fairness* is weak fairness of the clock and of each worker's own steps: the
tokio runtime polls every task, sleeps end and provider calls return or time
out. Nothing is assumed of requests, faults, restarts or stop requests.
`Convergence` assumes weak fairness of passes, claims, completion, observation,
resumption and the two steps of deletion: the crate leaves the loop to its
embedder, and the fairness is what an embedder that keeps calling it provides.
Nothing is assumed of failures, of `requeue`, or of the world; the number of
failures is bounded, since no controller converges in a world where every
attempt fails.

### Disagreements with the repository's own words

Shown by a run:

* `max_attempts` is "Total attempts before the job dead-letters."; recovery of
  an expired lease does not count towards it (`queue_budget`).
* `Worker::run` "Runs until `Worker::stop` is called"; it also ends when the
  observation it repeats after the dispatcher is refused (`worker_run`).
* A key submitted twice "identif[ies] one durable operation" and "the side
  effect executes once"; an import that races its retry, or is retried after a
  failure, registers two applications (`api_retry`).
* An empty credential cache asks to "re-provision to mint a fresh key";
  `provision` returns before minting when role and database exist
  (`host_provision`).

Met while translating the code, and not held by a run:

* `latest_for_target` is "newest first"; `fail` sets `updated_at` to the time
  of the retry.
* `begin` is "wiring the current healthy deployment as its rollback target"; it
  takes the last healthy or superseded one of the history.
* The API returns "durable job state for work that continues after the
  request"; every API job has version 1, so a later deploy of an environment
  finds the key taken by the finished one.
* Revocation of a preview "stops the container and revokes access"; the row of
  an available one stays available.
* `cleanup_workspace` says that "active worktrees are refused"; it does not
  look at the status.
* A job "is never duplicated while it is in flight"; `requeue` of a dead letter
  does not look for a younger job with its key.
* "Every desired-state mutation is guarded by an optimistic generation check";
  `save` has none.
* `keep_latest` is the "Minimum number of records always kept"; with a blocking
  failure on record there is no minimum.
* Production "always" produces an image; not for Expo.
* "a competing candidate at equal-or-higher confidence" makes a field unknown;
  a convention never competes.
* The generation is "Bumped on every terminal failure"; the bump is made on the
  copy that was read and written back by id, so of two failures that race the
  later write stores the generation of the earlier one.
* A retry is scoped "to one effect"; a job whose target is no resource id gets
  a new one at each attempt.
* "Certificate failures keep traffic detached"; one that is reported, and not
  raised, leaves attached traffic alone.
* `RolledBack` "is_terminal", and healthy "is only reachable from `deploying`";
  `execute_rollback` takes retired deployments back to healthy.
* "A deployment MUST NOT become healthy or receive production traffic until"
  its checks pass; the graph lets a failed deployment be marked rolled back, and
  `execute_rollback` takes any rolled-back one with an image for good. No code
  of the repository marks one so.
* "failure [...] stops the container"; when recording the execution of a started
  preview fails, its container runs on and no row names it.
* The registry client says "Fetch the manifest back and verify"; it compares
  the header of the upload's answer.

## What is proved

The theorems hold for every set of workers, keys, targets, callers, previews,
writers and the like, every lease, budget and backoff, and every bound. All
invariants and action properties that the passing runs check are proved, and
both refinements. The assumptions are `QueueAssumption` (lease and budget are
positive, delays are naturals, the value for "no owner" is no worker),
`RolloutAssumption` (the number of deployments is a natural), and those named
below.

*Queue.* `LeaseExclusive` is not inductive: that two live claims are one
follows from each being the claim on record. `LeaseInv` adds to the types that
a claim whose lease runs is the one recorded in the row, that a recorded holder
holds that same attempt and expiry (`ClaimsMatchRows`), and that a worker has
at most one claim (`OneClaimEach`). It is preserved because recovery with an old
clock reading takes only leases that are over by that reading, hence over now,
and because a worker claims only when idle, so it can never be recorded for one
attempt while it remembers another. `OnlyTheCurrentAttempt` and
`QueueImplementsContract` follow step by step from it: a claim that runs out by
a tick, is recovered, or is answered late is a lapse, a settlement or a stutter
of the contract.

*Worker.* A pass is made of operations of the queue (`WorkersImplementQueue`),
so `LeaseInv` holds of the workers too; `PassInv` adds that a worker has a claim
exactly while its `pc` says so. `WorkerAssumption`, that `MaxLag` is at least
`MaxTime`, lets a pass use a clock reading however old it has become, as the
code does. What a pass knows is tied to the claim it works on. `RecordInv`: when
the outcome is not a failure, the operation of the claimed job is on record
already, so settling it makes nothing succeed that is not. `EvidenceInv`: rows
and the copies in workers' memories are sound, which is to say that their
transitions are legal and chained and that a failure shows in the generation;
and a copy about to be written back may move to the phase of the outcome, with
the row past generation 0 if the copy shows a failure (`CopyInHand`). The last
part is what a write of an old copy over a newer row needs: it may take the
generation back, but never to 0.

*Rollout.* `RolloutInv` says of every record that it passed the gate exactly
when it is healthy, degraded, superseded or rolled back, and that from deploying
on, failures aside, it is built; of the pointers, that current points at a
deployment that is up and a domain at one that is up or superseded; and of the
wired targets, that they are earlier ones that passed. The first part makes a
rollback target safe however old the plan is, the second is what rollback has to
restore and what the marks must not disturb: a mark moves only a verified
deployment that does not serve (`Marked`, `MarkInv`). `TargetsGated` also needs
that `MostRecent` finds a maximum, by well-founded descent on the history's
indices.

*API.* `ApiInv` says what a request that has come to a step has left behind
(`Progress`), what one that was refused or replayed has not (`Restraint`), that
every job and application goes back to a request that was let in (`Origins`),
and that every stored response was worked out by a request with that key which
finished (`Responses`). The last is what carries the guarantee from the request
that did the work to those that are answered by replay. `ApiAssumption` says
that the calls have the shape of requests, that the null values are none of the
others and that new application ids are fresh.

*Previews.* `PreviewInv` relates the call, the caller's plan, the container and
the row of each preview. `UrlInv`: a plan with a URL is one whose probe was
answered, and a row has one only if the plan has. `ExpiryInv`: an expired plan
is in no call that could publish it again. `LeakInv`: a container that runs is
named by a row, or its call has not come so far, or was cut off there.
`PreviewAssumption`: configurations have the shape of a preview request.

*Provisioning.* Calls that overlap may undo each other, so the invariant says
who is alone. `CallsInv` places every call at a step of its own action and gives
it a secret once it has minted one. `CacheInv`: while no delete has failed or
had company, deletes overlap nothing, the role is that of the provision past
`create_role`, and the cached credential is the role's. `AloneInv` and
`BucketInv` do the same for a bucket: what an undisturbed provision has made is
there when it mints its key.

*Domains.* A row is a copy of a delivery that lives on from call to call.
`DeliveryInv` therefore says of the deliveries what the property says of the
rows, and of a call in progress that what it may route to was offered.

*Agent sessions.* `ApprovalInv`: a request that was made is pending, and then
nothing in the log answers it, or is answered by exactly one entry; no entry
names a request that was not made, so a new request starts without an answer.

*Worktrees.* A copy written back by `sync` may be older than the entry it
replaces. `RegistryInv` adds that ids are never given twice, that every entry
and every copy has an id that was given, and that an id has one entry; an old
copy then has the owner of the entry it replaces. `WorktreesAssumption`: the
bound is a natural.

*Plugins.* Every id in flight, answered or cancelled on a connection is below
the next one (`Below`), because a call that brings its own id moves the counter
past it.

*Secrets.* `SecretsInv` is the property with the types: a rotation of the key
reseals all that is stored or changes nothing. `SecretsAssumption`: there is at
least one key.

*Records.* `RecordsInv` says of every writer what it knows at its step
(`Knows`): one that has updated a row holds its lock until it commits, and so
what it wrote rests on the version that is still committed. From this follows
that versions, events and audit entries agree, and that the key of an audit
entry is never taken when it is inserted. `RecordsAssumption`: the value for "no
lock" is no writer.

*Evidence.* `RetentionInv`: record ids are given once and upwards, and a pass
holds only ids of records that are no failures; an append between its read and
its deletion cannot take one of these ids. The verdict only worsens because no
operation takes a result away from a stage or turns a failure into anything else
(`ResultsStay`).

*Inspection.* Every detector keeps a value that a field has, and the rivals of
it (`Keeps`); a manifest therefore leaves its language as the value or as a
rival (`Noted`) whatever ran before it, and as no claim is surer than a manifest,
a rival makes the language unknown in the end. A native runtime is detected only
beside a manifest of its language. Plugin findings and the final step leave a
value or take it away (`Loses`). No assumption is needed.

*Only model-checked:* liveness. That no job stays stranded, that a stopped
worker ends, and that the controllers converge (`Convergence`) rest on fairness,
which is beyond the prover.

## Not modelled

* The registry client: requests in one order to an external registry, with one
  comparison at the end. The record of a push is one row.
* The deployment store: plain rows; what the API reads of it is in `Api`.
* The limiter's windows: the limiter may refuse at any time, which is what the
  other parts have to live with.
* Read-only handlers, clients, command line and dashboard: they change nothing.
* Parsing, container and network command lines, and the cipher: text and I/O,
  represented by what comes of them.
* Applying an adoption plan and the gate for broad changes: pure checks of
  their arguments. Capability bindings, usage meters, traces and logs: rows
  that are written once and checked when they are made.
* Identifiers, environments, redaction and errors, and the release scripts.

Keys of the controllers join version and generation in one number, which is
unambiguous below a thousand failures of one resource; the model does not go
there. `PROJECT.json` lists every part with its status, and the hazards with
the properties that cover them.
