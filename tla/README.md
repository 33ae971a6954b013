# Verification of the Host Agent

TLA+ models, model-checking runs and machine-checked proofs for the Opute Host
Agent (`host-agents`). The agent is an MCP server that runs on a host, executes
tools and durable plans, mounts providers, and shares the host's capacity with
the other agents on it. Paths below are relative to `src/`.

## 1. Inventory

| Component | State it keeps | Operations | What must be right |
|---|---|---|---|
| Task registry, `internal/tasks/registry.go` | one record per MCP task | Create*, RequireInput, SetResume, Complete, Fail, Cancel, Update, RestoreSnapshot | a terminal status is final |
| Host tasks, `internal/hostmcp/server.go` | pending starts and timers, the start wait group | createAsyncTask, request_task_input, tasks/get, /cancel, /update, Close, restoreTasks | no accepted work is lost or started behind Close; delegated work never stays pending |
| Durable plan runs, `internal/hostmcp/plan_run.go` | a row and a task per run, cancel functions, queued answers, `planWG` | run_host_plan, executeHostPlan, resumeHostPlan, cancelHostPlan, Close | one executor per run; a wait is consumed once; row and task agree; Close returns |
| Plan runner, `internal/plan/runner.go` | node statuses, the outstanding wait | Run, Resume, abort | dependency order, waits as barriers, reuse, reverse compensation, an end |
| Plan admission, `internal/plan/schema.go`, `graph.go`, `interpolate.go` | - | Validate, resolve | what was accepted can run |
| Reservations and lease, `internal/resource/service.go`, `reservation_lease.go` | one file per host; flags and renewal goroutine per lease | Admit, Bind, Renew, Release, Reclaim; claim, bind, keepAlive, finish | limits hold across agents; a live run keeps its record; capacity comes back |
| Permits, `internal/resource/admission.go` | active and queued counters, notifications, a lock file | AcquireClass, release | heavy work is alone; no lost wake-up |
| Provider generations, `internal/cordis/generation.go` | state and sessions per generation, active map | CreateCandidate, Activate, Rollback, sessions, Drain, Dispose, Fail, Restore | one active generation; none stopped under a caller; identifiers never reused |
| Provider activation and teardown, `provider_install.go`, `recipe_run.go`, `provider_teardown.go` | generation rows, mounts, adapters, overlay | install, activate, rollback, teardown, restore | one provider per family; a candidate is unreachable; a teardown leaves nothing |
| Tool surface and dispatch, `internal/hostmcp/server.go`, `internal/tools` | registry, catalog, listed tools, delegations | publish, retire, refresh, handleToolCall, provider callback | the list forgets nothing; calls hold real capacity; callbacks start only while their call is served |
| Authorization, `internal/authz` | clients, codes, tokens | register, authorize, token, revoke, Authorize, prune | a code buys one token; a token is honoured until it expires or a revocation is written |
| Transport, `internal/transport` | - | handleMCP, skipModernValidation | the legacy option opens no way around the contract |
| Consoles, relays, connectors, `internal/console`, `internal/tcprelay`, `sql_connector.go`, `cluster_agent_bridge_relay.go` | sessions, their maps, listeners, use counts | open, attach, close; ensure, release, drain | maps name what is open |
| K3s provider, `plugins/kubernetes/k3s` | invitations; everything else in the guests | provision, join, remove, recover-quorum, prune, collect | one join per invitation; no removal loses the majority unnoticed; the registry comes back |
| Tailscale provider, `plugins/tunneling/tailscale` | ownership maps | enroll, mesh, service, ingress, remove, teardown | what is recorded belongs to a member |
| Cloudflare provider, `plugins/tunneling/cloudflare` | endpoints, Mesh records; tunnels and DNS at Cloudflare | ensure, unpublish, install, HA, mesh | the platform's tunnel and records change only where a cleanup names them; a route is complete before it is connected |
| PostgreSQL, `internal/domain/postgres` | relay table, files, connections | reconcile, remove, start, handoff, release, restore | sessions end when they should |
| Local inference, `internal/domain/llm` | relay table and files; Ollama and llama-server configuration | start, stop, restore; ensure, configure | what serves is what is stored; what is served is pinned |
| Incus, `internal/domain/incus` | instances, reset checkpoint | provision, resize, delete, reset | nobody else's instance is touched; where ownership is only audited, none but the one a call names |
| Public MCP, host policy, WSL, `internal/domain/host` parts | managed files, units, slice, disks | ensure, remove, reconcile, compact | what is reported ready serves the target; enforcement can be shown |
| OCI, `internal/domain/oci` | policy; images in podman | build, push, untag, cleanup, registry | a referenced image is kept |
| Serving, `internal/domain/serving` | launch markers, pid and state file, unit | reconcile process assignment | nothing is launched beside a stray that the probe saw, unless a pre-start command freed the endpoint |
| Cordis context, `internal/cordis/context.go`, `provider_service_plugin.go` | fibers, table of plugins, services | Plugin, Provide, Dispose; mount, unmount, displace a generation | what is provided has a live owner; the shared connection closes last |
| Provider adapter, state store | connection, SQLite | used by the parts above | modelled inside them, in part |
| Instance lock, app runtime, recipes, heartbeat, exec, façade, contracts, packaging | see section 6 | | |

How they interact. A request arrives over HTTP (`McpTransport`), its token is
checked (`AccessTokens`), the tool is looked up and admitted (`ToolDispatch`,
`HostReservations`). Asynchronous tools become host tasks. `run_host_plan`
admits a document (`PlanReferences`), creates a row and a task, hands its
reservation to the run through a lease, and starts a goroutine. The goroutine
calls the runner, which stores its progress through a Sink and dispatches nodes
back through the server, where a provider's tools open a session on its active
generation, and a provider calls back under a resource delegation. A plan can
itself activate or tear down a provider. Close cancels, waits for two wait
groups and only then drops the store. All agents of a host meet in the
reservations file, the lock file and Incus.

What is hard here: goroutines that hand work to one another without a lock
across the hand-over; state copied under a mutex and written later; two durable
projections of the same thing; timers racing polls, renewals racing expiry; wait
groups that must cover everybody; crashes between two writes; long tool
implementations that are rows of external commands with no lock across them.
`PROJECT.json` lists these hazards at their lines.

## 2. Modules

Core of the agent:

| Module | Models | EXTENDS |
|---|---|---|
| `TaskRegistry` | the registry: one operator per method, from a record to a record | - |
| `HostTasks` | the life of tasks in one agent | `TaskRegistry` |
| `HostPlanRun` | the life of one durable plan run | `TaskRegistry` |
| `PlanRunner` | what happens to the nodes of a run | - |
| `HostReservations` | the shared file and the leases of several agents | - |
| `ServingGenerations` | abstract: what the generation manager promises | - |
| `ProviderGenerations` | the generation manager | - (instantiates `ServingGenerations`) |
| `ProviderActivation` | install, activation, rollback, teardown, restart | `ProviderGenerations` |

Theorems, each module extending what it proves about: `HostTasksProofs`,
`HostReservationsProofs`, `HostPlanRunProofs`, `PlanRunnerProofs`;
`ProviderGenerationsProofs` for `ProviderGenerations` and `ProviderActivation`;
`HostFrontProofs` for `AccessTokens`, `AdmissionPermits`, `ToolDispatch`,
`HostStreams`, `McpTransport` and `CordisContext`; `HostServicesProofs` for `K3sStorage`, `HostPolicy`,
`ServingAssignments`, `OciImages`, `LocalLLMRuntimes`, `IncusInstances`,
`PublicMCP`, `PostgresService` and `LocalLLMRelay`;
`ProvidersProofs` for the three providers.

Front of the agent (composed by `MCHostFront`): `AccessTokens`, `McpTransport`,
`ToolDispatch`, `AdmissionPermits`, `HostStreams`, `PlanReferences`,
`CordisContext`.

Services on the host (composed by `MCHostServices`): `K3sStorage`,
`PostgresService`, `LocalLLMRelay`, `LocalLLMRuntimes`, `IncusInstances`,
`PublicMCP`, `HostPolicy`, `OciImages`, `ServingAssignments`.

Provider processes (composed by `MCProviders`): `K3sMembership`,
`TailscaleOverlay`, `CloudflareTunnels`.

The last three groups share `ToolCalls`: a budget of calls and of troubles
(things that go wrong outside the agent). Their parts have no state in common,
so a composed behaviour chooses one part at first (`domain`, `provider`), starts
with the share of the budget that part needs (`CallsIn`, `CallsOf`), and leaves
the others in an initial state. This checks every part in one run without
multiplying their state spaces; the Cloudflare provider is chosen in two ways, with
two calls, or with one call and the platform's own work (`platform`); the sets of model values are shared so that the
symmetry group stays small. Each part that is proved about also has a
specification of its own (`AccessSpec`, `OciSpec`, ...), its share of the
composition alone, with any budget.

**TaskRegistry.** Each method of `Registry` takes the mutex, changes one record
and returns a copy, so it is an operator, applied by `HostTasks` and `HostPlanRun`.

**HostTasks.** `tasks` is the registry; `snapshot` and `opStatus` are the two
projections in the operations table. Goroutines are told apart by what is left
for them to do: `creator`, `worker`, `updater`, and `jobs` for cancellations and
row writes that others have begun. `pending` and `wg` are
`pendingAsyncTaskStarts` and `asyncTaskStartWG`; `closer` is where Close is.

**HostPlanRun.** `row` is the plan_runs row (status, and whether the stored
state has an outstanding wait), `rec` and `snap` the task and its snapshot. A
slot is a goroutine: a launching request that becomes the executor it starts, or
the resumer an answer starts. `mine[s]` is the run state it carries in memory,
which can be older than the row. `planCancels` and `recCancel` say whose context
the two registered cancel functions end. tasks/update and cancelHostPlan are
sequences of steps, one for each look at shared state. Nodes are left to the
runner: a run emits progress, waits, or ends.

**PlanRunner.** `run` is the RunState in memory and `stored` what the Sink wrote
last; a crash falls back to it. `phase`, `pass`, `level` are where Run is, and
`step[n]` where each node is in the current level or convergence sweep. A serial
level works on `run`; the goroutines of a concurrent one work on `local`, their
clones, and Merge takes the results over in the order of the level. A node's
validate, action, recover and compensate tools are external: `ready[n]` says
whether the assertions would hold, a call may change it whatever it reports, and
Drift changes it behind the plan.

**HostReservations.** `records` and `left` are the file, with the remaining time
of each record; `phase`, `launcher`, `keep` are the run, the launching call and
the renewal goroutine. Each service operation holds the flock and is one action.
`Tick` is the clock: it may not pass the moment a renewal that is still possible
must complete (`Lateness`), nor the time a launching call takes to claim
(`LaunchLimit`). `TimingAssumption` says that these fit into the TTL (in the
code: 15 minutes, renewed every 2). A task id of `""` is written `"unbound"`.

**ProviderGenerations, ServingGenerations.** One action per method; Drain polls
and disposes in two critical sections. Init is an agent about to restore any set
of stored rows. The abstract module has four sets: who serves, who works where,
what was stopped, what failed. Candidates, readiness, draining and counters do
not appear in it. `ImplementsServing` maps the manager onto it: the active
map is `serving`, held sessions are `work`. A behaviour is one life of an agent;
what a restart restores maps to switches, stops and failures before it serves.

**ProviderActivation.** Takes the manager's actions together with the rows
(`row`), the mounts, the provider's unit and the overlay they belong to; each
store write and each mount is a step, so that a refused write or a stop of the
agent can fall between any two. Publication is one step here; its interleavings
are in `ToolDispatch`.

**CordisContext.** A service of a generation is a plugin and a fiber; a call of a
run mounts, unmounts or displaces, one critical section of the context at a time.
`crossed` remembers the generations on which two calls overlapped or from which a
plugin was displaced. Where the code walks a list, from the newest to the oldest,
the model keeps the set of what is left and takes the largest number.

**Providers and services.** A tool call is a process with a program counter; a
step is one command, request or critical section of the code, with everything
the handler does up to the next one. State in memory is lost by a restart action
where the code keeps it in memory, kept where it writes a file or asks the
platform. The outside (pods, guests, an operator's podman, systemd, Kubernetes)
moves by actions of its own. An error that the code discards is a branch of the
step that meets it: a relay file that stays (`removePersistedSession`,
`removePersistedLocalLLMRelay`), a revocation that the store refuses
(`handleRevoke`), a Cluster whose deletion fails (`DeletesCluster`).

**K3sMembership.** `invitation` and `key` are the provider's memory, one per host;
`members` and `unit` are the guests. `lossKnown` remembers the clusters without
a majority that a caller, an error or a stopped server has told somebody of. A join
takes the token of a redeemed invitation, or, for a reference the process does not
hold, the token its caller brings.

**CloudflareTunnels.** Every request to Cloudflare is a step; the inputs of a
cleanup are any tunnel and records. The platform's control plane works on the same
zone by itself: it points hostnames to its tunnel, in records of its own or by
editing one that is there, and adds its hostname to a tunnel. `overtaken` marks
a call that had read a tunnel or a record before that.

**ServingAssignments.** Strays come and go at any time, from another launcher; a
probe of an endpoint that is served may fail. `missed` remembers that a call decided
without having seen the stray that is there.

**IncusInstances.** `OwnershipMode` is `enforce` or, as the agent is configured by
default (`internal/config/config.go:324`), `audit`, in which `assertIncusOwnership`
reads nothing and passes.

**ToolDispatch.** A callback is checked in three steps, its token, its task, its
parent's reservation, and the call it belongs to goes on between them: it
releases, finishes its task, or is cancelled.

## 3. Runs

| Run | Configuration | Shows |
|---|---|---|
| `host_tasks` | two tasks, one restart, Close | `TasksConsistent`; after Close nothing runs; terminal outcomes survive; Close returns and pending work is resolved |
| `generations` | one provider, three generations, two clients | `ManagerConsistent`; the manager implements `ServingGenerations` |
| `provider_activation` | two providers sharing a family, two generations, a caller, two troubles | one provider per family, no candidate reachable, a completed teardown left nothing |
| `reservations_safety` | two agents, two jobs, file faults, crashes | limits, ownership, renewals; a record leaves once, by its holder's hand |
| `reservations_liveness` | one agent, two jobs | capacity comes back |
| `host_plan_requests` | two requests, two racing answers, refused bind, expiry, one crash | one executor, consumed and answerable waits, row and handle agree, Close leaves nobody |
| `host_plan_cancel` | one request, one answer, cancellation, expiry, changed catalog | settled rows, Close returns |
| `plan_runner` | four nodes in two levels, one a wait; two launches, one answer, one drift, cancellation and crashes | dependencies, barrier, reuse, reverse compensation; every run ends |
| `providers` | three guests on two hosts; two overlay targets; two Cloudflare names, calls against one another or one against the platform; one trouble | invitations, losses of quorum that somebody hears of, ownership, complete routes, the platform's tunnel and records |
| `host_services` | ten domains, two callers, two troubles | stored, running and reported agree; foreign and referenced things are kept |
| `host_front` | eight parts, two or three of each actor, one or two troubles | tokens, contract, permits, streams, tool list, delegations, accepted plans, mounted services |
| `host_plan_two_executors` | three requests for one plan | **violated**, see below |

Some properties are conjunctions of named invariants that belong to one question
(`TasksConsistent`, `ManagerConsistent`, `LedgerConsistent`, `RunConsistent`,
`RunnerConsistent`, `SessionsEnd`, ...). Each part is defined with its own
comment right above the conjunction, and a violation trace shows which one broke.

Several properties carry an exception: `alone`, `overlapped`, `raced`, `left`,
`missed`, `unwritten`, `overtaken`, `crossed`, `llmCrossed`, `Quiet`, `pressureRefused`, `troubles = 0`, no cancellation. An
exception is a race the code does not guard or an error it discards; it is recorded in a variable or
operator of the module and its reason is listed under "Disagreements". Without
the exception the property is false of the code, and with it the property still
speaks about every other interleaving.

### The violated run

`host_plan_two_executors`: the documentation says that a run in flight is reused.
Two requests that re-run a finished plan read the row, check the task and create
it with no lock across the three; the second gets the same record back, and both
start an executor.

### Disagreements

Met while modelling and proving; no run is spent on them.

- Tasks: the operations row stays `working` because the type assertion at
  `store.go:767` fails, though the comment at 757 says the snapshot is a separate
  projection; an answered `request_task_input` is stored as `working` (the
  snapshot predates its continuation) and restored as failed; restored without a
  continuation it stays working when answered.
- Plan runs: cancelling a waiting run leaves its task `input_required`
  (`plan_run.go:892`, comment 875); a refused bindTask keeps `planWG` above zero
  and Close waits for ever (`plan_run.go:262`); the late write of tasks/update can
  replace the stored next wait; the end of a plan's task is never persisted, so a
  completed run that waited has a failed task after a restart; a cancellation
  during a launch, or after an older executor's deferred delete, stops nothing; a
  resumer that read the row before a cancellation and a re-launch writes the old
  status over the new run. Where the second execution has settled by then, the row stays in
  flight, nobody is left to change it, and every later request is told that a run is
  in flight (`plan_run.go:317`, 344, 543; `site/scripts/generate-docs.ts:1570` promises
  a terminal or waiting status): TLC finds `RowSettled` violated under `Spec` when
  `host_plan_cancel` is given a second launcher and cancellation as its only event.
- Runner: after a wait or in a second pass a node is `satisfied` or `unknown` and
  an abort does not compensate it (`runner.go:958`); waits asked again have
  revision 1 again (`runner.go:441` against `schema.go:181`); a node without an
  action behind an applied dependency is failed without being validated; a call
  whose arguments cannot be resolved leaves its node `pending`, and with
  `continueOnFailure` its dependents run; a level with a wait ignores
  `continueOnFailure`; a failed validate leaves the earlier status in place, so a
  node whose reuse was refused stays `applied` (`runner.go:371`) and, with
  `continueOnFailure`, the nodes above it act again although the recipe was
  satisfied (`docs/adr/0002-provider-extension-architecture.md:1344`).
- Plan documents: `${item...}` is accepted in a forEach source, a target's
  hostRef and a compensation, where there is no item; `${input...}` in a wait's
  correlation; partial text `${nodes.<wait>...}` although a wait has no output. A
  node satisfied by preflight publishes the validation's output while types were
  checked against the action's schema; a forEach output is a list checked against
  an object schema; the context schema of the first ancestor wait is used and the
  value of the last is read.
- Reservations: Renew does not look at the expiry, so a renewal after it and
  before a purge revives the record (`service.go:483` says it cannot); one failed
  write ends keepAlive, and once the lease has expired the nodes are refused
  (`reservation_lease.go:125` says they admit on their own).
- Permits: a woken heavy request that is refused for pressure returns without a
  signal, so the wake-up is lost. `AcquireClass` is used by tests only.
- Generations: Drain does not put the generation into draining
  (`generation.go:282`), so sessions keep arriving.
- Activation: a family is displaced and mounted in two calls with no lock across them
  (`recipe_run.go:459`), so two activations that both displace first leave two
  providers mounted for one family, against
  `docs/adr/0016-ha-networking-three-seam-definitions.md:36`: TLC finds
  `ExclusiveFamily` violated when `provider_activation` is given a second run. Two runs about one
  provider can undo what the other has reported: a completed teardown can leave
  mounts. A rollback is refused while the replacement has a session, and the
  cleanup then leaves no active generation (`recipe_run.go:496`); some stored rows
  refuse a restart.
- Context: a disposal that finds its fiber marked goes on at once, so of two
  unmounts the second closes the connection while the first still holds a service;
  displacing the family of a provider's first service closes the connection of its
  other services, which stay mounted (`provider_service_plugin.go:185` says the
  first "tears down last"); a mount that overlaps an unmount leaves a part.
- Dispatch: the catalog snapshot is taken before `catalogMu`, so an older one can
  overwrite a newer; a refresh racing a retirement lists a retired tool;
  handleToolCall checks the revision and reads again; asynchronous children of a
  callback run on a parent's released reservation; a callback that has started
  works on when its call has returned, and the one of a cancelled task may still start
  while the call is being taken down (`resource_delegation.go:139`), since both
  are checked before the reservation only; 2^63 passes the float bound
  (`cost_arguments.go:146`); two providers of one family can be published
  (`server.go:489` against the comment at 476).
- Transport: an RFC 2047 encoded Mcp-Name header is not rewritten with the body.
- Authorization: a revocation that the store refuses is answered 200 as one that
  was written (`service.go:332`), and the token is honoured on.
- Streams: a live console is orphaned when an operation moves to another VM. The
  SQL connector's idle timer checks the count, unlocks and drains; a repeated
  release makes the count negative; the limit is checked before and recorded
  after; stopAll against an ensure in flight leaves an entry without a relay; a
  relay's Stop misses a connection that is being dialled; the guest bridge reports
  success when the port forwards elsewhere.
- K3s: after a failed installer provision only sees the staged binary
  (`main.go:641`); recover-quorum probes the local API server only; joinNode's
  "Refuse a non-empty target" is not checked; the token of a completed join is
  available again, and so is a token after a restart of the process: a reference
  that it does not hold is accepted with a token and version of the caller's, and
  nothing is marked (`membership.go:506`; the comment at 344 says "exactly once");
  a removal deletes on a proof of quorum that may be stale by then, and only its
  last look says so (`membership.go:599`); a collection job that times
  out gets its registry back while it still runs; a cancelled collection leaves
  the registry at zero and later ones fail; deletion by digest takes kept tags of
  the same manifest along (`tools/catalog.go:466`).
- Tailscale: mesh, service and ingress are recorded after a removal that ran
  meanwhile; teardown deletes records of members enrolled meanwhile; failures of
  DeleteDevice are ignored; the default name makes two targets share a hostname.
- Cloudflare: ensure replaces all rules of the named tunnel; unpublish deletes a
  hostname's record even when it points to another dedicated tunnel; ensure
  against unpublish leaves a dangling record; a failed HA install leaves the unit
  on the failing guest (`mesh.go:531`); removeHAEndpoint forgets the endpoint
  before it cleans up; the platform tunnel is checked by name only on upsert. A
  cleanup deletes whatever tunnel and records its inputs name, the platform's
  included, one after the other (`main.go:842`). A record that the platform takes
  over in place after a call has read it is deleted by its identity, and rules that
  the platform added to a tunnel since it was read are overwritten.
- PostgreSQL: removing a service revokes every relay, other services' included,
  and none when the deletion of the Cluster fails or times out, though the Cluster may
  be gone by then (`platform_postgres.go:1169`). `RevokeAllRelays` "is a revocation,
  not a best-effort cleanup" (`platform_postgres_relay.go:563`), but a file that
  cannot be removed is passed over (`:258`, `:430`, `:440`, `:447`), and one without a
  session in the table is not looked at: both come back with the next start. A
  late persistSession, or a crash between entry and file, resurrects a released
  session; the handoff counts connections and closes without the lock
  (`platform_postgres_relay.go:249` against 255).
- Local inference: two starts of one relay orphan the loser's listener; a late
  save resurrects a stopped session; a failed save deletes the successor's entry; a
  restore whose bind or save fails keeps its file; the error of removing a
  session's file is dropped (`relay.go:156`, 182, 286, 292), so a removed relay comes
  back with a restart; a start whose token for the runtime alone differs, or whose
  sources repeat one and add a new one, is taken for the session that is there
  (`relay.go:146`, 74); rebuilding llama-server replaces
  the pinned binary; an update of `ollama-runtime.json` is lost
  (`ollama.go:463`, 671).
- Incus: the reset checkpoint is reused after "reconciled"
  (`incus_stack.go:286`); a crash between deletion and checkpoint makes the resume
  fail; a resize ignores the aggregate budget, and concurrent ones can shrink a
  disk; budget check and launch are separate; a failed attach deletes by name
  without an ownership check; `incus list name` filters by prefix. In audit mode,
  the default, start, stop, restart, resize, delete and reuse work on another agent's
  instance as on one's own (`incus_ownership.go:97`); limits are set before the disk
  may be refused (`vm_lifecycle.go:399`).
- Public MCP: the log is that of the prior unit, or after a restart begins with a
  dead hostname; a rotated token only "start"s the unit; ensure races remove.
- Host policy and WSL: the set-property drop-in outlives a later stricter unit
  file; "locked" is contained in "unlocked" (`wsl_compact.go:236` against 17).
- OCI: a policy update is lost (`storage.go:338` against `service.go:29`); a
  cleanup may remove a cached image between build and push; one build's untag
  removes the tag of another.
- Serving: a claim is reclaimed while the first launch has not written its pid
  file; two racing launches leave the contract recorded that does not run
  (`assignment.go:54`); a crash falls between launch and record; a stray that the
  pid file names is launched beside. A probe that fails while the endpoint is served,
  or runs before the stray is there, skips the branch that refuses to adopt, and the
  launch competes with it without a pre-start command (`assignment.go:408`, comment
  at 428). Two calls for one contract can both launch, since the second finds the
  claim without a living process (`:61`; the comment at 45 says "once").

### Bounds

`TaskIds`, `Launchers`, `Resumers`, `Jobs`, `Agents`, `Clients` and the like are
small sets. Two tasks are enough for every pair of goroutines of `HostTasks` to
meet, since tasks share only the wait group and Close. Two launchers give the
races between requests; the third, in `host_plan_two_executors`, is there because
two must re-run what the first finished. Each slot is used once, so the sets
bound requests and answers. `MaxRestarts` and `MaxCrashes` are 1: state that
survives is in the store, and one restart reads all of it. `MaxSequence` = 3
allows an active generation, its predecessor and a candidate; 2 with two
providers in `provider_activation`, where `MaxTroubles` = 2 lets a restart follow
a refused write. `TTL` = 3 with `RenewEvery` = 1 leaves room for one missed
renewal; two jobs and limits 1 and 2 make every class conflict happen.

The document of `plan_runner` has a level of two nodes that run at once, one with
an action, validation, recovery and compensation, one a mere assertion, and a
level with a wait and a guarded, targeted and compensable node. Two attempts and
two passes are the least with a retry and a sweep; two launches let the second
start from what the first one left; one drift makes a node regress in a sweep.
The semaphore never binds, because no level is wider than `MaxConcurrency`.

In the composed runs `MaxCalls` is the largest share of any part, and each part
starts with `MaxCalls` less its own share. Two calls are enough for two calls to
overlap, three for a third to find what they left, five for tables that need an
entry of two kinds before they can disagree (Tailscale, permits, streams); the
context has four, for two generations that are mounted and unmounted.
`MaxTroubles` is 1, one fault at any step, except for the permits and the services on
the host, where it is 2: a restart and then a relay file that cannot be written,
or a file that cannot be removed and then a restart. Incus in audit mode has 1.
Three guests of which two are servers are the least in which a removal can lose a majority and a third can
join; two relay objects would not show a replaced relay that still listens beside
a third, so there are three. `PlanIds` = 3 gives a producer, a consumer and a node
between or beside them.

Symmetry is used only in runs without liveness. `CHECK_DEADLOCK FALSE` where an
agent that has closed, or callers that have used their budget, really stop; the
reservations keep deadlock checking.

### Fairness

Goroutines that can run are scheduled (weak fairness of each goroutine's steps);
timers fire; a tool whose context was cancelled returns. A plan run is assumed to
end in `HostPlanRun`; `plan_runner` shows it for tools that return, and the runner
ends a call itself where the document sets `timeoutMs`. Nothing is assumed of
clients: a handle need not be polled, an answer need not come, Close need not be
called. For `reservations_liveness` time passes. The composed runs state safety
only: their calls end when external commands do, which nothing guarantees.

## 4. Proofs

TLC checks each property on a small instance; the theorems hold for every value
of the constants that satisfies the assumptions, so for any number of tasks,
agents, callers, generations or names. `PROJECT.json` lists them. Most have the
same shape: an inductive invariant that says, for each step at which somebody is
interrupted, what it has read and may still rely on; one lemma per action; and
the property from the invariant. What the invariants add, and why they are
needed:

**ProviderGenerationsProofs.** `ActiveInv` (sequence numbers cover existing
generations, drained generations exist, the active map is sound, at most one is
active) is inductive by itself. `SessionInv` (held sessions are on generations
that exist, counters equal the number of holders, stopped generations carry
nothing) needs it: a new candidate resets its counter, which is harmless only
because its number is fresh. From the two follow the safety theorems,
`CandidatesAreFresh` and `RetirementIsFinal`. `ManagerServes` is the refinement:
each action of the manager is a step or a stutter of `ServingGenerations`; a stop
is one only because the counter that Dispose reads is the number of holders.

The activations have two invariants. `ActivationInv` holds whatever overlaps:
what is mounted is of a generation that was made active, one provider per family is
published, and a run knows the generation it works on; candidates are isolated by it
(`CandidatesAreIsolated`, `CatalogIsExclusive`). `ApartInv` adds how far each run has
come. Another run about the same provider, or about one that shares a family, can
undo that, so it is preserved while `RunsApart`. `ApartRunsAreConsistent` has this as
a hypothesis on the behaviour; `OneRunIsConsistent` and `UnrelatedRunsAreConsistent`
derive it from the constants. Without it the property is false (see
"Disagreements").

**HostPlanRunProofs.** `planWG` covers every request and executor
(`WaitGroupCorrect`), and after Close none is left (`CloseLeavesNoExecutor`). The
invariant has the inequality: equality is false, because a refused bindTask is
never given back. Every action is classified as entering, moving within, leaving
or staying outside the count; one lemma per class does the arithmetic. About the run
itself, `HeadInv` says that one slot at a time is at work on the run and what it may
still write, `OwnerInv` how row, handle and that slot fit together. Both rest on no
two requests passing the check of the task together (`OneInGap`). `GapInv` shows
this for two requests that nobody cancels, `FirstInv` for one request under every
event; hence `TwoRequestsAreConsistent`, `TwoRequestsSettle` and
`OneRequestSettles`. For more requests it is a hypothesis of `RunsAreConsistent`,
and `host_plan_two_executors` shows what happens without it; with two requests and a
cancellation a row can stay in flight (see "Disagreements").

**PlanRunnerProofs.** The document is any acyclic graph. Below the level at work every
node has returned, with a status of its own or tolerated without one (`Behind`); a node
of that level is looked at through `Status`, the run's state in a serial level and
the clone in a concurrent one, so that merging is not a change; a node at work has
dependencies that permit it (`InOrder`). A run that nothing has disturbed (`calm`)
has no node left to act (`CalmRun`), which a refused reuse ends. Compensation goes
through what was recorded, in the reverse of the order of levels (`Recorded`).

**HostTasksProofs.** `wg` alone says nothing about who holds a reference.
`TasksInv` gives every reference a holder (a creator, a worker, a timer callback:
`RefsCounted`), every job the goroutine it belongs to (`JobPlace`), every step of
Close what it has already turned away (`ClosePlace`), and every terminal record a
row that agrees or a write under way that will make it agree (`RowFollows`).
`CloseIsQuiet` and `TerminalSurvives` are consequences; neither is inductive.

**HostReservationsProofs.** The argument is an amount of time: what is left of
the expiry plus what passed since the last renewal or the admission is at least
the TTL. Under `TimingAssumption` a job whose renewal is still possible therefore
holds an unexpired record; without it a launch and one late renewal can outlast
the lease. The totals are sums over the three classes of cost times cardinality, as
`reservationTotals` computes them class by class, and adding a record adds the
cost of its class.

**HostFrontProofs.** Tokens: the code is marked as used before its handler may
mint, so no two handlers hold the same code, and none holds one that has bought a
token; rows and grants agree (`RowsAgree`), and a row is only collected when its
time is over. A token is withdrawn when a revocation of it was answered, and
`unwritten` as long as the store took none of them. Permits: the four counters are the sizes of the sets of requests in
certain places (`PermitsAreCounted`), and a request that queues, or is refused
because the queue is full, always leaves somebody behind who will wake the
others; this needs that counts are exact, since admission decides by them.
Dispatch: a listed tool is in the table of names, or with a publisher that is
about to remove it or put it there. `ListedIsTracked` alone speaks only of the
moments when no publisher runs, and is not inductive. A call that holds capacity is
being served, so a callback that finds the reservation starts in time.

Streams: both maps of consoles name what is live, and what is live is named; an entry
of the connector table has its relay, or a caller that is about to start or to drain
it. Transport: renaming a tool changes name and header alike unless the header is
encoded, and nothing that selects the contract.

Context: `FiberInv` has two layers. The first holds whatever overlaps: sequence
numbers are given in order, a fiber that applies is the one of the call that holds
`applyMu`, a fiber is disposed by the one call that marked it, the lists of a call name
fibers that were mounted once, a connection is closed by its owner's disposal. Keys
and fibers then correspond one to one (`OwnedByLiveFiber`), and a disposed context is
empty. The second is about a generation on which calls did not cross
(`GenerationInv`): what is live of it is what its one call has mounted so far, or has
still to take down, and the owner of the connection is the oldest. A disposal that
finds a fiber marked by another call goes on without it, so this layer is false where
calls crossed, and the property says so.

**ProvidersProofs.** Tailscale: a call holds a reference across its guest
commands; the invariant says that the reference is the call's target's or
nobody's, which no other call can change. K3s: an invitation marked as consumed
belongs to one join. Removal of a member: the deletion is followed by a look at the
membership; each step that can cost a cluster its majority tells somebody, or is
the deletion itself, whose call has that look still before it (`LossIsReported`).
The proof of quorum before the deletion does not figure in it: it may be stale.
Cloudflare: a call that no other call has crossed finds the tunnel and the records
as it left them, and each step says what is then in place. The tunnel
a call works on did not carry the platform's hostname when it was read, or the call
is marked as overtaken; a record about to be deleted is named by its identity, so one
that the platform creates in its place is not it (`ToPlatform`); the tunnel named
Platform keeps its rules until a cleanup deletes it (`PlatformKept`).

**HostServicesProofs.** One invariant for each of nine domains. Storage: a registry
at zero replicas has a call that will scale it up. Policy: what was written, what
is loaded and what the probe sees. Serving: while an unknown stray
serves, and no call missed it (`missed`), there is no unit and no pid file to adopt by,
so a call that goes on frees the port before it launches. OCI: only the holder of the mutex removes, and what it
listed is still old when it removes it, since a build makes images anew but young.
Inference runtimes: no two starts are under way unless they overlapped. Incus: a
call never commands an instance that it has seen as another agent's, except one it was
asked for by name where ownership is not enforced (`ByName`). `ForeignUntouched` had to be stated with the identity
of an instance rather than its name: with larger instances of the model than TLC
explores, a name that was another agent's can be deleted by its owner and taken
by this agent, and then be resized lawfully. Instances now carry an identity
(`made`), and the property protects what was another agent's when the call began.
Public endpoints: the connector runs the target of the unit file, or the call that
wrote the file is on its way to restart it; a call that no other has crossed reads
its own target there. PostgreSQL: a relay that is open is in the table, or its owner
has taken it out and is about to close it; a file names a session in the table,
one that is being stopped, or one that it outlived (`left`); while nothing ran into it,
a removal has still to revoke whatever sessions there are, and one that is done has
left only such files (`ServicePlace`). Inference relay: on an id on which calls did not cross there is
at most one call, and it knows the table entry, the listeners and the file it will
find, step by step (`StartFinds`); a step that does not come near an id leaves all
of this as it was (`PassesKeep`). The proof attempt showed that the property was true
of the earlier bounds only: a session that `restore` opens and cannot save again is
closed and its file stays, which takes a restart and a refused write. Such an id is
excepted, as are one whose address could not be bound and one whose file could not be
removed, and `MaxTroubles` is 2.

Assumptions, each named where its constants are declared: sets that are counted
are finite (`Clients`, `TaskIds`, `Jobs`, `PermitRequests`, requests and answers of
a run); the model values `None`, `NoTool`, `NoTarget`, `NoFile`, `NoRelay`, `NoLlm` and so on are not members of
the sets they stand beside; bounds, limits and times are natural numbers, and the
permits' limits positive (NewCoordinator replaces others); no
dedicated tunnel is asked for under the platform's name or hostname, which is refused
at once (`CloudAssumption`); `Sizes` has a maximum; a registry has replicas;
`TimingAssumption`. TLC evaluates all of them on the run's instance.

Only model-checked:

- Liveness (`CloseTerminates`, `PendingResolves`, `CapacityReturns`, `RunEnds`):
  the prover does neither fairness nor ENABLED.
- `PlanReferences.AcceptedPlanRuns`: it rests
  on levels and reachability in a graph of any size, a recursive function and a
  transitive closure, about which induction is not available.
- Beyond the hypotheses of the theorems on plan runs and activations: with more
  requests, or two and a cancellation, `RunConsistent` and `RowSettled` are false of
  the code, and so is `ActivationConsistent` where related runs overlap; the passing
  runs stay within the hypotheses.

## 5. Plan

Every safety property of the runs but `AcceptedPlanRuns` is stated by a theorem. What
would add a question:

1. `forEach` and a failing Sink in `PlanRunner`; `HostPlanRun` as the abstraction of
   `PlanRunner`.
2. The registry of tool handlers and the descriptors of the catalog
   (`tools/catalog.go`), now a choice in `ToolDispatch`.
3. `AcceptedPlanRuns` for any document, with levels given by an assumption (as
   `PlanRunner` has them) rather than computed.

## 6. Not modelled

Parts of modelled components: in the runner `forEach`, JSON schemas and a Sink
that fails; in dispatch the table of built-in handlers, evidence redaction and
result validators; in the catalog descriptor and schema validation (a choice); in
OCI builder packages and build contexts; in serving the ingress manifest and the
container and cluster runtimes, which are composed of other tools; in the state
store migrations and the tables of runtimes and endpoints; in the Cordis context
events, listeners and Effect, of which the agent registers none. Manifests, unit files, SQL, addresses, names,
sizes and wording are abstracted everywhere. Database and disk errors are
modelled for the reservations file, the provider rows, the relay files and the
revocation of tokens.

Whole components: the instance lock (a kernel lock, assumed: one process per
instance); the application runtime and command line (start and stop order);
recipes (a pure translation into plans); heartbeat (measurement); command
execution (operating-system processes); façade, configuration, fingerprints and
identifiers (pure functions); contracts, client packages and schemas; the npm
launcher, site and deployment files.
