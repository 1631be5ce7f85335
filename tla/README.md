# Onlyboxes: TLA+ specifications and proofs

Onlyboxes runs commands in sandboxes.  A **console** accepts requests over HTTP
and MCP, and **workers** that run the sandboxes keep a gRPC stream open to it.
A *terminal session* is a sandbox that outlives one command, so the console has
to send every later command of a session to the worker that holds it, through
disconnects, restarts of either side and failures of its database.  These
modules model that machinery and what surrounds it (tasks, accounts, previews,
the sessions of two kinds of worker), check it with TLC on small instances and
prove with TLAPS, for every size, what the console keeps about routes, tasks,
previews and accounts.

## The system and its parts

| Part | Source | Module |
|---|---|---|
| Route table: session to worker, in memory and in SQLite | `console/internal/grpcserver/terminal_session_routes.go`, `console/internal/registry/store_terminal_session_routes.go` | `RouteTable` |
| Dispatch of terminal commands, renewals, deletions | `grpcserver/service_dispatch.go`, `terminal_session_lease.go` | `TerminalDispatch` |
| Effect of connections, worker removal and restart on routes | `service_connect.go`, `service_credentials_runtime.go`, `cmd/console/main.go` | `TerminalDispatch` |
| Connections: handshake, slots, pending commands, heartbeats, the worker's row and credential | `service_connect.go`, `session_runtime.go`, `service_credentials_runtime.go`, `registry/store_worker_lifecycle.go`, `worker-docker` and `worker-sys` `session_client.go` | `WorkerConnection` |
| Tasks: submission, execution, cancellation, retention | `grpcserver/task.go`, `service.go`, `persistence/db.go` | `Tasks`, refining `TaskService` |
| Public preview routes | `grpcserver/proxy_routes.go`, `httpapi/proxy_routes.go`, `registry/store_proxy_routes.go` | `PreviewRoutes`, over `RouteTable` |
| Accounts, dashboard sessions, API keys, tokens, just-in-time accounts | `httpapi/console_auth*.go`, `api_keys_auth.go`, `mcp_auth.go`, `jit_auth.go` | `Accounts` |
| Which workers and sessions an account may reach | `grpcserver/task_owner_scope.go`, `task_worker_sys_routing.go`, handlers of `httpapi` | `Ownership`, over `Accounts` |
| Docker worker: terminal sessions and their recovery | `worker-docker/internal/runner/terminal_exec.go`, `session_recovery.go`, `terminal_resource.go` | `DockerSessions` |
| E2B bridge worker: sessions, recovery, one-shot sandboxes | `worker-bridge-e2b/internal/runner`, `internal/e2b/client.go` | `E2BSessions` |
| Worker registry, Sys worker, start-up | `registry/store*.go`, `worker-sys`, `cmd/console` | in part, in the modules above |
| BoxLite worker, configuration, object store, web dashboard, web site | `worker-boxlite`, `console/internal/config`, ... | not modelled |

How they interact.  An HTTP or MCP request is authenticated (`Accounts`), its
session id is scoped to the account and its target checked (`Ownership`), and
it becomes a task (`Tasks`).  The goroutine of the task calls
`dispatchCommand`, which picks a worker; for a terminal session it goes through
the route table and may be refused for capacity and try the next worker
(`TerminalDispatch`).  The command takes a slot of the worker's connection and
travels over its stream (`WorkerConnection`), the worker runs it in the sandbox
of the session (`DockerSessions`, `E2BSessions`) and answers, and the answer
confirms the route, makes it durable and completes the task.  When a worker
reconnects, the console sends it the sessions it has on file, the worker adopts
their sandboxes and removes the others, and the console keeps or drops the
routes according to the report.  A preview route exposes a port of a session
for as long as the session's route and its account exist (`PreviewRoutes`).

`PROJECT.json` maps every definition to the lines it models, and lists the
hazards of the code, the properties that cover them, the checks and the
theorems.

## The modules

**`RouteTable`** has no variables: a table is a record of the routes, the
reverse index from workers to sessions, the SQLite rows and the reservation
counter, and each function of `terminal_session_routes.go` that runs under the
mutex is an operator from tables to tables.  Store calls take an argument that
says whether they succeed; a failed call leaves the rows as they are.

**`TerminalDispatch`** is the console around the table.

| Variable | Code |
|---|---|
| `tbl` | the table of `RouteTable` |
| `cur`, `conns` | `RegistryService.sessions` and the `activeSession`s, with the progress of each `Connect` |
| `reqs` | the requests in progress: exec and resource commands, renewals, deletions |
| `provisioned` | the credential of each worker during its removal |
| `now` | the clock |

A request takes one step per critical section: `LookUp` (prune, snapshot, ready
check), `Claim`, `PickBound` / `PickFull` / `PickOffline`, `ClearStale`,
`Choose`, `Reserve`, `Send`, `Answer`, then the outcome: `Success`, `NotFound`,
`CapacityExceeded` (perhaps with a retry), or an ending that proves nothing
about the session (`NoProof`).  A connection goes through `Hello`,
`ClaimConnection` (policy reject), `BeginConnection`, `SwapConnection`,
`Report`, `LeaveConnection` and `MarkRoutes`; a worker is removed by
`DeleteWorkerRoutes` and `RevokeWorker`; `Restart` restores the table from the
rows.  Left open: which workers are listed as online, which has a free slot and
which is preferred.  Merged into one step because no route depends on what is
in between: swapping connections and closing the old one, registering a command
and queueing it, applying a report and acknowledging it.  `WorkerConnection`
has these apart.

**`WorkerConnection`** is one worker and its streams.  `conn` holds for each
stream the `Connect` handler, its `activeSession` (slots, both outbound queues)
and its writer; `current` is the entry of `RegistryService.sessions`; `row` and
`cred` are the worker's registry row and its credential, in memory and in
SQLite; `admin` is the provisioning or removal in progress; `cmd` holds for
each command the caller, the pending entry and the result channel; `worker` is
the client loop of a Docker worker, which reports recovered sessions, or of a
Sys worker, which does not; `up` and `cut` are the frames under way and the
streams that are broken.  The handler's sections, each store call, each
enqueueing, the two selects of the writer, every path by which a caller leaves
and the drain of `close` are steps of their own.  Faults: a stream that breaks
and that neither side need notice, an acknowledgement that comes after the
worker gave up, a failing statement, a console crash, a removal.

**`Tasks`** keeps the two halves of a task apart: `rows` is the table in SQLite
and decides the status, `runtimes` the records in memory whose context stops
the execution and whose channel wakes waiters.  `subs`, `execs` and `cans` are
the calls of `SubmitTask`, the goroutines of `executeTask` and the calls of
`CancelTask`; each database statement and each critical section is a step, and
a statement may fail (at most `MaxFailures` of them), a read as well as a write:
`getTaskByID` reports a read that failed as a task that is not there, and its
callers answer accordingly.  A client can cancel a
task only once some submission has told it the id.  The outcome of a dispatch
is left open here; `TerminalDispatch` models it.  A row carries one field that
is not a column, `done`, the console's time when the outcome was known.

**`TaskService`** is what tasks promise, without rows, records or goroutines: a
task is open until it has one outcome, the outcome stays until the task is
forgotten, a request id belongs to one task at a time, and a call is told what
is true when it is answered, or, when a read failed, that its task is gone
(`Misread`); failures are counted, at most one of them per such answer.  **`TasksRefinement`** maps the rows to the
statuses and the answers of calls to what was told (`INSTANCE TaskService
WITH ...`) and states `ImplementsService`.

**`PreviewRoutes`** joins three lifetimes: the handler's map (`routes`, under
`h.mu`, whose holder is `mu`), the rows of `proxy_routes` (`rows`) and what the
rows refer to with `ON DELETE CASCADE`, the terminal route (`table`, the
operators of `RouteTable`) and the account.  Deleting a terminal route drops
the rows at once and revokes the memory copies session by session (`revoking`);
a dispatch without an answer confirms a route in memory and leaves it without a
row (`ConfirmInMemory`);
deleting an account drops rows and revokes later (`removing`); creating a route
inserts the row and files it afterwards.  `gate` is a gateway authorization in
four steps, each of which may find that the world has moved on: the record is
found under the lock (`GetRoute`), the terminal route is looked up with a clock
read at some time before (`AuthorizeProxyRoute`), the connection is looked up and
a token signed or an address asked for (`SignToken`), and the answer is sent
(`Respond`); creating a route looks up the terminal route and the connection in
two steps as well.  A field that is not in the code, `ended`, remembers when the
terminal route of a request in progress ended last.  Whether a worker is
provisioned is not represented: removing one is the removal of its routes here.

**`Accounts`** has the three tables and the session map, and requests that are
authenticated first and handled later, one step per query, transaction or
critical section of `sessionMu`.  **`Ownership`** extends it with workers and
terminal sessions.  An identifier is the sequence of its colon-separated
fields, so that scoping and parsing of session ids are what the code does with
separators; dispatch is one step there.  `workers` holds the owner and the type
of every worker provisioned so far and is not erased, since a worker whose rows
were deleted may still be connected, or be the one a request has checked;
`retired` are those whose rows are deleted, and the ids, which are random, are
not drawn again.  Connections are not state here: a dispatch may always find its
worker offline, and may find any worker connected that was ever provisioned.
Removing a worker is two steps, the routes and then credential and row.  A task
payload either decodes or does not.  One that does is scoped to the account and
routed by its session; one that does not is forwarded as it came, without a
scope and without a route (`task_owner_scope.go:141`, `:169`), to any worker
(`Forward`), and the console then checks only the session named in the answer.

**`DockerSessions`** is the worker's session manager.  `mgr` is what its mutex
protects: the map from ids to session structs, the structs (goroutines and
timers keep pointers to structs that left the map) and the count of reserved
sessions.  `containers` is the state of Docker; containers are named after the
session id, so two structs of one id mean one container.  `cmds`, `recs` and
`closing` are the goroutines of commands, of recovery and of `Close`.  Docker
commands are steps of their own, with outcomes left open.  The faults an
instance may switch on: `remove` (a forced removal fails), `linger` (a killed
`docker create` leaves its container), `discovery` (listing containers fails),
`close` and `restart`.  A container that Docker failed to remove is `left`.  A
resource request is a command that joins a session
without extending its lease; answers that change nothing (busy, not found) are
left out; the attempts of a recovery are a retry at any time; a container that
recovery finds with other labels or in a state it cannot be started from is
removed, and which ones those are is left open.

**`E2BSessions`** is the same manager over a remote service, where sandboxes
end by themselves at a timeout.  `obj` are the session objects with the three
times of a lease (wanted, confirmed, remote), `map` the sessions by id, `box`
the sandboxes, `retiring` the sessions that left the map and are being killed;
`recovery`, `pending` and `ready` are the handshake of a new connection.  The
moment a remote call takes effect and the critical section that follows it are
separate steps when a sandbox is created, its timeout set or a recovered one
connected to, and each of these calls may fail before it takes effect or after:
the context ends or the answer cannot be read (`client.go:524`).  A sandbox whose
creation failed that way is `lost`: the session is destroyed with a nil sandbox
and nobody kills it.  A call that has failed is taken to have no later effect.
Listing the sandboxes of a session and connecting to the one found are one step,
as are running a one-shot command and the kill that follows it.  One fault per
behaviour beside these: the worker restarts, it reconnects, a sandbox dies, a
kill fails.

`MC*` modules add the instances' sets and symmetries, and `*Proofs` modules hold
the proofs.
Operators announced as mutants describe plausible slips in the code (a dropped
guard, a forgotten release); each makes the property named for it in
`PROJECT.json` fail, which shows that the property depends on that code.

## What is checked

| Run | Shows |
|---|---|
| `routes_race` | Two requests on one new session and two workers, with capacity retries, under the reject policy: the uses counted on a provisional route are exactly the requests that hold it, a confirmed session stays on its worker (`Sticky`), and leases that arrive out of order never shorten a lease. |
| `routes_recovery` | Dispatches, renewals and deletions on two sessions of one worker under the replace policy, where two connections may recover at once, with expiry, disconnects, the removal of the worker, restarts and store failures: the reverse index is exact, and every row is backed by a confirmed route with at least its lease, so a restart restores nothing that was not confirmed. |
| `docker_restart` | The worker dies anywhere and recovers two sessions with capacity for one: the reserved capacity is what live sessions hold, and a recovery that completes leaves no container without a session. |
| `docker_liveness` | Two commands create, share and leave sessions of one id: every container has somebody who will remove it unless Docker failed to, capacity comes back, `Close` completes, and a session that nobody extends ends at its lease, by its timer alone. |
| `task_races` | Two submissions, an execution, a cancellation and one failing statement race: a request id gets one task, even when the look-up fails; the first terminal status stays; no runtime record outlives its task; a call in mode sync is answered only with a complete task, if no statement fails. |
| `task_settle` | With a retry, a cancellation, a statement or a read that fails and a restart anywhere: running tasks become terminal, waiters are answered, rows are kept for the retention and deleted after it; all of it, restart and retention included, is a behaviour of `TaskService`; that the races of `task_races` are too is the theorem `ServiceImplemented`. |
| `connection` | Two streams of one worker, two commands: slots in use are exactly those of the commands that hold one, whichever of result, caller and `close` is first; a caller whose session closes is answered. |
| `connection_restored` | Under both policies and for both kinds of worker: a session that is open can be found by whoever has to close it, and after any one fault, also one that the console never notices, a provisioned worker is connected again and stays connected. |
| `preview` | Limits hold, across restarts too; a route that can be found has its row, hence its account and its session on that worker, unless it is just being revoked; a removed route stays removed; a token outlives the confirmed terminal route it was signed for by no more than a token's lifetime, and never its preview route. |
| `ownership` | Two overlapping requests over the whole API: secrets never outlive their account; a just-in-time caller acts as its own account; sessions from before a password change or a deletion are ended; a task whose payload the console scoped reaches its account's terminal sessions only, an answer handed on and a listing name no others, under the ids the account chose; Sys workers run for and are deleted by their account. |
| `e2b` | Three commands, two at a time, with one fault: slots are exact, a confirmed lease never exceeds the remote timeout, a sandbox is not killed while a command the worker accepted runs in it, none is forgotten but one whose creation failed after it took effect, and that one ends at the timeout it was made with; and no state is without a successor but the ones where all commands are answered and all slots returned. |

The type invariants of the modules beside `TerminalDispatch` (`TypeOK`,
`OwnershipTypeOK`, `E2BTypeOK`) hold on the same instances; they are named in no
configuration.

One run ends in a counterexample: `dying_session`.  A command that finds its
session inactive keeps its slot; the session never drains and holds its
capacity.  The comment that says otherwise is quoted in `PROJECT.json`.

### Further observations

These properties are stated in the modules and belong to no run.  Each has a
counterexample on an instance like those of the runs, found by naming it in the
configuration given.

| Property | Configuration | What happens |
|---|---|---|
| `OfflineKeepsConfirmedRoute` | `RoutesRecovery.cfg` with one session and two requests | A route that was confirmed meanwhile is cleared because its worker is away, and the session moves. |
| `ReconciledRoutesReady` | `RoutesRecovery.cfg` | A connection that ends late marks the routes unavailable that its successor has reconciled. |
| `RemovedWorkerHasNoRoutes` | `RoutesRecovery.cfg` | A dispatch during the removal of a worker leaves a route to it. |
| `ZeroReservationRefreshesConfirmed` | `RoutesRace.cfg` with one worker, `Leases = {2}` and three requests | A late result of a dispatch without a reservation confirms a provisional route of another dispatch. |
| `PendingDestructionOwnsId` | `DockerLiveness.cfg` | A session is replaced while its predecessor's container is still to be removed. |
| `TimeoutSparesSiblings` | `DyingSession.cfg` with `Structs = {o1, o2}`, `MaxInflight = 1`, `MaxTime = 1` | A command of an expired session times out and destroys the session that replaced it. |
| `AlarmMeansStranded` | `TaskRaces.cfg` | The fallback after a failed statement reports a critical failure for a task that was just cancelled. |
| `RetentionKept` | `TaskSettle.cfg` with `Skews = {1}` | The retention of a task is counted from the worker's clock. |
| `HandshakeFirst` | `Connection.cfg` | The two selects of `writerLoop` let a command overtake the recovery acknowledgement; the worker takes it for a protocol error and reconnects (`console/README.md:70` promises the order). |
| `RemovedStaysRemoved` | `PreviewRoutes.cfg` with `"recreate"` in `Faults` | A just-in-time account that is deleted and made anew before `RevokeOwnerRoutes` runs gets a route filed that the late revocation removes from memory only; a restart brings it back. |
| `LimitsKept` | the same | In that window the limit per session is exceeded after the restart, or, with `MaxPerAccount = 1` and `MaxPerSession = 2`, the limit per account (`docs/API.md:552`). |

Met while modelling, and excluded from the properties by their wording:

- A login that verified the old password, or a `ChangePassword` in progress,
  can create a session after the change or deletion that ends the others; two
  overlapping changes with the same old password both succeed
  (`docs/API.md:206`).  `SessionsEnd` speaks of earlier sessions.
- Deleting an account leaves its workers and its terminal sessions.
- A superseded handshake can leave its session in the worker's row, and a
  handshake that overlaps a removal can leave a session and a row; both last
  until the next connection or pruning.
- A payload of `terminalExec` or `terminalResource` that the console cannot
  decode is forwarded unscoped.  `SessionsPrivate` says of it only that no answer
  naming a session of another account is handed on; what the worker, whose
  decoder is its own, does with such a payload is outside the model.
- E2B: a sandbox whose creation took effect although the call failed stays until
  its timeout, since nobody knows its id (`terminal_exec.go:516`,
  `python_runtime.go:45`).  `SandboxesOwned` allows these and says that they keep
  that timeout; a recovery after a reconnection may find one by its metadata and
  adopt or extend it, or kill it with the others it finds.
- E2B: a recovery on a new connection takes the console's lease for a session
  it knows without asking the service (`session_recovery.go:89`), so that the
  local lease may exceed the sandbox's timeout; and it may adopt a sandbox that
  a command of the old connection is about to kill.  `LeaseBacked` and
  `CommandsKeepSandbox` exclude reconnections.  Recovery does not check
  capacity, so the count may exceed the maximum until sessions end.

### Bounds

One or two workers, sessions, ids and keys, one to three requests or commands,
two connections, a clock of one or two ticks and a retention, lease or TTL of
one or two ticks.  Each hazard listed needs two or three actors and one expiry,
and a connection and its successor; two structs of one id (a session and its
replacement) are what a stale pointer or a stale name takes.  `MaxReservations`,
`MaxUses`, `MaxAttempts`, `MaxFailures`, `MaxRestarts`, `MaxRequests`,
`MaxSessions`, `MaxFaults`, `MaxEvents` and `MaxTime` bound counters that the
code does not.  One statement fails in the task runs, since the fallback writes
once more and a second failure leaves the row to the next start; `connection`
has one fault beside one command or two commands without a fault, under the
policy that lets a new stream replace the old one and with the worker that takes
commands at once and counts them itself, which is where streams and commands
overlap most; `connection_restored` has no commands and all policies and kinds
of worker.  A worker's queues hold one frame, so that they can be full.  In
`e2b` two commands share a session and a third follows; a session full with two
only refuses a third, which changes nothing.  `MaxTries` stands for the 8
attempts of an insertion.  In `ownership` the two requests start from an empty
database or from one with an administrator, an account and their sessions, key
and token; there is one password, since no property asks which one it is and a
wrong one is met where the account has none.  Clients choose plain session ids,
ids with separators, and ids with the prefix reserved for Sys workers.
In `preview` the limit per session is the one that is met, since one session
takes both keys; the limit per account follows from `RoutesWithinLimits`.
In `RoutesRace` no time passes (the clock starts at its bound), so no route
expires there; that `Sticky`, `LeaseNeverShortened` and `ProvisionalUsesExact`
survive expiry is proved for every clock, and `RoutesRecovery` has a clock that
moves.  `RoutesRace` has positive leases: with lease 0 a result confirms nothing and the
use of its request stays counted, so that `ProvisionalUsesExact` has a
counterexample there.

Actors and ids are symmetric; symmetry is used for invariants and action
properties only.  Deadlock is checked for the dispatch, for preview routes and
for E2B, whose behaviours end in `Finished` only.  The other systems really
stop: a worker that was closed, calls that all returned, requests that are used
up.

### Fairness

`DockerSessions`, `Tasks` and `WorkerConnection` have liveness properties.
Goroutines that can take a step take one: Docker commands and dispatched
commands run under a deadline, and every other wait is for a channel that
another goroutine closes.  Lease timers fire, the pruners tick, heartbeats are
sent and their time-outs fire when no acknowledgement can come, since all are
timers of the runtime; the worker's loop connects again for ever, and a stream
delivers what it holds as long as it is whole.  No fairness is assumed of
clients, of the operator, of the Docker worker's janitor (so leases end without
it), of restarts or of failures, nor of the console noticing a broken stream.

## What is proved

The theorems hold for any sets of workers, sessions, requests, tasks, keys and
accounts, any bounds and, where no hypothesis says otherwise, any faults.

| Module | Theorem | States |
|---|---|---|
| `TerminalDispatchProofs` | `TypeCorrect` | `[]TypeOK` |
| | `IndexCorrect` | `[]RoutesIndexed` |
| | `PersistenceCorrect` | `[]PersistedRoutesBacked` |
| `TerminalStepProofs` | `SessionsStick` | `Sticky` |
| | `LeasesGrow` | `LeaseNeverShortened` |
| | `UsesCounted` | `[]ProvisionalUsesExact`, if `"store" \notin Faults` and `0 \notin Leases` |
| `TasksProofs` | `TypeCorrect` | `[]TypeOK` |
| | `RequestsDeduplicated` | `[]SameRequestSameTask` |
| | `SyncCallsComplete` | `[]SyncAnswersComplete` |
| | `RecordsReleased` | `[]RuntimeReleased` |
| `TasksServiceProofs` | `OutcomesFinal` | `TerminalFinal` |
| | `RetentionCorrect` | `RetentionKept`, if `Skews \subseteq {0}` |
| | `ServiceImplemented` | `ImplementsService` |
| `TaskServiceProofs` | `OutcomesToldForGood` | `[]ToldForGood`, of `ServiceSpec` |
| `PreviewRoutesProofs` | `RoutesBackedByRows` | `[]RoutesPersisted` |
| | `RemovalIsFinal` | `[]RemovedStaysRemoved`, if `"recreate" \notin Faults` |
| | `RoutesWithinLimits` | `[]LimitsKept`, if `"recreate" \notin Faults` |
| | `TokensBacked` | `[]GrantsBacked` |
| `OwnershipProofs` | `TypeCorrect` | `[]OwnershipTypeOK` |
| | `SecretsAlwaysOwned` | `[]SecretsOwned` |
| | `JitNeverImpersonates` | `[]JitActsAsItself` |
| | `SessionsStayPrivate` | `[]SessionsPrivate` |
| | `ListingsExact` | `[]ListingExact` |
| | `RevocationEndsSessions` | `SessionsEnd` |
| | `WorkersServeOwners` | `OwnWorkersOnly` |

The hypotheses are the conditions on which the code keeps the property, not
conveniences: without them the property has a counterexample (a use that
stays counted when a result carries no lease or its upsert fails; a worker's
clock that runs behind; a just-in-time account made anew too soon), and the runs
check the property on the same conditions.

The assumptions on the constants are the named `ASSUME`s of the modules: special
values (`None`, `Gone`, `NoRoute`) are none of the ids or records, bounds are
natural numbers, durations are positive, the sets that are counted are finite,
the id of a just-in-time account is none of the random ones, and a session id is
a non-empty sequence of fields.

**The route table.**  `RouteTableProofs` shows that each operation on a table
preserves `TableConsistent` (types, index, rows backed by routes), one lemma per
operation, whatever its store calls answer, and says what the operation does to
the other routes: it only drops some (`Drops`), confirms or extends one
(`Evolves`) or counts one use more or less (`Counts`).
`TerminalDispatchProofs` proves the inductive invariant `IInv`: the type
invariant, `TableConsistent(tbl)`, and what a goroutine knows from its earlier
steps (`RequestShape`: which worker and connection it has picked and that it
has an attempt left; `ConnectionsShaped`).  The last part is needed because
`Reserve`, `Success` and `CapacityExceeded` use a worker chosen steps ago, and
without knowing that it is one, the table they write would not be a table.
`TerminalStepProofs` derives the two action properties from `Evolves` and
`Counts`, one lemma per group of actions, with `Restart` apart.  The use count
needs a stronger invariant, `CountsExact`: a request that holds a provisional
route knows its worker, and its reservation is one that was handed out, so that
a reservation made later never has holders before it has uses.

**Tasks.**  `IInv` of `TasksProofs` says what each call knows: a creating call
is alone with its task (`OwnTask`), a reservation of a request id has one holder
and a stored request id one row, and a runtime record of a settled task has
somebody about to remove it (`Finishing`).  Its last part, `Clean`, holds as
long as no statement has failed: an open task is being created or executed, so
whoever finds no runtime record finds a settled task; that is what a call in
mode sync relies on.  `TasksServiceProofs` classifies every step by its `Effect`:
the table stays, or one row is inserted or updated while open, or expired rows
are deleted, or the start-up fails the open ones; and at most one call is told
something, in a step that leaves the table alone.  Finality and retention follow
from the effects on the table.  Under the refinement mapping of
`TasksRefinement` each effect is a step of `TaskService` or a stutter, which
with the initial states is `ServiceImplemented`.  What is proved of the service
is therefore true of `Tasks`; `OutcomesToldForGood`, whose property belongs to
the abstract module and to no run, is such a fact: an outcome that was told is
never replaced, because `Settle` needs an open task.

**Preview routes.**  The invariant relates the three copies of a record, the
row, the map and the request between the two: they agree, and one without its
row expires, or its session or its account is about to be revoked (`KeyInv`).
`RowsReferenced` are the foreign keys.  The operations of the route table enter
by one fact about each (`Follows`): a session that loses its row loses its route
in the same step and is revoked, and a row carries the lease of its route.  If
no account is made anew before it is revoked, also every live row is in the map
or about to be filed (`RowsLoaded`), which is why a restart brings nothing
back, and the limits count what a restart would load (`WithinLimits`), not only
the map.  `LimitsKept` alone is not inductive: `Restore` would not preserve it.
Tokens need a third invariant, about requests in progress (`GateOK`): the clock
a request has read is not ahead of the present, and the terminal route a request
has found still stands or ended no earlier than that reading.  So a token, which
runs for its lifetime from the reading, ends within that time after the route.

**Accounts and ownership.**  The invariant has one part per table (names are
unique; a secret has its account and its own value; drawn session ids are an
initial segment, so a new one is new), what a request carries at each place of
its handler (`RequestShape`), and two facts about checks that are used steps
later: the sessions a password change or a removal is to end belong to the
account as long as they exist (`Ending`), and a worker that was checked is the
account's whatever happens to its rows (`Targeting`: labels are not erased and
ids not drawn again).  A terminal
session has the scoped id of the account that asked for it (`BoxInv`), and
scoping is injective, whatever separators the client's id contains: that gives
privacy of scoped tasks and exact listings; of a forwarded one, an answer that
unscopes to the account can only name a session with the account's scope.  The action properties follow from `Moved`: a
step is one of at most one request, and where a password change or a removal
answers and where a task is dispatched only one action is possible.

Counting rests on `FiniteSetTheorems`: each module states what it needs of
`Cardinality` once (`Countable`, `KeysCountable`).

Only model-checked:

- Liveness (`TasksSettle`, `WaitersAnswered`, `ExpiredCleaned` and those of
  `DockerSessions` and `WorkerConnection`): liveness under fairness and
  `ENABLED` are out of the prover's reach.
- The safety properties of `DockerSessions`, `E2BSessions` and
  `WorkerConnection`: they count slots and containers over the places of many
  goroutines, and their inductive invariants are not worked out.

## What is not modelled

- What commands print, payloads, headers and files; the wording of errors;
  hashing, cookies and the format of tokens.
- The BoxLite worker, written in Rust: it follows the session protocol of the
  Docker worker over a runtime of its own.
- The Docker worker's sandbox proxy and python runtime, the processes of the
  Sys worker: I/O without state that outlives a command.
- The registry's capability and label rows, statistics and paging; which of
  several workers is preferred.
- An old recovery goroutine of the Docker worker that is still running when the
  next begins; reconnect delays; graceful shutdown of the console.
- Configuration, migrations, the object store, the dashboard, the web site:
  sequential code, I/O and generated files.

## Plan

1. `CapacityAccounted` of `DockerSessions` and `E2BSessions` and `SlotsExact` of
   `WorkerConnection` as theorems: counts over the steps of many goroutines,
   along the lines of `TerminalStepProofs`.
2. `RouteTable` composed with a worker's sessions over a stream that breaks,
   and the promise that a session the worker answered for is found again.
3. The sessions of the BoxLite worker.
