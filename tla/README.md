# A model of Kubby in TLA+

Kubby is a Go server with a React interface through which a team looks at, and
changes, several Kubernetes clusters. The server keeps accounts, sessions, the
clusters' sealed credentials and an audit trail in PostgreSQL; it holds caches,
streams, port-forwards, shells and background workers in memory; two commands,
one for rotating the encryption key and one for backups, work on the same
database.

This directory holds its specification: modules that model one component each,
two abstract specifications, four modules that instantiate them for TLC, and
eight that prove theorems about them with TLAPS. Paths below are relative to
`src/server/internal/` unless they say otherwise.

To check one run: `tlc -workers 2 -config MCSignIn.cfg MCSignIn`. To check one
proof: `tlapm BackgroundProofs.tla`. `PROJECT.json` lists the runs, the lines each
definition stands for, a mutant that breaks each property, the hazards and the
theorems.

## 1. Inventory

| Component | State | Operations | Hard behaviour | What makes it correct |
|---|---|---|---|---|
| Audit shipper (`audit/shipper.go`, sinks) | bounded channel, batch, four counters, stop context | `Enqueue`, worker `run`/`deliver`, `Close` | full queue, retries after partial storage, select with several ready cases, a deadline that cuts the drain | every event counted once; a close flushes or loses a bounded part; `Close` returns |
| Audit recording (`audit/audit.go`, `audit/manager.go`, settings handlers) | stored setting and token; installed shipper | `Record`, `Apply` (saves, start), `Close` | saves that overlap each other, the start and the shutdown; a replaced shipper still in use | no shipper leaks before the shutdown or is closed twice; what runs is what is stored |
| Sign-in (`auth/service.go`, `store/users.go`) | failure and lockout counters, block, lock time | `Login`, record failure/success, `Unblock` | decisions from a row read before the hash is checked | no failure is lost; the last lockout blocks |
| Users (`httpapi/user_handlers.go`, `store/users.go`) | role, active flag | create, first-run setup, update | check and write in separate statements | an administrator is left; no more founders than racing first-run requests |
| Second factor (`auth/service.go`, `store/recovery_codes.go`) | secret, confirmation, codes | enrol, confirm, reset, use a code | overlapping transactions, a secret replaced during confirmation, two uses of a code | a code counts once; the sets that work were shown or are accounted for; an active secret was proven, or replaced a proven one |
| Sessions (`auth/service.go`, `store/sessions.go`) | session rows | sign-in, resolve, rotate, mark, log out, revoke, expire | a refresh sent twice; revocation racing with rotation and sign-in | one live session per sign-in; no access before the factor; log-out is final |
| Envelope and key rotation (`crypto/envelope.go`, `cmd/kubby-rotate-key`) | sealed rows, key ring, the command's copies | seal, open, rewrap | cut and resumed runs, wrong keys, a server that goes on saving | values are kept; each row touched once; success means done |
| Backup (`backup/`, `cmd/kubby-backup`) | accounts, clusters, grants, setting, archive | export, restore | reads that are no snapshot; a restore cut half way and repeated | archives are closed; a restore completes and spares what is there |
| Clusters (`cluster/service.go`, `monitor.go`, `health.go`, `kubeconfig.go`) | row, sealed kubeconfig, recorded status | register, replace, remove, check, monitor | a probe made with an old credential, or of an old server, recorded late | the status becomes what the credential is worth; one alarm for one loss |
| Informer cache (`cluster/informers.go`) | map cluster → entry, stop channels | `Warm`, reads, `Release`, `reapIdle` | a release between two halves of `Warm`; ids that are stale when released | an entry is stopped exactly once; the old credential goes |
| Lists, watches, streams (`cluster/watch.go`, `resources.go`, `httpapi/stream_handlers.go`, the browser's cache in `src/web`) | watch, bounded channel, query cache | list, watch, restart, send, patch, poll | the gap between list and watch, resets, patches across either, a lagging cache | the table comes to show the cluster |
| Pod verdicts (`k8s/trouble.go`, `health/workload.go`, `cluster/projection.go`, `overview.go`) | none | four readings of one pod | precedence of rules over phases, init containers, sidecars | the four agree |
| Writes (`cluster/write.go`, `write_guard.go`, `operations.go`, `drain.go`, `httpapi/write_handlers.go`) | the clusters' objects, lock, grants | apply, scale, restore, restart, rollback, drain | gates and versions that are stale at the write, records made of a count read earlier, merge patches, evictions refused | a lock stops all but one document; no lost update; what is undone comes back; a drain tells what stayed |
| Node shells (`cluster/nodeshell.go`, `sweeper.go`, `httpapi/exec_handlers.go`) | privileged pods, settings | create, wait, end, sweep | crash between creation and removal, lost answers, a namespace that moves | a pod outlives its shell only by a fault, and is swept |
| Terminal and exec (`kubectlsh/`, `httpapi/terminal_handlers.go`, `exec_handlers.go`, `session_recorder.go`) | line, history, child, credential; pipe, transcript | frames, commands, uploads, leaving | a verb behind a flag with a value, recalled lines, leaving in the middle | every command answered and recorded; nothing is left behind |
| Log sweeps (`cluster/logs_sweeper.go`, `logs_source.go`, `logsearch/`, `settings/logs.go`) | remembered answers, rules | sweep, forget, edit, judge | a source edited during a sweep, mappings that differ between indices, names that namespaces share, rules that overlap | the answer comes to be that of the source; findings are the wanted lines of a name, once each |
| Metrics source (`cluster/metrics_source.go`, `metrics_discover.go`) | row, default, remembered search | choose, search, forget | a search of the old server put in the memory after it was forgotten | the source comes to be right |
| Fleet (`health/fleet.go`, `collector.go`) | cached cards, row status | ask, sweep, cut short | a sweep cut short whose card serves everybody | every card comes to be true |
| Search (`cluster/search.go`) | none | one search over clusters and kinds | a cluster or kind that fails, pages, limits | what was left out is named |
| Cluster overview (`promql/clusterhealth.go`, `panels.go`, `nodes.go`, `summary.go`) | none | many queries at once, one answer | answers in any order, each query failing alone | the panels agree; the verdict was earned by a reading |
| Port-forwards (`httpapi/forward_handlers.go`, `cluster/forward_listen.go`, `forward_dial.go`, `portforward.go`) | registry, listeners, tunnels | start, list, use, remove, expire; copy both ways | competition for a small range; lazy expiry; halves of a connection that end at different times | no port leaks; every start is answered; an answer arrives whole and the tunnel goes |
| Debug containers (`cluster/debugcontainer.go`) | the pod's list | attach, wait, shell | read and update in two calls, names by the second | a shell is in its own container; a refused attempt leaves none |
| Rate limit (`httpapi/ratelimit.go`, `realip.go`) | buckets | request, reset, sweep | forged headers behind proxies that tell the address in different ways; a bucket dropped too early | a request counts against its client; sweeping is not seen |
| Relations, helm, describe, secrets, the texts of queries, the other rows of a table | none of their own | reads and conversions | – | out of scope, section 9 |
| Store plumbing, configuration, logging | pool, settings read once | – | – | out of scope |
| Web interface (`src/web`) | browser state | requests | doubled requests, two tabs | only the query cache of a table, and the callers of the above |

How they interact: handlers resolve a **session**, and record what they did in
the **audit** trail, which hands the event to the installed **shipper** and then
stores it. Replacing a **cluster** credential releases its
**informer** entry and is probed; an edit of a cluster forgets its **log** answer
and its **metrics** search. A deactivation or password change revokes
**sessions**. **Streams** read what the informers hold, or watch directly; the
**fleet** reads the status that the monitor records. The **rotation** and
**backup** commands are processes of their own that share only the database with
the server.

## 2. Modules

| Module | Stands for | State ↔ code | Actions ↔ code |
|---|---|---|---|
| `AuditDelivery` | the abstract promise of a shipper | pending events, sent, dropped | offer, settle the oldest, close |
| `Shipper` | `audit.Shipper` | `queue` is the channel, `batch`/`attempt`/`pc` the worker, the counters the atomics, `closer` where `Close` is | `Enqueue*`, one per case of `run`'s select, one per way an attempt ends, the sleep between tries, `CloseStart`/`CloseDeadline`/`CloseReturn` |
| `AuditTrail` | `Emitter.Record`, `ShipperManager`, the setting's handler, start and shutdown | `setting`, `token` are the rows; `current`, `config`, `enabled` the manager's fields; `life` the queues | each database statement and each critical section is one step |
| `Lockout` | the account's row during sign-in | the columns of the row; `seen` what an attempt read | `Begin` reads, `WrongPassword` is the one UPDATE of `RecordFailedLogin`, `Unblock`, `Tick` |
| `Administrators` | list of users | role and active flag; what an update loaded | admission, load, the two checks and the two writes, first-run setup |
| `SecondFactor` | TOTP and recovery codes | the columns and the code rows; what a request read | enrolment, the statements of a confirmation, match and consumption of a code |
| `Sessions` | session rows | rows with a lineage (`line`) and the row lock of a rotation | read/insert of a sign-in, update/commit of a rotation, resolve/revoke of a log-out, snapshot/commit of a revocation |
| `KeyRotation` | `Keyring` and `kubby-rotate-key` | rows are records of version, key and content; `ring` the server's, `env` the command's | `Save`, `Delete`, `Restart`, and `List`/`Reseal`/`Store`/`TableDone`/`Cut` of a run |
| `Backup` | `backup.Service` | tables, archive, what the command has read | each query of an export, each row of a restore, cuts anywhere |
| `Registration` | a cluster's row, the probes of a save, a check and the monitor | `row` is the row with its kubeconfig, `probe` what each prober holds, `previous` the status the sweep's list showed | `Create`/`Replace`/`Refused` validate a paste, `ReadCredential`/`Ask`/`Record` are the three halves of a probe, `Sweep`/`Reload`/`Stop` the monitor, `Turns` the API server |
| `InformerPool` | `InformerPool` with its callers | `caches` is the map, `entries` what it points at, `stops` the closes of a channel | `Load`, `WarmHit/Miss/Start/End`, `Cached`, `Replace`, `Release`, `StopEntry`, the reaper's two loops |
| `ResourceStream` | one table of one reader | `watch` is the goroutine of `Watch`, `out` its channel, `cache` the informers' store, `rows`/`loaded` the query cache | the list's halves, `Poll`, the watch's start, end, reset and backoff, `Deliver` patches the rows |
| `PodVerdicts` | what is said of a pod | the pod; the four words | `Judge` evaluates `PodTrouble`, `PodStatus`, `Inspect`, `PodProblem` over every pod of a bounded set |
| `ApplyWrites` | apply of several documents | lock, grant, review, versions; a request's step and what it holds | `Authorise`, `Gates`, `Get`, `Send` for each document; `Lock`, `Grant`, `Roles`, `Other` in between |
| `Scaling` | scale and restore | `spec.replicas` and the scaled-from annotation | `Read` and `Patch`, `Find` and `Restore`, in calls of their own, and other scalers |
| `Drain` | cordon, plan, evict | where each pod is, what is left of the plan, the refusals | `Cordon`, `Plan`, `Evict`/`Refuse`, `Finish`; arrivals, departures, an uncordon |
| `Rollouts` | restart and rollback of a Deployment | template, ReplicaSets with revisions, the template a rollback found | `Restart`, `Find`, `Patch`; `Apply` and `Prune` by others; the controller is external |
| `NodeShells` | node shell sessions and their sweeper | settings, phase and pod of each session, where the sweeper is | `Ask`, `Create*`, `Started`/`NeverStarts`, `Ends`, `Delete*`, the sweep's list and deletes, `Save`, `Crash` |
| `Terminal` | the kubectl terminal | frames on the socket, the line and history, child process, credential, audit trail | one action per key the loop handles, `CommandEnds`, `LimitPasses`, `Prompt`, `Leave` |
| `PodShell` | an exec session | the reader goroutine, the frame it holds at the pipe, recorder, what reached the container | `ReadFrame` records and offers, `Take` empties the pipe, `ExecEnds`, `Close`, `Return` writes the transcript |
| `LogSweeper` | the sweep of log stores and the edit of a source | source and secret of each row, `results`, the sweep's rows, the edit's step | `Tick`, `Open`, `Asked` of a sweep; `SaveRow`, `Forget`, `SaveSecret` of an edit |
| `LogFindings` | one sweep's question and answer | settings, the lines under each pod name, the types of the field; the findings | `Judge` evaluates the mapping, rules, clauses, thresholds and the roll-up |
| `MetricsSource` | where history is read from | row, default, `memory` of a search, what a reader holds | `Choose`, `List`, `Search`, `Fallback`, and `SaveAddress`/`Forget`/`ReplaceCredential` |
| `Fleet` | the cards of the fleet page | row status, cached cards, how far each sweep is | `Ask`, `Read` of each detector in any order, `Done`, `CutShort`, `Answer`, `Probe` |
| `Search` | a search by name | what each cluster and kind answers; the result | `SearchAll` evaluates scores, pages, limits and failures |
| `PortForwards` | the registry and the local listeners | phase, port and connection of a session; who listens on a port | the hunt, `Add`/`Get`/`List` with the expiry they begin with, removal, accept, pipe |
| `Tunnel` | one connection of a forward | `asked`/`answer` count what each direction sent, read and passed on; where the two copies, the reader of the error stream and the handler are | one action per read, write and end of a copy, the refusal, `pipe`'s end, the cases of `Forward`'s select; the two ends act on their own |
| `DebugContainers` | debug containers on one pod | the pod's list and version; what each attempt read; what was recorded | `Get`, `Update` and its refusals, the poll's outcomes; the kubelet, other writers |
| `Overview` | the panels read from Prometheus | the metrics, the queries that fail, the findings in the order of the answers | `Collect` adds the answer of one query; the table, tiles, cards and the verdict are operators over what was answered |
| `TokenBuckets` | the abstract promise of the limiter | a bucket for every client, for ever | request, reset, tick |
| `RateLimit` | `rateLimiter` and `realIP` | the map of buckets, the sweep's clock | `Request` arrives through proxies (external), finds the client and takes a token, `Reset`, `Tick`, `Sweep` |

`SecondFactorInvariant` holds the strengthening of `SecondFactor`'s properties, and
the modules whose names end in `Proofs` the theorems (section 6).

`MCSignIn`, `MCBackground`, `MCSecrets` and `MCServices` check several of these
machines side by side. They do not share state, so a variable `part`, chosen in
the initial state, says which of them moves; a run explores the union of their
state spaces and not the product. Most machines are
instanced with shared variables for their own (`s1 .. s14` in `MCServices`,
`s1 .. s11` in `MCBackground`, `s1 .. s16` in `MCSignIn`, `t1 .. t16` in `MCSecrets`), since only one of
them has a state at a time; the next-state relation names each of its actions,
so an action that never fires shows in TLC's coverage. Properties of the same
kind are stated as one, each clause guarded by its `part`. The assumptions on the constants of
an instanced module are definitions that the MC module states as an ASSUME, so TLC
evaluates them. Findings about one machine alone are checked in it (`AuditTrail`,
`Administrators`, `InformerPool`, `KeyRotation`, `Backup`, `Fleet`), or in its part
of `MCServices` (`SearchSpec`, `OverviewSpec`), with a `.cfg` of their own.

## 3. Abstractions

* A password, code or token is right, wrong, or an identity; a message, an object
  or a kubeconfig is its version. Encryption is a record of key, version, binding
  and content, opened only by the same key and binding.
* One SQL statement is one step, at READ COMMITTED; a transaction is split where
  another transaction can come between (`DeleteOld`/`CommitCodes`,
  `RevokeSnapshot`/`RevokeCommit`, `RotateUpdate`/`RotateCommit` with its lock).
* One call to a Kubernetes API server is one step. The API server, the
  controllers, the scheduler and the kubelet are external: they answer, refuse,
  fail or lose an answer, and change objects on their own.
* Time is a bounded clock where durations are compared (`Lockout`, `RateLimit`,
  `MetricsSource`, `Fleet`), and elsewhere a step that may happen at any moment (a
  deadline passes, a session expires, an entry falls idle, a pod becomes old).
* A sink answers anything: it stores any part of a batch and then acknowledges it
  or not. A database statement may fail where the code has an error path.
* In `ResourceStream` one object stands for each namespace, and a client that
  polls directly lists what the API server holds. In `Fleet` a read of a detector
  is answered or not; a read that a warm informer cache serves while the cluster
  is down is not distinguished from one that is answered.
* A terminal's line is one of a few commands: its tool and the words behind it.
  A line of a log is the slice of the window it fell in, its kind and its
  namespace; the name of a pod is a number. Of the types of the message field
  `text` stands for the three that index terms, `keyword` for all that are not in
  `analyzedTypes`.
* Proxies are external, and of three manners: one appends the caller to the
  `X-Forwarded-For` line it was given, one adds a line of its own, one says the
  caller in `X-Real-Ip`.
* In `Tunnel` a message is one read and one write, and a write to an end that
  does not read is not modelled as blocking; the copies are counted, not kept.
* In `Overview` all queries of a reading see the same metrics. Of a pod there are
  its phase, whether it is ready and the reasons of its containers.
* The pure parts (`PodVerdicts`, `LogFindings`, `Search`) take one step: the
  inputs are all those of a bounded set, the answer is what the code computes, and
  the property compares it with a definition that does not follow the code.
* History variables are named as such where they are declared; a guard reads one
  only to bound it. Several are there to say when operations overlapped, because
  the property is only true of those that did not.

## 4. Runs

Four runs hold; each gathers the machines that share a question.

| Run | Bounds | Why they are enough | Shows |
|---|---|---|---|
| `sign_in` | lockout: 3 attempts, 2 failures to a lockout, 2 lockouts, clock to 4; administrators: 3 users, 2 updates, 2 first-run requests; factor: 2 requests, 2 secrets, 3 sets of 2 codes; sessions: 2 requests, 2 sign-ins, 3 sessions, 1 revocation | the third attempt acts on a row two others changed; two updates, confirmations or uses of a code overlap; a rotation races with every other call | the failure ledger and the block at the limit; an administrator left, and no more founders than first-run statements that ran at once; single use of codes, each set that works shown, about to be or lost to a failure, an active secret proven or issued during a confirmation; one live session per sign-in, factor before access, log-out and revocation |
| `background` | shipper: queue 2, batch 2, 2 tries, 4 events; pool: 2 viewers, 1 administrator, the reaper, 2 entries; forwards: 3 on 2 ports; tunnel: 2 messages each way | a full queue, a full and a partial batch, a retry and a close can coincide; an entry can be replaced by another; one more forward than ports; a message is under way when a half ends, with another behind it | events are conserved, a batch is stored at most once per try, a close flushes or loses less than a queue and a batch and returns, the worker implements `AuditDelivery`; entries are stopped once, the old credential goes, idle entries are released; ports are accounted for, starts are answered, an answer arrives whole and the tunnel goes |
| `secrets` | 2 credentials and a TOTP secret, 2 runs; 2 users, 2 clusters of one name, 3 changes, 2 exports or restores; audit: 2 saves, each of which is a recorder too, start, shutdown, 2 destinations | a run can be cut and resumed; a restore can meet a partial one and a foreign row, and an export the grants of a user and a cluster; three appliers and the shutdown meet in every order, and a save records with a shipper the other replaced | values kept, rows touched once, success means rewrapped; archives closed, restores complete and sparing (`BackupKept`); before the shutdown no shipper is leaked, after it one at most, that of an application that swapped late; none is closed twice (`ShippersAccounted`), what runs is what was stored |
| `services` | below | below | what a reader is shown comes to be what is so, what a session leaves goes, and what is written, undone, moved, recorded or found is what was asked |

The machines of `services`:

| Machine | Bounds | Case that must fit | Clause |
|---|---|---|---|
| `RateLimit` | 2 clients, 1 proxy, 4 forged headers, 3 routes, 3 manners; a cost of 2 ticks, full at 3, idle at 3, a sweep every tick | a bucket emptied by two requests a tick apart, refilled, dropped and asked again; a forged line, and a forged `X-Real-Ip`, by each manner of proxy | `KeyIsTheClient`, `ImplementsTokenBuckets` |
| `ResourceStream` | 2 namespaces, all or one chosen, 2 changes, a channel of 1, 1 fault | a change between list and watch, a change lost with the watch, a full channel | `ViewsSettle`, `ViewsKept` |
| `NodeShells` | 2 shells, 2 namespaces, 2 faults, 1 move | a crash in each phase, and another during the sweep | `PodsAccounted`, `ShellsEnd` |
| `Terminal` | 3 frames, 3 commands, 1 byte of uploads | type, recall, enter; interrupt; leave with a command running | `SessionsTell`, `ShellsEnd` |
| `PodShell` | 3 frames of 1 or 2, a transcript of 3 | a frame that does not fit; a frame at the pipe when the session ends | `SessionsTell`, `ShellsEnd` |
| `LogSweeper` | 1 cluster, 2 stores, 2 changes, 1 failed call | an edit while a sweep holds the old source | `ViewsSettle`, `ViewsKept` |
| `LogFindings` | 3 names in 2 namespaces, 4 logs, 4 stored rule lists, 2 sets of owners, all sets of 3 types | overlapping rules, a disabled net, pods of one and of several parents, a name of both namespaces | `FindingsTell` |
| `Registration` | 3 pastes, 2 servers, 3 changes, 1 failed call | a save, a check and the monitor each hold a credential; the server turns | `StatusSettles` |
| `ApplyWrites` | 1 request, 2 objects, 3 versions, 1 change of a gate | the gate closes between two documents; an edited text is overtaken | `WritesGuarded` |
| `Scaling` | 2 callers, counts 0, 2, 3, 4 calls, 1 failure | two scales overlap, then a restore | `UndoLands` |
| `Drain` | 2 pods that move, 1 that stays, 1 failure, 5 changes | a pod arrives after the plan; a budget refuses | `DrainAccounts` |
| `Rollouts` | 2 fields of 2 values, 3 revisions | a revision that lacks a field the current one has | `UndoLands` |
| `MetricsSource` | 1 reader, 2 servers, 1 service, found for 2 ticks and not found for 1, 3 changes | a search of the old server ends after `Forget` | `ViewsSettle`, `ViewsKept` |
| `Fleet` | 1 cluster, 2 readers, 1 detector and the capacity, 1 tick, 1 change | a sweep of one reader is cut short and the other reads its card | `ViewsSettle`, `ViewsKept` |
| `Search` | 2 clusters, 2 kinds (1 cached), 4 lists, pages of 2, 2 hits | more hits than fit; a kind or a cluster that fails; a page that ends early | `SearchAccounts` |
| `PodVerdicts` | pods of at most 1 init container and 2 containers, of 7 kinds for the first | init containers, a sidecar and an application fail in turn and together | `VerdictsAgree` |
| `DebugContainers` | 2 sessions, 2 seconds, 1 change by others, 1 lost answer | both read the list before either writes it, in one second or in two | `PodsAccounted` |
| `Overview` | 2 pods of 8 kinds, one in a phase of no name; sets of failed queries | a pod that several queries find, in any order; a query missing of each panel, that of the pods by node included | `PanelsAgree` |

Eight runs are counterexamples, each of one statement of the repository
(section 7): `audit_trail_stream`, `administrators_race`,
`informer_pool_credential`, `key_rotation_saves`, `backup_export`,
`fleet_unreachable`, `search_listed`, `overview_partial`.

The passing runs say `CHECK_DEADLOCK FALSE`, because their machines stop when
their bounded inputs are used up. Symmetry is used only in runs without a
liveness property, over sets whose members the modules never tell apart.

A property of several clauses has one mutant in `PROJECT.json`. The other clauses
have mutants too, which stand in the modules before the definitions they replace
(`Version_Read`, `Reload_EverySweep`, `Fresh_Always`, `Gather_LastSeverity` and so
on); each of them violates its property in the same run.

Bounds that are not constants of the code: `MaxOffered` (events offered),
`MaxNow` and `MaxFailures` (clock and failures between two clearings),
`MaxSecrets`, `MaxSets`, `MaxSignIns`, `MaxSessions`, `MaxEra`, `MaxEntries`,
`MaxVersion`, `MaxContent`, `MaxRuns`, `MaxRevision`, `MaxOps`, `MaxCalls`,
`MaxMoves`, `MaxFrames`, `MaxSent`, `MaxChanges`, `MaxFaults`. Each stops the
environment from asking, changing or failing again, never a process from
finishing what it began. `MCServices` has them under a name for each part
(`ShellFaults`, `RowChanges`, `DrainChanges`, `GateChanges` and so on). That
faults are bounded is what the liveness properties need and the code cannot promise more: a cluster that fails for ever is never
shown right. `MaxBytes` and `Limit` are limits of the code, made small.

## 5. Fairness

Fairness is weak everywhere, and is owed by processes of the server and of the
browser that nothing blocks; nothing is owed by people, clusters or sinks.

* `Shipper`: the worker goroutine, whose sends have a timeout and whose tries are
  bounded, takes steps, and `Close` returns once the worker has. Nothing obliges
  a caller, the sink to succeed, or the deadline to pass.
* `InformerPool`: a list request that began to warm an entry goes on, an
  administrator's handler releases what it replaced, whoever took an entry off
  the map stops it, and the reaper's ticker fires. Nothing obliges informers to
  sync or readers to return.
* `PortForwards`: the handler that opens a forward runs to its end. Nobody has to
  call the registry, so idle sessions need not go.
* `Tunnel`: the two copies, the reader of the error stream and the handler run.
  Clients and pods may keep a connection open for ever.
* `ResourceStream`: the browser's poll fires and its requests are answered or
  fail (every request has a timeout), the stream reconnects, the watch goroutine
  forwards, resets and retries, and the informers follow the cluster.
* `NodeShells`: the sweeper's ticker fires and its calls end, in success or
  failure; a handler goes on to create, wait (its wait has a timeout) and delete;
  a pod grows old. A shell need not end.
* `Terminal` and `PodShell`: the goroutines take the frames that came, notice a
  closed socket, and a command or an exec stream *whose context was cancelled*
  ends. Left alone it need not; the terminal's limit for a command passes.
* `LogSweeper`, `Registration`, `MetricsSource`, `Fleet`: tickers fire, a sweep, a
  probe or a request under way takes its next step, and the clock of a cache
  moves. The readers of `Fleet` and `MetricsSource` ask again, as their pages do.

In the MC modules the fairness of a component is owed while its `part` moves.

## 6. Proofs

The proofs hold for every value of the constants, under the assumptions named
with them. Each follows one path: the inductive invariant `IInv` of a component
is checked by TLC on the bounds of its run, and then proved in three facts (`Init
=> IInv`, `IInv /\ [Next]_vars => IInv'`, `IInv => ` the property), with one
lemma per conjunct and in it one step per action.

A property of an MC module is a property of several
machines side by side. Its theorem is about `MCSpec`: every action of one
machine, as its `part` guards it, is a step of that machine's `Next`, and it
leaves the variables of the others as they are, so the invariants of the
components are those of the composition (`SignInInvariant`,
`BackgroundInvariant`, `SecretsInvariant`; in `ServicesProofs` one lemma for each
part). With that, every invariant and every action property of the four runs that
pass is a theorem; what is left to TLC is what needs fairness (below).
`MCServices` takes the sets and bounds of its parts as constants, down to the
pods, logs and rules that the pure parts range over, so that its theorems are
about any of them.

| Proof module | What it proves about | Assumptions |
|---|---|---|
| `SignInProofs` | `Lockout`, `SecondFactor`, and all of `MCSignIn` | `LockoutAssumption` and `SecondFactorAssumption`: threshold, limit, durations and sizes are positive; the ladder may be empty |
| `AdministratorsProofs` | `Administrators` | `NobodyAssumption`: the null value is no account |
| `SessionsProofs` | `Sessions` | `SessionsAssumption`: bounds are numbers |
| `BackgroundProofs` | `Shipper`, `InformerPool`, `PortForwards`, `Tunnel`, and all of `MCBackground` | `ShipperAssumption`: sizes and tries are positive; `InformerPoolAssumption`: readers, administrators and the reaper are different processes, a cluster's id is not one of the labels of a step; `PortRangeAssumption`; `TunnelAssumption` |
| `SecretsProofs` | `KeyRotation`, `AuditTrail`, and all of `MCSecrets` | `KeyRotationAssumption`: the kinds of secrets are disjoint; `NoneAssumption`: the null value is no ciphertext; `AuditTrailAssumption`: recorders, saves, start and shutdown are different processes |
| `BackupProofs` | `Backup` | `BackupAssumption`: the null value is no address, name or cluster |
| `ViewsProofs` | what a reader looks at, as parts of `MCServices`: `ResourceStream`, `LogSweeper`, `LogFindings`, `MetricsSource`, `Fleet`, `Search`, `PodVerdicts`, `Overview` | bounds are numbers; namespaces, clusters, kinds, pods and containers are finite sets, a log has a namespace to be of, lists are sequences; a null value is none of the values it stands beside; pods are of the shape `Pod`; a pod of the overview is in a phase of `Phases`, on a node of its cluster or on "unknown" |
| `ServicesProofs` | `RateLimit`, against `TokenBuckets`; `ApplyWrites`, `Scaling`, `Drain`, `Rollouts`, `NodeShells`, `DebugContainers`, `Terminal`, `PodShell`, `Registration`; and all of `MCServices` | `LimitAssumption`: a burst refills within `IdleTTL`; clients, proxies and garbage differ. The bounds are numbers; objects are finite sets; a pod that moves is not of a daemon set; no label a user sets is the hash of a ReplicaSet |

**Behind a sign-in.** The lockout's invariant is its types, `FailureLedger` and
`BlockedAtLimit`: the ledger needs the count to stay under the threshold, or a
lockout would not be worth exactly `MaxAttempts` failures. That the count an
attempt read may be old does not matter, because `RecordFailedLogin` is one
statement over the row as it is. `BlockOutlivesSignIn` is an action property
from the same invariant.

`AdministratorLeft` is not inductive: whether a write is safe depends on the
check made before it. The invariant adds `Holding` (a request in the window has
an account and a role to write) and `Alone` (it is alone there unless updates
overlapped, and `Known` says what it may rely on: its copy of the role is that
of the row until it writes it, and a check it passed still holds when it
writes). A request that promotes its target and then deactivates it is the case
that needs most: the second check reads the old role, and passes, and the
invariant shows that another administrator exists because the target was none.
`FoundersBounded` needs that a founder's row stays, so that a later statement
sees it, and that the founders and the statements that still run are together
never more than ran at once: once there is a user no more of them start.

The second factor (`SecondFactorInvariant`) needs `Fresh` (the set a
confirmation generates is its own, and no code of it is stored until it
commits), `SpentIsGone` (a code that satisfied a session is in no table and in
nobody's hands), `Crowd` (take any transactions that are open: they, and the sets
that none of them deletes (`Kept`), are together no more than were open at once)
and `Crossing` (a confirmation was given a right code for the secret of the row,
or that secret was issued while one was being confirmed).

A session table keeps one live row per sign-in because a rotation holds the
lock of a row that stays live until it commits (`Locks`), and a row keeps the
sign-in it came from (`Lines`, `Working`). That a revocation leaves only what was
being created is `Overlaps`: a request that runs across it either is marked late
or read the account after the change.

**In the background.** The shipper's invariant is `Books` (the types, where
the worker and `Close` are, what the batch then holds, and that every event is in
one place), `Order` (the batch and then the queue are in the order of the
offers) and `Copied` (what the sink may have seen of them). `Conservation`,
`RetryLedger`, `CloseFlushes`, `LossBounded` and `ClosingAccounts` follow from
`Books`: what they say of a returned worker depends on what it can hold in each
of its phases. `BoundedCopies` needs `Copied`: an event that is still queued has
never reached the sink, and one in the batch as often as there were tries. With
`Order`, a delivery that ends settles a run of the oldest pending events, and
that is the step mapping of `ShipperDelivers`: the shipper implements
`AuditDelivery`, each of its steps a step of it or a stutter.

The pool's invariant is `Stations` (what a process holds where it is) and
`Places` (an entry is on the map, or in the hands of exactly one process that
will stop it, or was stopped once; one not made yet is untouched). Without
`Places` the entry a release takes off could be in another process's hands, and
be stopped twice, which in Go panics. The forwards need `Hunting` (the hunt
stays in its range), `Alone` (one listener at a port) and `Held` (a listener is
of a session that has the port and is not over). The tunnel needs `Stages`
(which copies live with which state of the handler), `Copying` (a message that
was read is written or held by the copy that read it) and `Settled` (what the end
of a copy says of its source).

**The commands.** `KeyRotation`'s invariant adds `Rows` (what versions rows and
rings have), `Place` (what the command holds where it is), `Copies` (its copies
carry the values of the rows, but for secrets on which a save raced), `Once`
(each record is listed once, not under the version of the run, and not if it was
rewrapped) and `Raises` (what a run with a raised version has not rewrapped yet
is still in its hands). Without `Copies` a store could write back any value;
without `Once` a second run could rewrap again; `DoneMeansRewrapped` is `Raises`
when nothing is left.

A backup's archive is closed because accounts are never removed and the grants
of a cluster are listed only when the cluster is in the draft (`Exporting`, with
`ForeignKeys` of the tables). A restore is complete because what has left its
draft is in the rows (`Back`, `Full`), and spares what was there because the
cluster in its hands is one it created (`InHand`).

The audit trail leaks no shipper before the shutdown because one is opened and
put into service by one process (`Building`), and is out of service exactly when one process has yet
to close it (`Serving`). What runs is what is stored because an application that
is alone read both rows as they still are (`ReadAlone`), and the manager
remembers the configuration of the shipper in service (`Remembered`), which
makes it right to skip an application that changes nothing (`Installed`). After
the shutdown the shipper in service, which nobody will close, is that of an
application that had yet to swap (`Late`); `ClosedOnce` holds throughout.

**The rate limit**, for all clients, proxies, headers, routes, costs and times:

* `ClientKeyed`: a request whose client can be known (`Vouched`) counts against
  it. It can be known without a proxy, and behind proxies that append to the
  header, whatever the client forged: the hops a proxy appends stand to the right
  of what was forged, and the scan from the right stops at the first that is no
  proxy. Behind proxies that add a line of their own, of which the code reads only
  the first, or one that sets `X-Real-Ip`, which the code reads only when there is
  no line, it can be known of a client that forged nothing. A client that
  forges behind one of those chooses whom it counts against (section 7).
* `SteadyAlways`: the inductive invariant. The clock and the buckets have their
  shape, and a bucket on the map has earned tokens for exactly as long as it has
  been idle, which is at most `IdleTTL` and the time since the last sweep.
* `Implements`: the limiter refines `TokenBuckets`, in which no bucket is ever
  dropped. The refinement mapping reads a missing bucket as a full one; a sweep
  maps to a stutter because what it drops has earned `Full`, every other step to its
  counterpart.
* What it rests on is `Full <= IdleTTL`: a burst refills within the fifteen
  minutes after which a bucket is dropped. That is so of the values as shipped (10
  a minute with a burst of 5, 600 with a burst of 100), and is not checked of
  others (`config/config.go:274-277`): with a large burst and a small rate a
  client would gain by waiting to be forgotten.

**What is written to a cluster.** `WritesAreGuarded` needs `InHand` (a request
past its authorisation has a document) and `Stopped` (one that has written under
the lock is before the next authorisation, or was shown the lock): without it a
second late write could not be excluded. `DrainsAccount` needs `Underway`: what
is still on a cordoned node while pods are evicted is still on the plan or was
refused. `UndosLand` is an action property over two invariants: `Recorded` (a
workload that runs runs what it last ran, and a record is never of zero) and
`Held` (a rollback under way holds the fields of the revision it is to bring
back, and no template carries a hash).

**What a session leaves.** `PodsAreAccounted` needs `Uncreated` (a node shell
that created no pod has none, and the sweep holds none of it) and, of debug
containers, `Named` (a name is the second of its attempt, and tells whose it
is), `Read` (a list is that of the pod unless the version says otherwise, which
is what the compare-and-swap of the API server rests on) and `Attached` (a
container is there from its update until the pod goes).
`SessionsAreTold` is about two machines. A terminal's trail `Matches` its history
because a command is recorded in the step that keeps it (`Stages` says
where the loop is meanwhile). A transcript has what the container received
because frames keep the order they were sent in wherever they are, at the socket,
at the pipe or behind it (`Numbered`), and what was not cut has what went through
(`Noted`). `AlarmedOnceAlways` needs `Alarmed`: an alarm is about a row that still
shows the invalid credential, and the next sweep was shown that.

**What a page goes on showing.** `ViewsAreKept` is the safety half of
`ViewsSettle`, and needs no fairness: a page that is right, and has nothing wrong
on its way to it, stays so for as long as nothing changes. What "nothing wrong on
its way" means is the substance of it, and differs from page to page. A table is
`Settled` when also the answer under way, the informers' cache, the events of the
watch and the changes in the channel say what the cluster holds; that a change
patches a row the reader asked for is `InScope`. Log counts are `ToldSoFar`: no
edit is under way, the sweep asks with the rows and rules of now, and each
cluster is told or still to be asked. A source of metrics is `Sound` when the
memory and what each reader holds between two calls are of the server of now; it
rests on `AnswersLabelled` (a Prometheus that answers carries the label it is
searched by), without which a search could forget a good address. Cards are
`Sound` when each sweep has found what is ill among what it has read.
`TypesAlways` is the shape of all of these machines and of the writing ones.

**What is computed in one step.** `SearchesAccount` and `VerdictsAlwaysAgree` are
about operators over any input of their shape. A search has an answer because
what all kinds list is finite, so the best of it can be counted out
(`FiniteHits`). The four words for a pod agree because each reason that one of
them names is a failure of a container, found at the first place of the list
where there is one (`TroubleTells`, `StatusTells`, `ProblemTells`): the least
element of a set of places takes the place of an induction over the list.

`PanelsAlwaysAgree` is about five readings of the same metrics, and four of them
fold over what was read. The provers have no induction, but the library's fold is
a recursive function, of which they can show that it exists (`FoldExists`) and
what it has reached after each place (`FoldReaches`): an invariant of the
accumulator does the rest. The list is `Listed`: what was answered, in whatever
order, and nothing else. What `collapsePodFindings` keeps of it is `Retained`, for
each container the one finding of the best rank, which does not depend on the
order (`Collapsed`) because no two findings of a container have one rank
(`OneOfARank`). The cards add up every placed pod when one seed that knows all
machines and the query of pods by node were answered, and never another pod. The
tile adds up parts that share no pod (`TotalIs`), so it counts
each once. A row of the table is the outcome of five reads, each of which may
write the reason or leave it (`RowReads`, `Written`, `Unwritten`), and it says the
reason and the exit of the finding of that pod (`RowOfFinding`).

`FindingsAlwaysTell` is about names, under which pods of several namespaces may
have written, and has three parts. The list of findings is an order of a set,
and that one exists must be shown: the place of a finding is the number of louder
ones (`LoudestFirstIs`). What is asked finds what is wanted when it fits the
types of the field (`Fits`, `Agreeing`, `MatchingIs`), a name is then told in the
namespace that most of what is wanted is from (`HomeIs`), and the first rule declared is the
least place of those that match (`FindingIs`). What is gathered of a workload
while the findings are gone through is, after each of them, one record of those
of its pods that were met (`GatherIs`, `RolledIs`): their lines counted as a set
of pairs, their worst severity, and the sample of the first, which is the
loudest.

**Only model-checked.** What needs fairness, which this prover does not reason
about: the fair part of `ImplementsAuditDelivery` (its steps are `ShipperDelivers`),
`BackgroundSettles`, and of `services` `ViewsSettle` (what it comes to is kept,
`ViewsAreKept`), `StatusSettles` (its first clause is `AlarmedOnceAlways`) and
`ShellsEnd`.

## 7. Where the code and its comments differ

Eight disagreements have a run of their own (`findings` quotes both sides):

* `audit_trail_stream`: a save that changes only the data stream does not take
  effect (`audit/manager.go:100-113`).
* `administrators_race`: two updates that overlap remove the last administrator
  (`httpapi/user_handlers.go:135-156`).
* `informer_pool_credential`: an old credential is watched with after its release
  (`cluster/informers.go:94-112`).
* `key_rotation_saves`: a value saved during a rotation is lost
  (`src/server/cmd/kubby-rotate-key/main.go:171-173`).
* `backup_export`: an export cannot open a credential the server sealed
  (`backup/backup.go:119`).
* `fleet_unreachable`: a card of a cluster none of whose reads was answered is not
  marked (`health/collector.go:46-51`).
* `search_listed`: an object beyond the first page of a kind that no cache holds
  is not found, and nothing says so (`cluster/search.go:167`).
* `overview_partial`: what the list, the table or the cards lose with a query
  that failed is not among the warnings (`promql/panels.go:244`, against
  `promql/clusterhealth.go:100`).

Others were met while modelling and are stated here only. The model follows the
code.

Accounts and audit:

* Two or more first-run requests: `store/users.go:42-44` says two concurrent
  requests cannot both create an administrator; at READ COMMITTED neither
  conditional insert sees the other's row. `FoundersBounded` holds through that
  race and says how many it can make: as many as ran at once.
* `audit/audit.go:129-131` says shipping is the last thing `Record` does and cannot
  fail the record. It is done before the event is stored (`170-208`), and `Enqueue`
  on a queue that a replacement closed in between (`audit/manager.go:75-83`,
  `audit/shipper.go:126-128`) panics: that event is neither shipped nor stored
  (`EnqueueOnClosed`).
* The manager does not remember that it was closed. A save that is still running
  when the wait for the handlers ends (`src/server/cmd/kubby/main.go`), or the start,
  which nobody waits for (`httpapi/router.go:142-173`), may swap in a shipper after
  `audit/manager.go:115-125`, and nobody closes it. `ShippersAccounted` bounds it
  to one and says whose it is.
* `audit/shipper.go:155-156` says what a cut-off close leaves is counted as
  dropped; a worker that returns on the stop signal counts nothing of what is
  queued. `LossBounded` bounds it.
* `auth/service.go:153` takes the duration of a lock from a row read before the
  password was hashed (`store/users.go:111-112`), so overlapping failures repeat
  a rung of the ladder.
* `src/server/migrations/00003_progressive_lockout.sql:11` says administrators are never blocked; the block
  follows the role at the time of the failure, and a later promotion leaves it.
* `auth/service.go:346-347` says a password change ends all other sessions; a
  sign-in that had verified the old password may still insert one
  (`OnlyLateOnesSurvive`). A confirmation of a second factor may enable a secret
  that replaced the proven one (`auth/service.go:311-326`), and overlapping
  confirmations may leave the codes of both (`store/recovery_codes.go:14-32`).
  `SetsInOrder` holds through both and bounds them: as many sets as were replaced
  at once, and a secret issued while another was being confirmed.
  The codes are replaced before the factor is enabled (`auth/service.go:323`), so
  a failure in between, or before the answer, leaves codes that nobody was shown
  (`lost`).

Keys and backups:

* `cmd/kubby-rotate-key` aborts at the first record it cannot open, although the
  key ring admits several retired keys, and rewraps credentials and TOTP secrets,
  not the other secrets the comment at its head and `src/Makefile:92` speak of.
* The key version is stored in 16 bits (`crypto/envelope.go:97`), the configuration
  accepts any positive number.
* A restore seals credentials with another binding than the server opens
  (`backup/restore.go:93-95`, `cluster/service.go:220`), and `SetGrant` overwrites
  the level of a grant that exists (`backup/restore.go:144`), where
  `restore.go:16-19` says nothing is overwritten.

What a request counts against:

* `httpapi/realip.go:34-35` speaks of the closest hop that is not trusted. Only the
  first `X-Forwarded-For` line is read (`37`), so behind a proxy that adds a line of
  its own a client that sends one names the address it counts against; and without
  a line `X-Real-Ip` is believed as it is (`38-43`), which is not walked and, of
  several proxies, names the last but one. `src/README.md:188` speaks of
  `X-Forwarded-For` only. `Vouched` says of which requests `KeyIsTheClient` holds.

Clusters, tables and writes:

* The reaper releases ids that may have been used since it collected them
  (`cluster/informers.go:232`, `256-258`).
* After a reset the watch starts anew and the browser's fresh list may be
  overtaken by changes that were on their way: a row that is gone can come back
  until the next poll. `ViewsSettle` holds by the poll, not by the stream.
* The alarm of a rejected credential is told from the row read back after the
  probe (`cluster/monitor.go:85-92`); when that read fails, the next sweep starts
  from `invalid` and tells of nothing.
* Scaling to zero without having been able to read the count leaves the record of
  an earlier scale, which a restore then brings back. `ComesBack` excepts it
  (`muddled`).
* A rollback sends the old template as a merge patch, which keeps what later
  revisions added (`LandsWell` says what comes back: what the revision set).
* A node shell pod whose session failed is swept only in the namespace of the
  current setting; one that was left before the setting moved stays
  (`cluster/sweeper.go`; `NoneLeft` excepts it).

Sessions, logs, health:

* The terminal reads the socket only between commands, so Ctrl+C and a closed tab
  are not noticed while a command runs; the limit for a command ends it.
* `httpapi/forward_handlers.go:69` says closing ends a forward; connections that
  are already piped live on (`cluster/forward_listen.go:157-170`), and only the
  acceptance of a connection counts as use (`154-156`), not its traffic, and
  expiry happens only when somebody calls the registry.
* `cluster/forward_listen.go:209-210` says the pod sees the end of the request by a
  half-close; the connection it is given (`cluster/forward_dial.go:89-108`) has no
  `CloseWrite`, so the pod is not told (`UpEnds`), and a tunnel whose client has
  gone stays until the pod sends or closes (`Released` asks for both).
* A refusal and the end of the data may both be ready when the handler of a
  forwarded socket looks (`cluster/portforward.go:124-143`); it then may end the
  socket without the refusal. A failed write to the pod ends it before the rest of
  an answer was copied; on a local port it does not (`AnswerWhole`).
* A debug container whose wait failed is recorded as an error although it stays on
  the pod (`cluster/debugcontainer.go:77-79`, `httpapi/exec_handlers.go:102-106`),
  and two attempts on one pod in the same second choose one name
  (`cluster/debugcontainer.go:41-43` speaks of a name per attempt); the API server
  refuses the second.
* A sweep of the log stores that holds the row from before an edit stores the
  answer of the old source after `Forget` dropped it (`cluster/logs_sweeper.go`);
  the next sweep puts it right.
* A field that is a keyword in one index and text in another is asked only as a
  keyword, and the lines of the other are not found, where
  `logsearch/mapping.go:53-55` says the wider query finds them. A `wildcard` field
  counts as analysed (`29-34`) and is asked by a phrase query; by the store's
  documentation it is kept whole, and a phrase then finds nothing inside a line.
  `Fits` says which types `FindingsTell` is about.
* Lines are counted by pod name (`logsearch/sweep.go:157-165`). Pods of several
  namespaces that share a name, as those of a StatefulSet do, are told as one, in
  the namespace most lines are from; the workloads of the others have nothing, and
  the sample may be a line of theirs.
* Replacing a cluster's credential does not forget the search for its metrics; a
  source found at the old server is shown until it is old (`cluster/metrics_source.go`).
* `cluster/metrics_source.go` says a blip is not remembered; a list of services
  that fails inside the search is passed over as an empty one, and the result is.
* A container that is a sidecar and comes first hides the worse trouble of the
  application behind it (`k8s/trouble.go`): all four places agree on the lesser.
* A kind that fails while another of the same cluster gives hits is passed over
  in silence (`cluster/search.go:168-178`, `202-205`), where `38-41` and `72-74` say
  that what could not be reached is reported; `SearchAccounts` speaks of clusters.
* The query of the pods by node may fail alone, and its error goes nowhere
  (`promql/nodes.go:148-152`, `167`): the row above the cards then counts no pods.
  It is among those of `overview_partial`.
* A card of a sweep that was cut short by one reader's deadline is cached for
  everybody until it is old, and `Fleet.Forget` (`health/fleet.go:213-215`) has no
  caller in the server.
* The relations panel says that no pods match when the list of pods failed. A Job
  one of whose pods was retried keeps an error mark after it succeeded
  (`cluster/projection.go`), and a node without a Ready condition is told of in
  three ways (`cluster/projection.go`, `cluster/overview.go`, `health/node.go`).
  These were read, not modelled.

## 8. Plan

Written first was what protects accounts and secrets, then what is shown from and
written to a cluster, then sessions, sweeps, caches and pure functions. What
is left, in order:

1. The composition of `Registration` and `InformerPool`: the save that probes is
   the one that releases.
2. Detectors of nodes, certificates and events; the page of a list with its
   continuation; the panels of the overview that are not about pods.

## 9. Not modelled

* Of `promql`, the texts of queries and the reshaping of series; in the overview
  the cut of the list at 200 and findings about objects that are not pods.
* The projections of rows other than pods (`cluster/projection.go`), describe,
  YAML and diffs, helm, relations, secrets: one read, converted.
* What a sink, a log store or Prometheus does beyond its answer; what Kubernetes
  does with a request beyond accepting it.
* HTTP formats, routes, cookies and headers other than those the client's address
  is read from; CSRF and origin checks, which are one comparison each.
* Delete, image changes and cron job runs: one call behind the gates of
  `ApplyWrites`.
* Database plumbing and migrations, configuration (read once) and logging.
* The web interface but for the query cache of a table.
* Durations beyond their order; a bulk answer per document beyond which part was
  stored.
