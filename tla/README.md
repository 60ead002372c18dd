# Kuadrant operator: TLA+ specifications

Specifications of the concurrent core of the Kuadrant operator, the TLC
configurations that model-check them on small instances, and TLAPS proofs of
their main invariants for every instance. Each module is a translation of Go
code of this repository; `PROJECT.json` names the lines behind every
definition, the runs with what they check, the mutations of the code that each
property catches, the theorems and the hazards the properties are aimed at.

## The system

The operator watches Gateway API resources and Kuadrant policies, keeps them in
a topology, and on every batch of events runs a workflow of reconcilers over it
(`internal/controller`). Reconcilers write data plane configuration
(EnvoyFilters, WasmPlugins, AuthConfigs, Limitador limits, DNS records,
certificates) and record their failures for a later retry.

Policies can be added by *extensions*: separate processes, built-in (children
of the operator) or standalone (deployments of their own), which talk to the
operator over gRPC. `internal/extension` is the operator's side,
`pkg/extension/controller` the SDK on the other side. An extension takes a
*session* for its policy kind with a handshake and keeps it with heartbeats;
registers data, upstream methods and pipelines in the *registered data store*;
resolves expressions over the topology and subscribes to changes of their
values. What it registers is rendered by the operator's next reconciliation,
which a handler triggers by annotating the Kuadrant resource.

| Part | State | Operations | Hard behaviour |
|---|---|---|---|
| Session store (`session.go`) | sessions, credentials, built-in names, warmup | create, touch, validate, reap, revoke, warmup | stale sessions taken over; random map order |
| Sessions (`manager.go`, `interceptor.go`; SDK `controller.go`, `client.go`) | client phase, token, calls in flight | handshake, ping, release, start, stop, crash | lost replies, restarts, timeouts, checks split from use |
| Registered data (`registry.go`) | providers, upstreams, descriptors, pipelines, target references; four mutexes | register, commit, clear, prune | critical sections of handlers interleave; sessions end under handlers |
| Change trigger (`manager.go`, `state_of_the_world.go`) | version of the Kuadrant resource, pending events | list, update, reconcile, update of status | optimistic concurrency, torn reads |
| Topology and subscriptions (`reconciler.go`, `manager.go`) | topology pointer, channel of one element, stored values | publish, compare, send, resolve | dropped messages, broken streams, stores of old values |
| Errors and retries (`reconciliation_errors.go`, `kuadrant_controller.go`) | registry of a pass, tracker, timer | record, update, schedule, cancel | retries against other passes, partial passes |
| Effective policies (`api/v1/merge_strategies.go`) | policies of a path, effective policy so far | merge a policy | mixed strategies, precedence |
| Wasm configuration (`internal/wasm`, `internal/gatewayapi`) | actions of a path, the request that meets them; action sets in order | place, merge, call, reply, sort | order of calls, reservations, what serves a request |
| DNS and TLS policies (`*dnspolic*`, `*tls*`) | policies, records or certificates, statuses | validate, create, replace, delete, report | passes that do not validate, orphans, partial failure |
| Data plane tasks (`internal/controller`) | the cluster's objects, events, the pass | the writes of each task | events not subscribed to, objects that change under a pass |
| Platform tasks (`internal/controller`) | monitors, network policies, console plugin, topology ConfigMap, conditions | the same | the same |
| Control plane (`internal/controlplane`) | child operators, their owners, status | apply, migrate from OLM, deploy, report | crashes and failures between the steps of a migration |

## Modules

    KindLease            what the session store promises: a lease per policy kind
    SessionStore         session.go, one action per method          implements KindLease
    ExtensionSession     EXTENDS SessionStore: extension processes, operator, network, time
    RegisteredData       registry.go: the store's variables and its critical sections
    ExtensionService     EXTENDS RegisteredData: the handlers, one action per critical section
    ConfigTrigger        from a handler's write to the rendered configuration
    Subscriptions        topology pointer, Subscribe streams, Resolve, the extension
    ReconciliationErrors a pass of the workflow, its errors, tracker and retry timer
    ControlPlane         bootstrap, OLM migration and reconciler of the child operators
    EffectivePolicy      the merge of the policies of a path, one step per policy
    WasmActions          the actions of a path: placed, merged, bound, translated from pipelines
    WasmRequest          EXTENDS WasmActions: a request meets the actions of its path
    RouteMatches         the action sets of a gateway, their order, and what serves a request
    Loops                the orders in which a loop may go through a set
    PolicyLife           EXTENDS Loops: what DNS and TLS policies have in common
    DNSPolicies          EXTENDS PolicyLife: DNS workflow and its records
    TLSPolicies          EXTENDS PolicyLife: TLS workflow and its certificates
    Policies             EXTENDS both: one of the two workflows moves
    Objects              a world of objects by kind and name, and its changes
    StateOfTheWorld      EXTENDS Objects: events, passes, writes, failures, retries, users
    DataPlane            paths, acceptance and effective policies of a topology
    AuthPlane            EXTENDS DataPlane: AuthConfigs, auth clusters, AuthPolicy status
    RateLimitPlane       EXTENDS DataPlane: limits, rate limit clusters, statuses
    GatewayPlane         EXTENDS both: gateway extensions, upstreams, tracing
    OperandPlane         Authorino, Limitador, mTLS, status of the Kuadrant resource
    Workflow             the tasks in the order of the workflow: the writes of a pass
    DataPlaneWorld       EXTENDS StateOfTheWorld, Workflow: the data plane
    PlatformPlane        monitors, network policies, console plugin, topology, conditions
    PlatformWorld        EXTENDS StateOfTheWorld, PlatformPlane: the platform
    *Proofs              theorems about the modules they extend
    MC*                  instances for TLC

A definition whose comment begins with "Faulty:" is no part of a
specification: it is a slip that the code could have had, with which
`PROJECT.json` tests that a property notices it.

Some MC modules hold several components that do not interact. A variable
(`focus`, `workflow`) is chosen at the start and says which of them moves;
the others keep their initial state.

### SessionStore, KindLease

`sessions` maps tokens to identity, policy kind and age (`lastSeen` measured in
ticks before now, capped at the TTL: the store only asks whether a session is
stale). Every method holds the store's mutex, so each is one action.
`CreateSession` has its three outcomes: rejected, accepted, accepted after
stale sessions were revoked. `KindLease` has an owner and an expiry per kind;
the refinement mapping takes the owner of a kind from the session that names
it. That the mapping is a function at all is `OneSessionPerKind`, which is
proved.

### ExtensionSession

A client goes through the phases of `superviseSession`. A handshake is a call
in flight that the operator executes and a reply that may be lost; it gives up
after `handshakeTimeout`. A token is made for one session: one that is still in the
table, with a process or on its way to one is not made again (`Fresh`), since
`generateSessionToken` draws 32 random bytes. The interceptor of `ReleaseSession` validates,
touches and lets the handler revoke, in three steps. Time advances in ticks
that age sessions, heartbeats and calls together. `MaxFaults` bounds crashes,
stops, lost replies and operator restarts; nothing else is bounded but time.

### RegisteredData, ExtensionService

The four mutexes of `RegisteredDataStore` make four groups of variables. A
handler is a record with a program counter in one of `Slots`; each of its
critical sections is an action, and a session may end between any two of them.
`RegisterActionMethod` checks the name, waits for reflection, then stores;
`PipelineCommit` validates, replaces, sets the target references, triggers;
the prune of a handshake lists stale policies, then clears them. Policies come
and go; a deleted policy is cleared before its finalizer is removed.

### ConfigTrigger

Keeps what has changed since the tasks of a reconciliation last read it, which
tasks the waiting events lead to, and what the running reconciliation has still
to read; a reconciliation runs only the tasks that subscribe to its events. A
handler writes part after part, lists the Kuadrant resources, then updates what
it listed. Of the resource version only what matters is kept: whether a trigger
or another change came since the handler listed it (`since`), in which case its
update conflicts. A trigger also fails if a call does, or if there is no
Kuadrant resource; and a task may fail, alone or with the rest of the
reconciliation. `lost` is what such failures left behind. `PipelineCommit` returns the
error and is called again; the other handlers log it. There is at most one
Kuadrant resource. `MethodSpec` is `RegisterActionMethod` alone, where only an
update that conflicts is refused.

### Subscriptions

`dag` is the published topology, reduced to the value it gives each
subscribed expression or to `Err`. Publishing swaps the pointer, then sends to
each update channel under its lock. A stream takes a topology, goes through
the subscriptions of its kind, stores a changed value, sends the event.
`Resolve` evaluates, stores, answers. `dropped` records the policies whose event went
down with a stream after the value was stored.

### ReconciliationErrors

A pass runs the reconcilers that subscribe to one of its events, each of which
tries to write its resource and may fail. The handler at the end of the
workflow moves the registry's errors to the tracker, gives up after
`maxRetryAttempts`, and schedules a retry with the pass's events. Every pass
first cancels the timer; a timer that fired already waits for the running pass.
A task that returns an error aborts the pass, and the handler does not run.

### EffectivePolicy

`policy` is the snapshot of the policies attached to one path, each with the
level it is attached at, its section (defaults, overrides or neither), its
strategy, the names of its rules, and whether it is accepted. `effective` gives
each rule its source, or `NoSource`. `Reduce` is a turn of the loop of
`EffectivePolicyForPath`: it takes the most specific policy left, by level and,
at the same level, the newest, and merges it with that policy's own strategy.
The loop starts from the last policy and merges it into itself first. The sort
of `PoliciesInPath` is the order `Before`; policies are numbered by creation.
Whether the predicate accepts a policy is given: `state` stands for its
result. The code is the same for the three kinds of policy but for the rules;
`ProperRules` are the ones `Empty` looks at (the auth scheme, or the limits).
`PolicySpecs` has only what the validation rules of the CRDs admit.

The module also says what the effective policy is without a loop (`Gives`): one
policy is the base, the broadest atomic override or else the most specific policy; less
specific policies that merge rule by rule add to it; and of two policies with
the same rule the less specific one prevails exactly if it is an override.

### WasmActions, WasmRequest, RouteMatches

`WasmActions` translates the pure part: the specifications of a path's limits
and of its authentication become actions (`PlaceSpecs`, `MergeSpec`), the data
that extensions bind are attached to those that can read them, and a committed pipeline becomes
actions and replies. Merged specifications are validated: one whose predicates, or whose
reservation's amount or time to live, speak of what is not declared is discarded whole
(`ValidateWasmActionSpec`). `WasmRequest` then lets a request run over them. The
filter is external: its guards are dispatched in the order of the list, those
that are not sequential do not wait for replies unless they read them; a call may
fail, and the failure mode, a setting of the environment, decides whether it counts as a refusal;
a refused request may or may not come to the response phase; predicates have
the same value in both phases; a report without a known token count sends
nothing. Data is what is read (`auth`, `response`) and which limit is counted.

`RouteMatches` builds the action sets of a gateway's listeners, routes and rules,
sorts them with the comparator of `internal/gatewayapi`, and says which set
serves a request: the first whose predicates hold. Paths are sequences of
pieces, lengths are counted in pieces, and a regular expression is a text and
anything that follows it. Of listeners and routes (`ListenersAssumption`,
`RoutesAssumption`) it assumes what the API server sees to: names are unique,
and a match of an HTTPRoute has a path with a value.

### DNSPolicies, TLSPolicies

A policy is a record of its target, what it asks for, age and status
conditions. A pass takes a topology, validates if the validator subscribes to
one of the events, and plans its writes, those of the records or certificates (`dnsPlan`,
`tlsPlan`) and after them those of the statuses (`dnsStatuses`, `tlsStatuses`); each
write is a step, so that users, the garbage collector and the DNS and certificate
controllers act between them. The turns of the nested loops over policies,
listeners and references are taken in every order the lists may have
(`DNSTurns`, `TLSTurns`), and the loops are recursive functions over them
(`reconcileLoop`, `reconcileCertificates`), as a turn reads what an earlier one has
overwritten in the topology. Acceptance falls back to the condition last written where the validator
did not run. Writes fail, and the operator restarts. A failed write is retried with
the events of its pass, or given up; how often it has been retried is left
open. A pass for other parts of the operator cancels the retry, and a pass that
aborts schedules none; `dnsLost` and `tlsLost` say so until a pass makes it good.

### StateOfTheWorld, DataPlaneWorld, PlatformWorld

The world maps kinds and names to objects. A pass lists everything; its events
are the differences with the list before; the tasks that subscribe to one of
them compute their writes from the topology, so that the writes of a pass are
known when it begins (`Plans`) and then interleave with everybody else's. Each
write has the semantics of its call: create, update of what was listed (which
conflicts), delete, server-side apply with or without force, read-then-patch. A
failure is recorded for a retry, only logged, ends the task, or aborts the
pass, as the task's code has it. Of concurrent tasks two orders are explored,
one the reverse of the other. `ReconcileIstioExtension` leaves out the deletion of the WasmPlugin that an earlier
version of the operator may have left, which nobody reads. A retry repeats the events of its pass on a fresh
topology; a pass that a watch asks for cancels it.

`Filtered` is what the predicates of the watches drop. `Responses` is what the
other controllers do: Authorino and Limitador become ready, gateways accept
patches, the garbage collector deletes. `lost` remembers that a change left no event or a write was
given up for good (logged only, or with a retry that was cancelled); the
properties of a cluster at rest are about those where nothing was lost.

In the platform model ports and selectors that admit everybody are left out,
as are the uids of operands that are made again; two ServiceMonitors stand for
all, and AuthPolicies for the five kinds of policy in the conditions. The
namespaces of a network policy and the gateways of a route are lists in any order,
chosen for each pass (`Orders`): they come from a Go map, and the code compares them as
lists. Policies of one target are sorted by creation. A topology of more than
`MaxTopology` objects stands for one that does not fit a ConfigMap.

### ControlPlane

main applies the CRDs of each component and waits for them; the leader's
bootstrap creates the `KuadrantControlPlane`, migrates the components that OLM
had installed (strips of owner references, then Subscription, then CSV), and
removes the legacy finalizer, each call a step that may fail; the operator may
crash at any of them. The reconciler deploys one component after the other and
writes the status. The garbage collector, users and the API server act in
between. The CRDs of a component are one object; "other" stands for its
accounts, roles and services. Assumed of Kubernetes: server-side apply keeps
the CSV's owner reference next to the control plane's and replaces the
operator's earlier one. Assumed of OLM: while it is being migrated it does not
restore owner references or install a CSV again. Retries on conflict inside a
call are one step. A control plane that a user has deleted is not created again
before the next restart, as in the code.

## Runs

| Run | Properties | Shows | States |
|---|---|---|---|
| `extension_service` | `NamesUnique`, `CacheExact`, `NoStrayData`, `ActionsBacked` | names of upstreams are unique, the descriptor cache is exact, a prune leaves nothing, committed pipelines call registered methods | 998,239 |
| | `ConfigCurrent` | an operator at rest has rendered what was registered, but for what a failed trigger or task left behind | |
| | `ImplementsKindLease` | the store under every operation in every order is a lease | |
| `extension_session` | `OneServerPerKind`, `KindServed` | two processes never hold valid sessions for a kind; a kind somebody asks for is served | 91,595 |
| `release_session` | `ReleaseEndsOwnSession` | violation: a release ends a session other than the caller's | |
| `subscriptions` | `CatchesUp` | the extension catches up with the cluster | 222,691 |
| `recovery` | `TrackedIsRetried`, `RetryReachesFailed` | tracked errors have a pass to come that reaches them, unless the last pass aborted | 2,610,591 |
| | `ResourcesKept`, `BootstrapComplete`, `ControlPlaneShown` | a migration loses nothing it is to keep; a bootstrap that succeeds leaves nothing undone; a reconciler at rest has deployed and reported everything | |
| `lost_trigger` | `ChangesRendered` | violation: an update of the status makes the trigger of `RegisterActionMethod` conflict | |
| `unseen_errors` | `UnseenIsResolved` | violation: an error is taken for resolved by a pass that did not run its reconciler | |
| `effective_policy` | `RulesFollowPrecedence`, `OverridesWin` | the loop computes the effective policy for every mix of strategies | 1,484,584 |
| | `DataReady`, `RefusedBeforeAuth`, `LimitsCounted`, `ReservationsSettled`, `PipelineKept` | what a request meets: data is there when read, limits are counted where they must, reservations are settled, a committed pipeline is translated whole | |
| | `OneOrder`, `MostSpecificServed` | action sets have one order, and the most specific match serves a request | |
| `method_precedence` | `MethodServed` | violation: a match without a method comes before one with it | |
| `policies` | `DNSRecordsMatch`, `TLSCertificatesMatch`, `PolicyStatusCurrent`, `PoliciesSettle` | at rest, records, certificates and statuses are those of the policies; passes come to rest | 920,532 |
| `data_plane` | `AuthConfigsMatch`, `WasmMatches`, `LimitsMatch`, `ServicesReachable`, `StatusCurrent` | at rest, AuthConfigs, wasm configuration, limits, clusters and statuses are those of the effective policies and agree with each other | 242,990 |
| | `NoFlapping`, `WorldSettles` | a pass takes an AuthConfig away only when no accepted policy governs its path; no task goes on undoing what was written, so passes come to rest | |
| `platform` | `MonitorsMatch`, `GatewaysAdmitted`, `ConsolePluginMatches`, `StateShown`, `BackendProtected`, `PlatformSettles` | at rest, monitors, network policies, plugin, ConfigMap and conditions are right; the plugin's backend comes up only behind its network policy; passes come to rest unless the order of gateways keeps changing | 327,577 |

Properties of a system at rest have exceptions, which are part of their
definitions:

* Changes without an event and writes that were given up (`lost`, `dnsLost`,
  `tlsLost`, `tlsMissed`) excuse what depends on them until they are made good.
* What the workflow writes only for ready operands is required where they were
  ready all along (`Kept`): an Authorino that comes after the policies, to which
  `AuthConfigsReconciler` does not subscribe, may have no AuthConfigs.
* With TokenRateLimitPolicies alone and mTLS, the gateways' clusters use mTLS and Limitador has
  no sidecar, which follows RateLimitPolicies (`MeshAgrees`).
* A reservation's amount or time to live that reads `auth` is no reason to
  authenticate first (`DataReady`); one invalid rate limit discards the others of
  its path, with which it was merged (`LimitsCounted`).
* The console plugin does not subscribe to the version of the cluster: after an
  upgrade its image is left open (`VersionChanged`).
* A pass that rewrites an object because a list has another order may be followed
  by such passes for ever (`Reorders`); only `PlatformSettles` excepts them.
* Listeners with several `certificateRefs`, whose certificate a pass writes twice
  (`Doubled`), and policies for one target created in the same second (`Tied`) may keep
  the passes going for ever; only `PoliciesSettle` excepts them.
* Limits that a gateway cannot use are not among those its statuses speak of.

### Bounds

* Sessions: a built-in and a standalone process for one kind, six tokens, two
  faults. Two processes are what a conflict takes; two faults give every pair of
  crash, lost reply and restart. `TTL = 3, HB = 1, RT = 1` keeps the
  default ratio of session TTL to heartbeat interval (45 s to 15 s), with the call
  timeout (10 s) rounded up to the next tick. `release_session` has two pods
  of one identity. The store alone (`extension_service`) has three identities, two kinds
  and three tokens.
* Extension service: two handlers at a time, two policies, one method name, two
  endpoints with a cache key each, one endpoint shared by both policies. Every hazard is a race of two handlers or of a
  handler and the end of a session; the proofs lift the bound.
* Trigger: two handlers, which is what a conflict takes; one event waiting, and no
  further call or failure until what a failure left behind is rendered.
  `ChangesReachConfig` lifts the bounds.
* Subscriptions: two values and one stream; one policy with three changes,
  breaks or restarts, or two policies with one of them. The initial value is
  fixed (`First`), by the symmetry of the values.
* Retries: two reconcilers with a resource kind each and a kind that both watch,
  two specifications, `maxRetryAttempts = 5` as in the code, three changes.
* Control plane: two components, one all of whose objects are kept and one
  of which only the CRDs are; one Kuadrant resource; two disturbances (failures,
  crashes, deletions), which give every pair. `RecoveryProofs` lifts the
  bound for all three invariants.
* Effective policy: three policies, two levels, two rules, every specification
  the API server admits. Two policies may share a level; three are what it takes
  for one to stand between a base and another. The proofs lift the bound, and
  also that of the action sets.
  Requests meet up to two limits and two token limits, pipelines of two entries
  per phase; action sets are those of two routes on two listeners.
* Policies: two policies, two listeners, two hosts, two issuers, two changes.
  The proofs lift the bound for the invariants.
* Data plane: one or two gateways, a route, and six scenarios (authentication,
  limits, cold start, mesh, both kinds of policy, a gateway without class) with two changes or
  failures, one where the start itself is long (cold, mesh, mixed, classless).
* Platform: seven scenarios (network policies, cold start, monitors, console,
  nothing supported, an image given by the environment, conditions), three changes or
  failures, two where passes branch most (network, cold, overridden).

Deadlock is not checked where changes are bounded and a system with nothing left
to do rests, which is the purpose of most of the properties.

### Fairness

* `extension_session`: weak fairness of time, of the reaper (a ticker), the
  warmup timer, the handlers, and of the steps of a running client, which
  retries for ever with backoff. No fairness of faults, whose number is bounded.
  A crashed standalone process is started again by its deployment; a built-in
  one by nobody while the operator runs.
* `subscriptions`: weak fairness of the reconciliation that publishes, of the
  stream's loop, of the receiving loop, and of the extension's reconciliation.
  That another reconciliation of the operator follows is an assumption on the
  cluster: periodic resyncs and status events provide it. No fairness of
  cluster changes, breaking streams or restarts.
* `policies`, `data_plane`, `platform`: a pass that can begin or go on does, as
  the controller's loop is one goroutine that waits for nobody; and the other
  controllers (garbage collector, operands, gateways, certificates and DNS) answer
  in the end. Stated as `[]<>` formulas over the variables
  (`WorldFairness`). No fairness of users or of failures.

## Findings

* `ReleaseSession` (`manager.go:528`) revokes by identity. When the caller's session
  was stale and has been taken over between validation and revocation, it ends
  the session just granted to the replacement. The new holder notices on its
  next call and handshakes again.
* `TriggerReconciliation` (`manager.go:401`) conflicts with a reconciliation that updates
  the status of the Kuadrant resource between its list and its update; the status update
  itself triggers nothing. `RegisterActionMethod` logs the error and succeeds (`manager.go:1028`): what was registered is not rendered
  until something else changes.
* `UpdateFromRegistry` (`reconciliation_errors.go:221`) takes each error it did
  not see in a pass for resolved; a pass for other events does not run the
  reconciler, and has cancelled its retry.
* The comparator of route matches (`internal/gatewayapi/types.go:91`) puts a
  match that asks for no method before one of the same path that asks for one,
  contrary to the specificity rules that `internal/wasm/utils.go:472` says it
  implements; the action set of the general match serves the requests of the
  specific one.

## Proofs

All theorems hold for every value of the constants; assumptions are stated in
the modules that declare the constants, and TLC evaluates them.

* `ExtensionSessionProofs`. `StoreInvariant`: the conjunction of type, one session
  per identity, one per kind and the armed warmup timer is inductive. It has to be
  taken together: that revoking the stale session of an identity frees the kind
  rests on both uniqueness properties. `KindOwnership` is its corollary;
  `StoreImplementsKindLease` shows each action of the store to be a step or a
  stutter of `KindLease` under the mapping, again from uniqueness. `OneServer` is about
  the processes: one session per kind in the table says nothing of who holds its
  token, so the invariant (`HandoverInv`) adds that no token is with, or on its way to, two
  processes, and that the session of a token was created for the process that has it.
  The latter is `TokensAreOwn`.
* `ExtensionServiceProofs`. `UpstreamNames`: uniqueness of names is inductive
  because the store checks the name again when it writes; the check before the reflection
  plays no part in the proof. `DescriptorCache`: the cache's keys are exactly those of the
  upstreams; inductive, since each critical section changes both. `NothingLeftBehind`,
  `PipelinesBacked`: the invariant (`ServiceInv`) says what handlers know at the place they have
  reached. A prune has listed, then cleared, everything that is not expected
  (`PrunesDone`); a policy whose finalizer goes has been cleared (`ClearsDone`); what a
  commit has validated is still valid when it is written (`CommitsValid`). These hold
  because an extension has one call at work at a time and a handshake excludes it
  (`ClientOK`); only handlers of a lost session come in between, and `strayed` names the
  policies that they write to.
* Also there, about `ConfigTrigger`: `ChangesReachConfig`: at rest everything is rendered
  but for what a failed trigger or task left behind. The inductive invariant says who is responsible
  for each part not yet rendered: a handler that has not triggered yet, a
  waiting event, or a running reconciliation that has not read that part. A
  handler that another trigger has overtaken is not among them: that trigger
  came after the handler's write, and its event covers it.
* `RecoveryProofs`, about `ReconciliationErrors`. `ErrorsAreRetried`, `RetriesReachErrors`: the
  inductive invariant adds that the reconcilers a pass has still to run, and
  those with an error in its registry, subscribe to one of its events
  (`PassCovers`); so the retry, which copies the events, runs them again. A pass that
  aborted is the exception, as it leaves neither timer nor handler.
* Also there, about `ControlPlane`: `MigrationKeepsResources`, `BootstrapLeavesNothing`,
  from `BootstrapInvariant`. Subscriptions, CSVs, references to CSVs and legacy finalizers only
  ever become fewer, so what the bootstrap has seen done stays done, whatever
  reconciler, users and garbage collector do meanwhile. The inductive invariant
  adds to the types that no CRD is owned by a control plane and nothing that is to be
  kept by a CSV that is gone, and, for each place of the bootstrap, what
  is done when it gets there. The order of the steps enters where a CSV is deleted: its
  references were stripped at an earlier place of the same run. `StatusIsShown`:
  while a reconciliation is at work and the work queue is empty, no watch has
  noticed anything since the control plane was read, so what is deployed so far is still there and
  belongs to the control plane that there is (`Progress`). A change that a watch
  notices fills the queue, and asks for another reconciliation.
* `EffectivePolicyProofs`. `LoopFollowsPrecedence`, `OverridesPrevail`: the
  inductive invariant says of the policies merged so far what the property says
  of all. It adds that they are the most specific ones; that a rule which some
  policy contributes has a source, without which finiteness of the path would be
  needed to find one; and that the effective policy is not empty, since
  `AtomicDefaultsMergeStrategy` takes an empty one for a missing policy.
* `DNSPoliciesProofs`. `DNSStatusesCurrent`: the invariant (`DNSStatusInv`) says of
  each policy that its status, or the one that the running pass has still to write, is right
  now, unless something was lost or a pass is asked for. There are two degrees: any pass
  puts the Enforced condition right, but only from a right Accepted condition,
  which takes a pass that validates. `DNSRecordsKept` (`DNSRecordInv`): unless a pass is asked
  for, or the running one has failed, either its next write changes a record, and so asks for one, or
  it has nothing to write and the records are right. `dnsLost` is where a retry is given
  up or cancelled, or a pass aborted; a pass with the validator clears it. That a pass with nothing to
  write has found them right is shown by induction over the turns of its loops.
* `PoliciesProofs`. `TLSStatusesBacked` (`TLSStatusInv`) is the argument of the
  DNS statuses for a status updater that runs on other events. `CertificatesKept`
  (`TLSCertInv`) has the argument of the records; since the reconciler also runs
  without the validator and then trusts the statuses, the invariant adds that these tell the
  valid policies, now or once the running pass has written them (`VerdictsRight`); `tlsLost` excepts
  the retries for which they do not.
  That the sequence of turns has each of them exactly where the loops take it comes from
  counting the turns before each: the order is strict and total, so the counts are
  `0, 1, ...` (`Ranked`, `AllCertTurns`). Neither tied policies nor doubled references are
  excepted: they have no state of rest in which the theorem would be wrong. `StatusesCurrent`
  puts both workflows together. What the loops of both need is in `LoopProofs`.
* `RouteMatchesProofs`. `SortedInOneOrder`, `ServedByMostSpecific`, for any listeners, routes,
  rules and matches. The comparator is a strict order (`LessOrder`), which is not
  obvious: it compares path types only if both matches have one. As paths have values,
  this is the same as putting matches without a path last. No two action
  sets of a gateway are equal for it (`KeysIdentify`), since names and places identify listener, rule and
  match. Insertion keeps the order, by induction over the action sets (`InsertAllFacts`).
  The invariant (`MatchInv`) then says that the sorted ones ascend. That the first to match a
  request is most specific needs that a wildcard covers no other wildcard of its length
  (`CoveredFirst`) and that the comparator looks at the path before all else (`LessPath`).

The sets of policies and listeners are assumed finite (`DNSAssumption`,
`TLSAssumption`), without which a loop over them has no order; nothing bounds the
number of changes, failures and restarts. Induction over the turns of a loop goes through the
least counterexample (`Induct`), as the induction theorems of the library, which take a
predicate for a parameter, cannot be used.

Only model-checked:

* liveness (`KindServed`, `CatchesUp`, `PoliciesSettle`, `WorldSettles`, `PlatformSettles`), which like
  ENABLED is out of the prover's reach;
* what a request meets (`DataReady`, `RefusedBeforeAuth`, `LimitsCounted`,
  `ReservationsSettled`, `PipelineKept`): these rest on folds over sequences of records
  with sequences in them; what a fold computes takes an induction of its own for each, which
  has not been done;
* the data plane and the platform: an inductive invariant would have to say, for
  every plan of a pass over some thirty tasks, what its remaining writes lead to. For
  two tasks that is what the proofs about the policies do.

## Not modelled

Abstracted: token and access review are one answer. CEL programs are their values; CEL
text, header and status validation is one answer. gRPC is calls in flight with
replies that may be lost. Delays are "later". Kubernetes and policy-machinery
(the event loop, informers, work queues, the links of the topology) are modelled from how the code uses
them and marked external.

Left out:

* the event cache and finalizers of the SDK (`pkg/extension/controller`): they wrap
  the work queue of controller-runtime, and what they do is decided there;
* the escalation of signals when a built-in is stopped (`oop.go`): it depends
  on the operating system's processes;
* Helm rendering, chart values and images of the child operators, policy metrics, logging,
  tracing spans, CLI flags: input and output with no state that another part reads;
* health checks and propagation conditions of DNS records, which the DNS
  operator decides;
* the encodings as JSON, protobuf and YAML;
* the example extensions (`cmd/extensions`), whose reconcilers are clients of
  the SDK that is modelled, and generated code.
