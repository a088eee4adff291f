# A TLA+ verification of hyve

hyve keeps Kubernetes clusters in the state their definitions ask for. A
*controller* watches `ClusterDefinition` objects and drives each one through
operations of a *driver module* (status, auth, create, scale, delete) that run
as Kubernetes Jobs; an *API server* serves users, organizations and a CLI; an
*agent* installed in every managed cluster dials the API server and keeps a
tunnel open; and state that is not in Kubernetes lives in a SQL database
(accounts, organizations, sessions) or in files (`hyve.lock`, kubeconfigs, the
file-mode state directory).

This directory holds TLA+ models of that code, TLC configurations that check
them on small instances, and proofs that TLAPS checks for every instance.
`PROJECT.json` lists components, runs, mutants, the map from definitions to
source lines, hazards and theorems. The sections below: the inventory
of the system, the modules and how they relate, the runs, the theorems, then one
section per modelled component (state and actions against the code, bounds,
fairness, the argument of the proofs), the disagreements met between the code
and its comments, and what is not modelled.

## Inventory of the system

| component | state it keeps | operations | interacts with | hard behaviour |
|---|---|---|---|---|
| controller (`internal/controller`, `internal/reconcile/manager.go`) | `ClusterDefinition` spec, finalizer, status in etcd; the locals of a pass | Reconcile, reconcileDelete, ReconcileOne, create / scale / delete | API server through a cached client; driver Jobs; dependsOn clusters | stale cache, conflicts, crash in mid-pass, Jobs that outlive their caller, deletion racing edits |
| driver Jobs (`internal/k8sjob`, `internal/module/executor.go`) | a Job per operation | Run, waitForJob, Execute | controller, workflow executor, cloud | lost outcome, deadline, one failed poll |
| agent tunnel (`internal/api/agent_listener.go`, `agentregistry.go`, `internal/agent/connect.go`) | registry of live sessions, `status.agent` | Register, Unregister, writeAgentStatus, reconnect | agents, API server pods | reconnects overtaking disconnects, unordered status writes |
| agent enrolment (`internal/reconcile/agent.go`, `internal/agentpki`, `internal/agent/bootstrap.go`) | appliedAgent, one-time tokens, the certificate Secret | install, remove, mint, redeem, sign, persist | target cluster, API, agent pod | a token redeemed and the reply lost, several steps of which one may fail |
| resource reconciliation (`internal/reconcile/resources.go`) | appliedResources | apply, delete, prune | kubectl Jobs, Helm | one failure in a loop before a single save |
| `hyve.lock`, module resolver and caches (`internal/module`) | lock file, module directories and files on disk | load, resolve, fetch, save | every concurrent pass | lost updates, shared temporary file, copies cut short |
| workflow runs and executor (`internal/controller/workflowrun_reconciler.go`, `internal/workflow`) | `WorkflowRun` phase, job results | claim, jobs and steps | Jobs, two controllers of a rollout | a crash leaves a run Running |
| convergence loop and file-mode state (`internal/reconcile/manager.go`, `internal/state`) | definition files and state sidecars | a run over all, commands | a checkout shared by commands | two files per definition, dependsOn, no lock |
| sessions and accounts (`internal/api/accounts.go`, `auth_handlers.go`) | users, bindings, sessions, reset tokens | login, reset, create, update, delete | SQL database | several rows changed one by one |
| organizations (`internal/api/organizations.go`) | SQL rows and namespaces | create, rename, move, delete, sweep | SQL and Kubernetes | two stores, no transaction across them |
| namespace watcher and migration (`cmd/controller/setup_namespace.go`, `internal/migrate`) | a controller's set of namespaces; copies of definitions | watch, exit, copy | controllers of several clusters | two controllers, or none, over one definition |
| environments and registrations (`internal/api/environmentnaming.go`, `reconcilingclusters.go`, `orgreconcilingclusters.go`) | rows, objects' labels, a client cache per pod | name, address, register, rotate, remove | several API pods | names resolved by rows that change, stale clients |
| CLI contexts (`internal/repository`, `internal/session`, `cmd/shared`) | SQLite rows: contexts, one session, secrets | add, use, remove, login, refresh, work | API server, files | commands side by side, statements not in a transaction |
| host clusters, database, templates, conversions, proxying, web, e-mail, charts | none of their own, or the database's | | | see the last section |

What makes them correct, in one sentence each:

* **controller**: a cluster never outlives its definition unnoticed, is never taken for
  running parameters it does not run, and ends up as the definition asks.
* **tunnel**: a registry holds the newest session, the superseded say nothing, `connected`
  ends up true to fact, an agent left alone is reachable.
* **enrolment**: a token yields one certificate, an installed agent has a way to an identity.
* **organizations**: each is served by one cluster, a move loses nothing, a row goes last.
* **handover**: whatever runs can be taken down from where the organization is.
* **environments**: what users made stays reachable and as they made it; labels name
  environments that exist.
* **workflow runs**: executed at most once, by one worker; a success has done every job.
* **accounts**: a member has a user, a superadmin remains, what was revoked stays out.
* **`hyve.lock`**: a pin is settled once, and nobody runs half of a file.
* **resources**: what was applied is remembered; only what was given up is deleted.
* **files**: no cluster without a definition, no inherited outputs, people decide.
* **contexts**: one is current; a command acts on the server of the context it began with, and
  on the organization and environment selected there or named for it.

## The modules

| module | component | proofs | about |
|---|---|---|---|
| `ClusterLifecycle` | controller, driver Jobs | `LifecycleAndContextsProofs` | one definition, its object in etcd |
| `AgentTunnel` | agent tunnel | `TunnelAndHandoverProofs` | sessions of one managed cluster |
| `AgentEnrolment` | agent enrolment | `EnrolmentAndPinsProofs` | one agent, its tokens |
| `OrgPlacement` | organizations | `OrgPlacementProofs` | one organization |
| `WorkflowRuns`, abstractly `OneShotRun` | workflow runs, executor | `WorkflowRunsProofs` | runs and their execution |
| `Accounts` | sessions and accounts | `AccountsProofs` | rows of users |
| `LocalReconcile` | convergence loop, file-mode state | `LocalReconcileProofs` | a checkout |
| `Fleet` | environments, registrations, API pods | `FleetAndResourceProofs` | one organization's clusters |
| `PinnedRefs` | `hyve.lock`, resolver, caches | `EnrolmentAndPinsProofs` | a process and its `hyve.lock` |
| `ResourceReconcile` | resource reconciliation | `FleetAndResourceProofs` | resources of one cluster |
| `ControllerHandover` | namespace watcher, migration | `TunnelAndHandoverProofs` | one organization that moves |
| `Contexts` | the CLI's contexts and session | `LifecycleAndContextsProofs` | one machine |

Each has an `MC` module with the values of its constants and one configuration. A module
of proofs that is about two components extends both; where two components would share a name, that of the
second carries its own (`ContextsSpec`, `PinnedInit`, `resourceVars`, `FairHandover`). Where the
modules overlap, one takes over where another stops: `OrgPlacement` and
`ControllerHandover` both have the move of an organization, one as requests and
the sweep see it, the other as the controllers on both sides do; `Fleet` has the steps
of a move as far as names and clients depend on them; `LocalReconcile` runs the dispatch of
`ClusterLifecycle` over many definitions kept as files; `AgentEnrolment` ends where a
connection of `AgentTunnel` begins.

All are written alike. A process (a pass, a request handler, a command) has a record of
where it is and of its locals, and is split at every call of a store, a Job or a file,
because that is where others come in between. The code has few locks and hardly any
transactions, so most guarantees hold *outside of named windows*: a history variable
`excuse` records the windows a behaviour has hit, each at the step where the code lets it
happen, and a property names the windows it depends on and no other. The windows are as much a
result as the properties, and the mutants listed in `PROJECT.json` show for each
property that it fails when the code does not do its part.

Still worth writing: abstract specifications like `OneShotRun` for the lifecycle (one
cluster and a goal) and for the tunnel (a session or none), with their refinements.

## The runs

| run | instance | distinct states | shows |
|---|---|---|---|
| `Lifecycle` | 3 parameters (one empty), a definition begun with either of two, 1 edit, 1 fault, 1 incarnation | 822 000 | `LifecycleInv`, `NoLeakUnlessExcused`, `HashMeansApplied`, `DeletionCompletes`, `WantedConverges` |
| `Tunnel` | 2 agent pods, 2 API pods, 3 connections, 1 version, 1 fault | 243 000 | `RegistryHoldsLatest`, `SupersededStaysSilent`, `StatusTrueUnlessExcused`, `ReachableAgain` |
| `Enrol` | 3 tokens, 2 edits, 1 fault, 2 namespaces, every hazard | 311 000 | `OneCertificate`, `NeverStranded`, `StaysConnected` |
| `Org` | 2 clusters, 2 handlers and the sweep, 1 organization; any 2 of 2 renames or moves, 1 write, 1 handler cut short | 1.0 million | `PlacementInv`, `MovesAlone`, `LatestServed`, `NamespaceBeforeRow`, `DeletionFinishes` |
| `Workflow` | 2 controllers, 1 run of 4 workflows of 2 jobs with 2 steps, 4 writes, 2 faults | 116 000 | `RunInv`, `SuccessIsEarned`, `RunsEnd`, `ImplementsOneShot` |
| `Accounts` | 2 superadmins, 1 organization and the control plane, 2 requests at a time, 4 in all, 1 fault | 977 000 | `AccountsInv`, `SuperadminRemains`, `RevokedStaysOut` |
| `Pinned` | 2 passes, a module, and a workflow, which one refers to as a file and one by its directory; 1 retag, 1 fault, 2 commands | 1.1 million | `PinInv`, `PinsHold`, `PinnedAtLast` |
| `Resources` | a manifest, a directory of two, a chart that shares an object; 2 versions, 2 edits, 1 fault | 623 000 | `ResourceInv`, `OnlyGivenUp`, `Fulfils`, no deadlock |
| `Local` | 2 clusters, 2 processes, one of which enters commands, 2 events, 2 incarnations | 765 000 | `LocalInv`, `UserDecides`, `Converges` |
| `Handover` | home and 1 cluster, 2 organizations, 1 extra resource; any 4 of 3 moves, 1 request, 1 fault | 950 000 | `HandoverInv`, `Settles` |
| `Fleet` | 2 pods, 2 requests at a time, 3 in all, environments `default` and `a`, clusters `c`, older ones `c` and `a-c`, 1 registration, 2 kubeconfigs | 3.2 million | `FleetInv`, `KeepsWhatWasMade`, `LabelHasEnvironment` |
| `Contexts` | 3 commands, 2 of them side by side, on any state of 2 contexts, 2 servers, 2 organizations, with or without `--org` and `--env` | 2.6 million | `ContextsInv`, `ActsWhereMeant` |

Every bound is a constant that a guard mentions (`Max...`). `CHECK_DEADLOCK FALSE` is
said everywhere but in `Resources`, because the bounded requests, tokens, events or commands run
out and then nothing is left to do. Symmetry is used in the three runs without a
liveness property that gain by it (`Accounts`, `Fleet`, `Contexts`). Where all bounded events at once are too
many states for the liveness properties, `MaxEvents` bounds their sum (`Org`, `Handover`). A temporal property is
checked under a specification that states fairness; the sections say which and why.

## The theorems

Each holds for all values of the constants that the module's `ASSUME` admits: any number
of pods, clusters, requests, names, faults.

| theorem | states |
|---|---|
| `Typing`, `FinalizerInvariant`, `HashInvariant`, `LifecycleInvariant` | the inductive invariants of the lifecycle |
| `NoLeak`, `HashApplied` | `NoLeakUnlessExcused`, `HashMeansApplied` |
| `ReadyError`, `CreateFinds` | Ready and Error are both true only on an object being deleted; a create op that succeeds found no cluster (not in a run) |
| `TunnelInvariant`, `RegistryLatest`, `SupersededSilent`, `StatusTrue` | the tunnel's inductive invariant and its three safety properties |
| `EnrolmentInvariant`, `TokenYieldsOneCertificate`, `InstalledAgentNeverStranded` | the tokens' inductive invariant, `OneCertificate`, `NeverStranded` |
| `Placement`, `LockIsHeld`, `MovesRunAlone`, `NothingLost`, `RowGoesLast` | `PlacementInv`, `LockHeld`, `MovesAlone`, `LatestServed`, the action property `NamespaceBeforeRow` |
| `RunInvariant`, `SuccessEarned` | `RunInv`, `SuccessIsEarned` |
| `Refinement` | `ImplementsOneShot`: `WorkflowRuns` implements `OneShotRun` |
| `RowsInvariant`, `MembersKeepUsers`, `SuperadminStays`, `RevokedOut` | the rows' inductive invariant, `AccountsInv`, `SuperadminRemains`, `RevokedStaysOut` |
| `FilesInvariant`, `LocalInvariant`, `PeopleDecide` | the files' inductive invariant, `LocalInv`, the action property `UserDecides` |
| `ServiceInvariant`, `RowsAndClientsAgree`, `MadeIsKept`, `LabelsNameEnvironments` | the inductive invariant of `Fleet`, `FleetInv`, `KeepsWhatWasMade`, `LabelHasEnvironment` |
| `PinsInvariant`, `PinsStay` | `PinInv`, the action property `PinsHold` |
| `ResourceInvariant`, `DeletesOnlyGivenUp` | `ResourceInv`, the action property `OnlyGivenUp` |
| `HandoverInvariant` | `HandoverInv` |
| `ContextsInvariant`, `CommandsActWhereMeant` | `ContextsInv`, `ActsWhereMeant` |

Every invariant and every action property that a run checks is proved, and so is the refinement.
Model-checked only, because liveness under fairness and ENABLED are beyond this prover: `DeletionCompletes`,
`WantedConverges`, `ReachableAgain`, `StaysConnected`, `DeletionFinishes`, `RunsEnd`,
`PinnedAtLast`, `Fulfils`, `Converges`, `Settles`.

The assumptions are the `ASSUME`s of the modules: bounds are natural numbers (some positive, where the
state begins with one of what they count), model values that stand for nothing are none of the things, the
processes of `PinnedRefs` are finitely many, the parameters a definition may begin with are parameters.
No theorem assumes more.

Looking for proofs, and larger bounds, have changed models. `WorkflowRuns.WorkerKnows` had an operator
precedence that made it weaker than meant. In `LocalReconcile` a run that
creates a cluster while another is about to remove its definition leaked it with no
window named, and an overtaken write could inherit the outputs of an older definition;
`Doomed` and `Overtaken` name the two. In `Fleet`, `LabelHasEnvironment` was false
beyond the bound of its run: an environment found unused on one cluster, then a move away, a
cluster made there, and a move back that copies it before the environment's row goes
(24 steps); and a registration that is given the kubeconfig of a cluster with
objects of an earlier stay. `late` at `Copy` and `repointed` name these. In `ControllerHandover` the
invariant was false from the third move on: a controller that has not noticed that an organization left
and came back is still in a pass that rests on the earlier stay; `early` names it, and the run
has the three moves now. In `OrgPlacement` a second move showed that `DeletionFinishes` fails behind a
misrouted look of the sweep that finds a namespace, too: `misplaced` is hit by the look whatever it finds. In
`ResourceReconcile` the list of what is to be done has become a set
with each key taken in its turn, which is the loop of the code without positions to reason about.

## `ClusterLifecycle`: one definition under the controller

### State and actions against the code

`cr` is the `ClusterDefinition` in etcd: its incarnation (`uid`), `spec.params`,
`spec.delete`, `spec.pause`, the deletion timestamp `dt`, the finalizer `fin`, the
recorded hash (`status.driverOutputs[HYVE_LAST_PARAMS_HASH]`), the phase and the
two conditions. `cache` is the copy in the informer behind `client.Client`: reads
return it, and an update is refused by optimistic concurrency unless it is the
current version (`CanWrite`, `Write`). `cloud` is what the driver's status op would
find; its field `asked` records that a delete op was accepted. `orphans` are
Jobs still running that no pass waits for. `pc` and `pass` are the program counter
and locals of the one worker that a key has at a time (controller-runtime never
hands a key to two workers).

A pass is split where another process may get in between, that is at every call of
the API server and every Job:

| actions | code |
|---|---|
| `StartPass`, `AddFinalizer` | `Reconcile`: Get, the finalizer's update and requeue |
| `Check` | `ReconcileOne`: validation, pause, expiry, dependsOn |
| `Status`, `Dispatch` | `reconcileCluster`: the status op and the switch on its answer |
| `Create`, `CreateSave`, `CreateTail` | `createCluster`: the op, the save, then auth, hooks and resources |
| `Scale`, `ScaleSave`, `ActiveTail` | the ACTIVE branch: drift, the save, then agent and resources |
| `Delete`, `Remove` | `deleteCluster`: the op, then `RemoveClusterFile` |
| `Finish` | `Reconcile`'s last status update |
| `RecordDelete`, `Unfinalize` | `reconcileDelete`'s end |
| `LoseJob`, `Crash`, `OrphanEnds` | `k8sjob.Run`: a Job outlives a timeout, one failed poll or its caller |
| `UserCreate`, `UserEdit`, `UserDelete` | the API's handlers, or kubectl |

`Return` is what happens when `ReconcileOne` returns, in a deletion or outside one.
Abstracted: values of parameters are a set with one empty element (an empty map
hashes to the empty string, as `ParamsHash` says); credentials, hooks, kubeconfigs
and outputs other than the hash are left out, since no branch of the pass depends
on them except by failing, which is one outcome of the action; `dependsOn` is one
Boolean; several failures that take the same branch are one.

Not in the module: dry runs, passes that only authenticate, host clusters.

### Runs

Run `Lifecycle`. Drift needs a parameter that is set, one that replaces it and the empty
one. Nothing tells the two that are set apart, so a definition is created with the empty one or
with one of them (`FirstParams`), and edits choose from all three; each excuse arises from one fault, and the hazards listed need one edit racing one
pass. More faults only add excuses, behind which the properties claim nothing. A name
that is used again needs two incarnations, which the run does not have (several million states
without the liveness properties): the theorems cover any number.

`excuse` names the situations outside of which the safety properties hold:
`skippedRelease` (a pass returned nil without dispatching and the finalizer went),
`jobLost` (a Job outlived its caller), `saveLost` (an operation succeeded and its
record was refused or failed), `stalePass` (a pass began on a copy whose hash was out of
date). Each is a window the code really has.

### Fairness

`FairSpec` assumes weak fairness of the worker (the workqueue re-runs a key at least
every `resyncInterval`, failed passes with backoff), of the watch, of the cloud's
in-progress states and of Jobs, which end by `activeDeadlineSeconds`. Nothing is
assumed of users and faults, which are bounded. Both liveness properties have
`WatchKeepsUp` as their antecedent: from some point on a pass begins, and an operation
starts and ends, with the cache up to date. Without it
weak fairness of the watch would allow a cache that is behind at every single write
for ever, since the pass also writes; a Job takes seconds and a watch
milliseconds, so that schedule is not one the program meets. The safety properties
do not use it.

### Proofs (`LifecycleAndContextsProofs`)

`FinalizerInv` is the first inductive invariant: while a cluster is up, with no delete op
accepted and nothing excused (`Exposed`), its definition is in etcd and carries the
finalizer. That is not inductive alone: a pass could remove the finalizer or issue a
create on the strength of locals that are out of date. So `ReadersLag` says how far
behind cache and pass may be (incarnations grow along pass, cache, object; a
finalizer seen on a copy not being deleted is still there), `MarksNeedObject`
that marks are found on existing objects only, and `PassKnows` what each program counter
may rely on, above all that `remove` and an `unfinalize` that skipped nothing
are reached with nothing exposed. `NoLeak`, `ReadyError` and `CreateFinds` follow from
it. `HashInv` is the second, for `HashMeansApplied`: a pass that has not yet applied anything holds the
hash that is recorded, one between an operation and its save holds that of the parameters in the
cloud, and nothing but a scale op changes parameters of a cluster that is up. It rests on
the first for what a pass at each step knows. The proofs have one lemma per group of actions;
`QuietKeepsHash` and `BystanderKeepsHash` deal with the many that touch neither hash.

## `AgentTunnel`: sessions, registries and what is said of them

### State and actions against the code

`running`, `version` and `session` are the agent pods (two during a rollout), `link`
and `conn` the connections they dial, `handler` the goroutine of
`handleAgentConnection` that serves each one, `registry` the in-memory
`AgentRegistry` of each API pod, and `status` is `status.agent` of the definition.
`patch` is the version in the merge patch a handler is about to send: it is read
before the write and used after it.

`Dial` and `AgentNotices` are `Run`'s loop, `HeartbeatWithToken` and
`HeartbeatWithoutToken` are `runHeartbeat` and `drainAgentRequests`; `Register`,
`WriteConnected`, `Disconnect` and `WriteDisconnected` are the four parts of the
handler between which others may run; `Latest` is `Register`'s overwrite,
`RemoveIfCurrent` the compare-and-delete, `AfterWait` the decision to report
based on its answer, `Merged` the JSON merge patch with its `omitempty`.
`Crash` is an API pod that dies with its registry.

History variables: `superseded` (connections overwritten while served), `overlap` (a
handler registered while another was not done), `lost` (a patch failed, or a pod died).
`StatusTrueUnlessExcused` claims nothing behind the last two, because the
two patches of overlapping handlers are sent outside every lock and land in either order.

`LateHandshake` lets a connection register after a later one of the *same* agent pod
(their goroutines are scheduled in any order). The run does not allow it, since `ReachableAgain` fails with it;
the theorems allow both.

### Runs

Run `Tunnel`. Three connections are what the hazards need: a stale one, its successor, and
the one that follows when the successor is evicted; with one fault the agent always has a
connection left to dial after it, so the bound never decides liveness. `ReachableAgain`
takes it that all connections are of one agent pod, which stays: with the two pods of a
rolling update it fails (see the disagreements).

Fairness: the agent dials again for ever, heartbeats tick, a handler notices a dead peer
(keepalive) and its patch ends by its timeout. `ReachableAgain` takes it
that the certificate stays valid; `AgentEnrolment` is about the time when it does not.

### Proofs (`TunnelAndHandoverProofs`)

`TunnelInv` is inductive. `RegistryHoldsLatest` needs nothing but types: an entry is
changed only under the registry's lock, by `Register` and `RemoveIfCurrent`. `SupersededStaysSilent`
needs `SupersededServed` (a superseded connection has registered), and
`StatusTrueUnlessExcused` needs `OneAtATime` (without overlap one handler is active
at most, so its two patches are the only ones) and `ClosingStillShown`. All four
hold for every set of pods, every number of connections and faults. `ReachableAgain` is
model-checked only.

## `AgentEnrolment`: from the definition to a certificate

### State and actions against the code

Three sites and what they share. The controller: `want` (the definition's
`spec.access.agent` with the other inputs of `agentConfigHash`), `applied`
(`status.appliedAgent`), `pass` (the install pass), `minted` and `config` (tokens
and what they were minted for). The API server: `live` (token Secrets on the control
plane), `stale` (past their TTL), `calls` (handlers of `POST /agent/bootstrap` in flight), `issued`
certificates. The target cluster: `deploy` (the Deployment's template, named by its token),
`pods`, `secret` (the saved identity).

`Mint`, `Clear`, `Apply`, `Save` and `Remove`, `Save` are `reconcileAgent`'s calls, in order; `Abandon` is a
failure of any of them or the end of the controller. `Get`, `Delete` and `DeleteFails` are
`ValidateAndConsumeBootstrapToken`, whose two calls are not atomic and for which a
delete that finds nothing counts as success. `LoadSaved`, `Bootstrap`, `Persist`,
`Connect`, `Drop` and `Restart` are an agent pod; `StartPod` and `StopPod` a rolling
update of one replica (external: a pod of an older template goes while another is
running). A handler whose agent has gone runs on; orphaned calls of one token at one
stage count once, which only merges handlers that nobody listens to.

`Hazards` names what may go wrong for good: `identityLost` (a restart between redemption
and save), `tokenExpires`, `certExpires`, `reverted` (the configuration goes back to
the recorded one while the target has been changed with nothing recorded).
`excuse` records which have happened; `touched` records that a pass
has changed the target since the last save, which is what makes `reverted` exact;
`raced` records tokens held by two handlers at once.

### Runs

Run `Enrol`. Two tokens are a template and its successor, the third is that of the pass
which puts right a failed one; two edits lead to a configuration and back; the fault is a
failed delete, an abandoned pass or a restart. `MaxTokens` is the sum of the two other bounds, so a pass
never lacks a token because of the bound.
Fairness: passes re-run, the target's kubelet and Deployment controller act, agents and
handlers take their steps; nothing of users, hazards and faults. `StaysConnected` says that
nothing but the four named hazards can strand an agent that stays wanted.

### Proofs (`EnrolmentAndPinsProofs`)

`EnrolInv`: a token that no two handlers held at once is held by one at most
(`HeldAtMostOnce`), has no certificate while it is held (`HeldUnused`) or live (`LiveUnused`), and
certificates are of minted tokens. `OneCertificate` (a second certificate needs two
handlers that both read the Secret before either deleted it) is its consequence and
part of it: `Delete` signs only for a held token, and a token held and not raced has
none yet.

`NeverStranded` relates three sites and needs `IdentityInv` beside `EnrolInv`: where the
identity of the Deployment's pods is now (`Stored`: saved, still to be had for a live token,
or in the hands of a pod about to save it), that a call that is waited for comes from the pod
that waits and with its token (`CallersWait`), that one pod at most runs with the Deployment's token
(`PodsInOrder`), that a token its own pod is redeeming still exists (`HeldLive`), that a
token is new to the target until its manifest is there (`TokensInOrder`), and what the
pass and the record say of the target (`PassKnows`). `Recoverable` alone is not
inductive: a token consumed on behalf of a pod that has been replaced would be counted as a
way to an identity.

## `OrgPlacement`: where an organization lives

### State and actions against the code

`org` is the organization's row (`rc` its reconciling cluster, `migrating` the migration
lock, `pending` the mark of deletion, `renamed` that its name is no longer that of its
namespace; `id` tells organizations that come one after another in the same namespace
apart). `ns` and `obj` are, per cluster, the Namespace and the version of the one object that
stands for all in it. `h` is where each request handler, and the sweep's goroutine, is, with
its locals: the row's `id` as read, the cluster its client goes `at`, the
destination `to`, the version `v` it writes.

A handler is split at each call of a store, since other handlers, in this process or another
replica, may run in between:

| actions | code |
|---|---|
| `Resolve`, with `Resolved` | `resourceClient`, whose answer is used in a later step |
| `CreateStart`, `NewNamespace` | `handleCreateOrganization`: the row, then `ensureNamespace` and the scaffolding |
| `PatchStart`, `Rename` | `handlePatchOrganization` and `handlePutOrgReconcilingCluster`: the checks, the new name |
| `Lock`, `Scaffold`, `Copy`, `Finalize` | `migrateOrganizationToTarget` and `runOrganizationMigration` |
| `MoveFails`, `Unlock` | a failure of the copy, and the clearing of the lock that follows it |
| `WriteStart`, `Write` | `requireOrganizationNotMigrating` around a handler of `clusters.go` |
| `DeleteStart`, `Mark`, `DeleteNamespace` | `handleDeleteOrganization` |
| `SweepStart`, `SweepGet`, `DeleteRow` | the periodic sweep, and the handler's own fast path |
| `NamespaceGone` | Kubernetes (external) |
| `Stop` | an error return, a cancelled request or a process that ends, at any step |

Abstracted: the object is created and changed, its deletion is `ClusterLifecycle`'s; a
`Get` with the `Update` that follows is one step, as the resource version makes it; the four
kinds of objects a move copies are one, so a failure after `Copy` stands for that
of a later kind; two rows never have each other's names.

The two stores share no transaction, so what the handlers promise holds outside of
named windows, which `excuse` records as they are hit: `misplaced` (a call went to a
cluster, or for a row, the organization is not at: a rename, or a client resolved before a
move), `unlocked` (a write or a second move had passed its check when the lock was set),
`leftover` (the destination had an object, which the copy leaves alone),
`moved` (a move ended after the mark), `revived` (a namespace was created after the mark),
`lockLost` and `deleteLost` (a handler ended with the lock held, or between mark and
namespace delete). Each property names the windows it depends on and no other: a lock
always has its holder but for `lockLost`, and so on. `unlocked` does not excuse whatever acts on a locked
row: `late`, a field of a handler that only the history uses, marks those that were between check and action
(`Checked`) when `Lock` was taken, and only they hit it. `LockSeen` says that nobody else is there, and a check
that is left out breaks it.

### Runs

Run `Org`. Two handlers and the sweep are what each window needs: a move and what crosses it.
A move may fail as often as there are moves, and a second one, which `MovesAlone` is about, meets the first at
each of its steps; of moves, writes and handlers cut short there are two in all, so that each pair of
them meets. All three together, and an organization that is followed by one of its name,
are beyond the bounds of the run, and within the theorems. Fairness: a handler that runs goes on, the
sweep's ticker ticks (`cmd/api/run.go`), namespaces terminate; nothing of requests and
faults. `DeletionFinishes` names the windows behind which a deletion may never end.

### Proofs (`OrgPlacementProofs`)

`PlacementInv` is inductive. Beside the properties it has `RowsNumbered` (no handler owns a
row later than the one it read), `LockSeen` (see above), `DeletersMarked` (the mark precedes the delete and stays),
`OnlyMarkedTerminate` and `RowReadyToGo` (the sweep's answer is still true when
the row is deleted, because nothing creates the namespace again but a window),
`MovesFromHere` and `CopyComplete` (what `Finalize` relies on). A step that changes neither
row, namespaces nor objects and starts no move keeps all of it, which one lemma (`Quiet`) says once for
the many steps of that kind. All five safety results hold for every set of clusters
and handlers and every bound.

## `WorkflowRuns` and `OneShotRun`: a run, and what it promises

`OneShotRun` is the abstract specification: a run is created, taken once, worked on while its phase
says Running, ended with an outcome or lost, and removed at any time; nothing takes an outcome
back. `WorkflowRuns` has the objects (`obj`, with resource versions), the informer copies of two
controllers that overlap in a rollout (`cache`), and each one's reconcile (`worker`).

| actions | code |
|---|---|
| `Submit`, `Touch`, `Remove` | `handleCreateWorkflowRun`; another writer; kubectl |
| `Begin`, `Claim` | `Reconcile`: a Pending run from the cache, then the Update to Running at the version read (`Current`), whose answer may be lost |
| `Authenticate`, `Prepare` | `runWorkflow` up to the executor, each way to fail as one |
| `PickJob`, `EndPass`, `EndJobs` | `executeJobs`: passes over `spec.jobs` until all are done or a pass completes none |
| `StartStep`, `EndStep` | `executeStep`: its condition, its Job, what it prints |
| `Finish` | `finish`: one Update at the version of the claim, whose failure is only logged |
| `Crash` | the process ends; its successor lists every object anew |

Conditions compare one variable that a step may have printed; another has a name that
begins with it, because variables are replaced in the order of a Go map and the text may then come
out as neither (`Holds`). Left out: values of variables, requirements and inputs.

Run `Workflow`: a chain against the order of the list with a condition and a lenient, guarded
step; a cycle; a dependency on no job; a workflow with `runtime: client`. Fairness: watches
deliver, workers go on (a step's Job ends by its deadline), and `Begin` is strongly fair, since a
worker that is busy with another run disables it again and again while the queue keeps the key.

`RunInv` is inductive: it says that one worker carries out a run that is Running (`OneWorker`), that
nothing was done before the claim (`NotBefore`), that a copy at the object's version has its
phase (`CopiesLag`), and that what a worker holds of jobs and steps is what has
happened (`WorkerKnows`). `SuccessIsEarned` needs all four: the phase is written by a worker
whose `done` is every job, and only `WorkerKnows` ties that to `result` and `starts`. For the
refinement, `phase` is the object's phase and `work` is "going" while some worker is past
the claim: `Submit`, `Claim`, `Finish`, `Crash` and `Remove` map to the steps of `OneShotRun`,
all others to stutters, and two claims of one run do not both succeed by `OneWorker` and `Current`.

## `Accounts`: rows of users, changed one statement at a time

`user`, `member` (bindings), `sessions` and `resets` are the tables; `req` has the request of each
slot, with what it has read. `Login`, `Forgot`, `Reset`, `Create`, `Update`, `Delete`, `Password`
and `CreateUser` are the handlers (and the `create-user` command) up to their first write, with the
checks they make; `Issue`, `ClearReset`, `InsertReset`, `SetPassword`, `Consume`, `Revoke`, `Make`,
`Bind`, `Move`, `Unbind`, `Count`, `Forget`, `Drop` and `Ensure` their statements, each a step; `Fail` a
statement that fails or a request that ends; `Restart` the process,
with `EnsureUsersFromBindings` and `SeedBootstrapAdmin`.

Windows: `lateLogin` (a login had checked the old password), `revokeLost` (a revocation failed and
was logged), `halfDeleted` (a deletion ended between its statements), `crossed` and `orphaned` (a
membership was made while the user was being deleted), `demoted` (a superadmin's row was
removed or lessened by one that was no superadmin any more, or by its own update from a row read too
early), `replaced` (the same by `create-user`).

Run `Accounts`: two superadmins are what the hazard about the last one needs, two requests at a
time what each window needs. Only safety is checked.

`RowsInv` joins the three properties with what a request is about at each stage (`RequestInv`) and,
for each user, that a deletion reaches the user's row with no membership left (`GoesBare`), that a
password older than the last revocation belongs to a user about to be dropped (`RevokedAhead`) and
that no login in flight carries such a password (`NoneOutdated`). Without the last two
`RevokedStaysOut` is not inductive: a session is opened a statement after its password was
checked. `SuperadminRemains` is inductive with `RequestInv` alone, because nobody deletes or demotes
itself.

## `LocalReconcile`: clusters kept as files

`file` and `side` are a definition and its state sidecar, `cloud` what the status op finds, `proc` the
command of each process with the definitions it has loaded. `Start`, `Reload`, `CheckDeps`, `Status`,
`Create`, `Delete` are a run (`RunLocalReconciliation`, `convergenceLoop`, `reconcileCluster`);
`Write`, `WriteSide`, `Remove`, `RemoveSide` the two writes and two removals of
`SaveClusterDefinition` and `RemoveClusterFile`; `CreateCmd`, `AdoptCmd`, `DeleteCmd` the commands,
`HandWrite` and `HandRemove` an editor; `Settle` and `Break` the cloud; `Kill` a process, which may
leave a file without its content. `uid` numbers the times a definition was written anew, so that
outputs can be told from those of an older cluster of the name.

Windows: `stale` (a command wrote, created or deleted on the strength of a definition that had
changed, or that another was about to remove), `byHand`, `left` (a sidecar without its
definition was left behind, or a definition was overtaken), `undeleted` (the cloud failed to delete
what it had accepted to).

Run `Local`: two clusters that may depend on each other, two processes. Fairness: somebody
runs `hyve reconcile` again, a command that runs goes on, the cloud settles. `Converges` says of
runs that do not overlap for ever (`Alone`) and of files that parse and are locked (`AllGood`) that
every definition settles whose dependencies are sound.

`FilesInv` adds to `LocalInv` what each command holds (`WorkInv`): what it is to remove was asked to be
deleted and its cluster is not up, and outputs go with their own definition in its copies as well as in
the files; and that a sidecar alone is about to be removed (`LoneSidecar`). `UserDecides`, an action
property, follows from it case by case: the only step of a run that changes what people decide
is `Remove`.

## `Fleet`: how requests find an organization's clusters

Rows of environments (`envs`), registrations (`regs`) and the organization (`org`), the objects on
each physical cluster (`objs`, with the label `env` and the short name of each; `Real` is what it is
called), the client that each pod keeps for each registration (`cache`) and the requests (`req`).

| actions | code |
|---|---|
| `CreateEnv`, `InsertEnv`, `DeleteEnv`, `CheckInUse`, `DeleteEnvRow` | the environment handlers, `environmentInUse` |
| `Resolve`, with `Client`, `CacheClient` | `resourceClient`, `reconcilingClusterClientHandle` |
| `CreateCluster`, `NameCluster`, `Create` | `handleCreateCluster`, `resolveCreateName` |
| `TouchCluster`, `Address`, `Touch`, `FailLookup` | update and delete, `resolveAddressedName` (`Addressed`) and its failed lookups |
| `CreateTemplate`, `TouchTemplate` and the like | blueprints, which have no environment |
| `Register`, `InsertReg`, `Rotate`, `Invalidate`, `Remove`, `DeleteReg` | an organization's own reconciling clusters |
| `Switch`, `Destination`, `Lock`, `Copy`, `Flip` | `migrateOrganizationToTarget`, in so far as it meets the above |
| `Fail`, `Restart` | a call that fails, a pod that dies |

`owed` is the history of what was made and not deleted by its name; `own` of an object says that it
is as its makers left it. Windows: `namesake` (two environments and short names join to one name),
`unknownEnv` (an environment was not found and the name taken literally), `late` (a cluster was made,
or copied, while its environment was being deleted), `elsewhere` (a call went to a cluster where the
organization is not), `unlocked`, `leftover` and `lockLost` as in `OrgPlacement`, `repointed` (the
active registration was given another cluster's kubeconfig), `answerLost` (a kubeconfig was
stored and the handler told otherwise), `removed` (a registration went while a move to it was
under way).

Run `Fleet`: three requests, two at a time, from an organization that is new, has a cluster of an
older kind, or has moved away and left one behind. Symmetry of pods, workers and kubeconfigs.

`ServiceInv` is inductive. `RowsNumbered` and `NewRow` make an id name one registration for good, on
which the cache rests; `Carries` says what a request has with it at each step, so that no other
object is hit without a window; `ToRegistered` and `MovesAll` say that a move goes to a registered
cluster and, alone, copies everything, which `Flip` needs for `KeepsWhatWasMade`; `NamesEnv` says
that the environment of a cluster to be made is there and one to be deleted is nobody's, which
`LabelHasEnvironment` needs. Rows and requests that a step does not touch are dealt with by
`SteadyStep`, `QuietStep` and `RowsStep`.

## `PinnedRefs`: `hyve.lock` and the caches

`files` are inodes, `lockFile` and `tmpFile` what `hyve.lock` and `hyve.lock.tmp` name, `cache` each
digest's copy on disk ("part" while it is being copied), `mirror` the status shown in the cluster.
`Begin`, `Skip`, `Load`, `Keep`, `Miss`, `Fetch`, `StartCopy`, `EndCopy`, `Open`, `Write`, `Rename`,
`Mirror` and `Run` are a pass over its two tiers (driver modules, then files); `Command` those of a local
checkout; `Retag` the host of the sources; `Crash` the process. All saves go through the one
temporary file, so two writers may mix it up (`Torn`). The inode that a rename replaces is unlinked: nobody can open
it any more, so its content is dropped.

`Dirs` are the workflows that a definition refers to by their directory: `resolveDir` fetches them at every
pass, looks at no pin and overwrites the one that is there (`Pinned`, `Mismatch`), also that of a definition that
names the same file. `Saves` says who writes `hyve.lock`: a pass whose copy has changed, and an update of
something found in any case.

Run `Pinned`: two passes that want a workflow, which one of them refers to by its directory, and the other a
module as well. `PinsHold` excepts clashing saves
(`Clashes`) and those who are meant to change the pin (`Meant`: a command for it, a definition that refers to
its directory); `PinnedAtLast` assumes a controller whose passes do not overlap
any more and a file that is not torn. Fairness (`FairPasses`): definitions are reconciled again and again.

Proofs (`EnrolmentAndPinsProofs`). That nobody runs half of a file (`RunsWhole`) needs `FilesWhole`, since only
modules are copied directory by directory, and that needs `Settled`: a row that copies is a module's. That a
pin stays needs to know what a save writes. While several save, nothing is said of the files; the one
who saves while nobody else does (`AloneSaving`) writes to the inode it has opened, which is not the lock file's,
and renames what it has written (`SavesItsOwn`), and its copy still has every pin its file had when it was
read, but for those it is meant to change (`Settled`). That survives the end of another's save, since whoever is left alone either has opened the
file after it, or finds the temporary file renamed away. `PinsStay` follows from a step of `Rename` or
`Write`: with none of the clashes, what is renamed extends what was there. The processes have to be finitely
many, for a step to be one of finitely many rows.

## `ResourceReconcile`: what is applied to a cluster

`entries` and `content` are `spec.resources` and its sources, `applied` the record, `live` which
manifest made each object as it is, `release` the versions of charts, `pass` the pass with its
copy. `Start` with `Item` and `Held` is `expandResourceItems`; `DeleteKey`, `DropEntry` the entries
marked `delete: true`; `InSync`, `Apply`, `ApplyFails`, `Unresolved` the loop; `ToOrphans`,
`Prune` the orphans under `strictResourceDelete`; `Unchanged`, `SaveStatus`, `SaveSpec` the one save, in
a status or in two files; `Meddle` anybody else with kubectl. A failed apply leaves any part of a manifest
behind, and that of a chart may have moved the release. `loose` is the history of what hyve
cannot know of (a failed apply, with what only the release before it had, a lost save, an object that a new
version of a manifest drops), `given` that of the keys people gave up.

Run `Resources`, the one that checks for deadlock: a pass can always be taken. `Fulfils` assumes
that no directory of the spec stays empty: an empty one fails, and stops what comes after it, at
every pass. Fairness (`FairResources`): passes come again, each call ends.

What is left to do, `todo`, is a set, and `Turn` takes its keys in the order of the spec, each once.

Proofs (`FleetAndResourceProofs`). `ResourceInv` is inductive. `Accounted` is about the list at hand, that of the
pass while there is one, and for a chart about what both the list and the release have; it survives the end of a pass
because a pass that has changed nothing (`InHand`) has the saved list or less, and a lost save is in `loose`.
`GivenUp` says that the spec as it is and as the pass read it, the sources, and the
orphans lack only what somebody gave up; that a directory which could not be listed is held, and not
taken for empty, is what the step of `Start` needs. `DeletesOnlyGivenUp` rests on both and on the lemma that
a deletion takes only objects that the key owns (`DeletedIsOwned`).

## `ControllerHandover`: two controllers, one cluster

`rc` is the row of each organization, `watched` each controller's set of namespaces as of its start,
`def` the copies of the one definition that is followed, `live` what runs in the cloud, `move` the
move or the copy by hand. `Recheck` and `Start` are `watchTargetNamespaces`, the exit and
the restart; `Begin`, `Apply`, `Save` a pass; `Accept`, with `Edit` and `Delete`, the API in two steps: the check
of the lock with the client that is resolved (`requests` holds who has passed it), then the write, on the
cluster that was resolved; `MoveStart`,
`Load`, `Put`, `CopyStatus`, `MoveFails`, `Finalize` the move, and `CopyByHand` `hyve migrate cluster`.
`MoveFails` may leave the lock set: the call that clears it fails, the last update of the row does, or the handler
dies. Then no request is accepted and no move begins. That two moves both pass the check is
`OrgPlacement`'s subject: here one is under way at a time.
The windows are defined where `Windows` is: `overtaken`, `early`, `leftover`, `late`, `undeleted`, `unguarded`,
`saveLost`, `byHand`. `late` is hit by a write that had passed the check before a move took the lock and
comes to the source once it has been copied; one that comes before the copy is carried along.

Run `Handover`: three moves are away, back and away; the last two may meet a controller that never noticed
the first. Two organizations may change places between two looks. One request is what a copy can
lose; that two of them do no more is within the theorem. Outside of
the windows `HandoverInv` says that whatever runs is told of where the organization is (`Accounted`) and that a
move changes nothing that was asked for (`AsAsked`); in any case that who moves holds the lock, and that
a request that is not late finds the organization where it was resolved (`Orderly`). `Settles`: in the end the controller of the organization's cluster serves it, and no other, and
what runs is what was asked for. Fairness (`FairHandover`): the recheck's timer, the pod's restart, passes,
and the move's request go on.

Proofs (`TunnelAndHandoverProofs`). To be inductive, `HandoverInv` has `Recorded`, what the record where the
organization is and the pass there know between them, and `Carried`, what a move holds at each of its steps
against the source and the destination. The steps of a controller elsewhere are dealt with once, in
`CleanElsewhere`: outside of the windows such a controller changes nothing that runs and no definition but for
its finalizer. The step that flips the row is where `Carried` becomes `Recorded`, and where a pass under way at
the destination would break it, hence `early`.

## `Contexts`: where a command acts

`rows` are the contexts, `session` the one login, `secrets` those of contexts, `old` the database of
an earlier version, which is taken in whenever the new one is opened; `proc` the commands, each a
process of its own that reads and writes one statement at a time. `CreateContext`, `Use`, `RemoveContext`, `Login`,
`Logout`, `UseOrg`, `UseEnv`, `UnsetEnv`, `DeleteEnv`, `Secret` and `Work` are the commands;
`UseClusterMode`, `LoadSession`, `Token`, `SelectedServerEnvironment` and
`SelectedServerOrganization` are what each request is made of; `Stop` is a kill at any step.
`Works` lists the commands that work on clusters, with what each looks up and how often. `--org` and `--env`
are `forOrg` and `forEnv` of a command: what is named goes with its requests (`OrgFor`, `EnvFor`), the
rest is read from the current context, so that `--org` alone sends the context's environment with another
organization; an environment that is named is no selection and is left as None. `environment use` with `--org`
stores an environment of the organization its request went to on a context that may have
another (`Foreign`, window `foreign`). The windows are defined where `Windows` is.

Run `Contexts`: three commands, two at a time, from every state of two contexts, with a kill at any statement, and a token
that runs out at any time. A session that ends, or that its server revokes, shows a command nothing until
it refreshes its token, so it is the refused refresh, which `Ensure` has at any time; `live` only says which
sessions a logout has revoked. `ActsWhereMeant` compares, at the end
of a command, where it acted with the context it began with and what it was given: the organization and the
environment are those that it names or else those selected; the environment is one of that organization where no
`--org` is given and none was given when it was selected. `lapses` is the history of the windows hit.

Proofs (`LifecycleAndContextsProofs`). `ContextsInv` is inductive: what a command holds between two statements is
part of it. `Numbered` and `Routed` say which command gets where, `Aimed` that one for a server has a
session there and one for files a context without, `AsSeen` that unless somebody switched
(`switched`), the context and secrets it has are those of the context that is current, and organization and
environment the ones it names or else those; `Scoped` that a selection is of the context's server, and an
environment of its organization outside of `foreign`; `Chooses` what those that are choosing one found and rely on (none yet, some, none marked), which
carries `OneCurrent`; `Leaves` that a removal leaves another one marked; `Refreshes` and `Keeps` that the row a
token or a secret is about to be written to is the one meant. Four lemmas say what a step leaves as it was, by
what it writes: `QuietStep` (nothing that is kept), `SessionStep`, `SecretsStep` and `RowsStep`; the lemma of each
action says what its own command has after it. `OldestIn` and `ListedIn` turn the choice of a row by LIMIT 1 and by
ListRepositories into facts, by the least of a set of numbers. `CommandsActWhereMeant` is `AsSeen` and
`Aimed` where a command is done. The contexts of one machine may be any number, and so may the commands at a time.

## Disagreements between the code and what is said of it

No run of the project expects a violation. What follows was met while modelling and is, where a model
has it, one of the named windows or an antecedent of a liveness property; some of these statements are
kept in the modules as definitions, given in brackets, to each of which TLC finds a counterexample within
seconds in an instance like those of the runs.

*Lifecycle, agent, tunnel.*

* `reconcileDelete` removes the finalizer whenever `ReconcileOne` returns nil (`reconciler.go:271`), and it
  returns nil without a delete op for a paused definition, one waiting on `dependsOn`, and one with
  an operation in progress (`manager.go:354`, 370, 568); the comment at `clusterdefinition_types.go:7` says
  that the finalizer keeps the object until the cluster is gone.
* `clusterConditions`' comment has Ready and Error exclusive; `recordDeleteOutput` sets Error and leaves Ready.
* `RemoveClusterFile`'s comment has it delete what the pass has seen; it has no UID precondition
  (`RemoveOnlyOwnIncarnation`, the one hazard without a checked property, at `state_provider.go:171`).
* A rollout of the agent may leave a live agent unreachable: the outgoing pod's connection
  registers last, and its end empties the registry.
* `status.agent.connected` may stay false beside a live session, or true beside none (`LiveSessionShown`,
  `ConnectedMeansHeld`): the two patches of overlapping handlers are sent outside every lock. The version is
  written before the first heartbeat tells it (`VersionOfLastConnect`).
* Certificates last 24 hours and nothing renews them (`sign.go:16`): the first reconnect after a
  day fails.
* A token spent on an answer that was lost leaves an installed agent without identity
  (`InstalledHasIdentity`); a configuration changed and changed back is taken for the one installed
  (`AppliedIsInstalled`); a pod of the old template may save its identity after the new pass
  cleared it (`IdentityOfNamespace`).

*Organizations, moves, environments.*

* Calls are routed by looking up an organization whose *name* is the namespace: after a rename the home
  cluster answers, the deletion's check finds nothing there and the row goes while the namespace lives; or it finds there
  the empty namespace that a failed move left, and the row never goes, with its own namespace long gone. A
  `PATCH` that renames and moves copies from the home cluster for the same reason.
* A write checked before the lock was set lands on the source after the copy (`MoveTakesObject`); a handler
  that dies between mark and namespace delete is not resumed by the sweep, which only looks
  (`DeletionResumed`); a failed last update of a move asks to retry a request that the lock then refuses.
* A copied `ClusterDefinition` has no finalizer until the destination's controller has seen it: deleted
  before, its object goes at once and its cluster runs on. `deletionTimestamp` is not copied, so a cluster
  that was being deleted comes back.
* `migrate.go:147` says the status keeps `create.yaml` from being run again; the dispatch follows the driver's
  status op, and what a lost status loses is the params hash and the applied resources. A retry skips
  the object whose status copy failed as existing.
* The lock stops users, not the source's controller; `--i-have-stopped-the-source-controller` is an
  acknowledgement only. Namespaces on the source are never emptied, so a move back skips stale objects. With
  `--force` an old source overwrites what is newer. The help of `migrate cluster` names
  HyveAccessBindings, the code copies Secrets of credentials only.
* `environmentnaming.go:33` says that collisions are avoided; joined names collide. An environment not found, or
  whose lookup fails, on update or delete falls back to the literal name.
* Rotating a kubeconfig invalidates the client of one pod. The comment on `reconcilingClusterClientHandle` has
  it read a Secret, the code reads the Store. Removing a registration during a move to it makes the last
  update fail and the lock stay. `requireOrganizationNotMigrating` lets a request in when its lookup
  fails. `effectiveEnvironmentLabel`'s comment says that "default" may be deleted,
  `handleDeleteOrgEnvironment` refuses it.

*Accounts, workflow runs.*

* `crud.go:1097` says at most one reset token per user is live; two forgotten passwords at once leave two. A
  token is consumed only after it was applied (`auth_handlers.go:477`). Changing one's password
  revokes no session. A second DELETE after a half-done one answers 404. A bootstrap name with a lesser row and no
  superadmin keeps the API server from starting. An update of one's own e-mail writes back an old role.
* `workflowrun_reconciler.go:49` says that a run executes exactly once; a crash after Running ends it without
  an outcome. kubectl actions get the process's environment, not the run's KUBECONFIG (`job_runner.go:300`,
  329); `job.Cluster`, Timeout, Retry and PreFlight are never read; `versionSatisfies` compares parts as
  strings (`requirements.go:190`); a cycle is found only when it is reached, and two jobs of a name end as one.

*Files, pins, resources, contexts.*

* `state.go:440` says that `ReconcileAll` runs strictDelete with no definitions left; it returns early. `hyve
  cluster create` overwrites a definition and drops its sidecar. A definition is removed when its delete op
  was accepted: one that fails afterwards leaves a cluster without definition. A host cluster marked for
  deletion, cycles, self-dependencies, and what depends on a deleted cluster wait for ever. One file that does not
  parse or is not locked stops every run. Concurrent saves clobber edits and may bring back a removed
  definition; `os.WriteFile` truncates first; two overlapping runs with the delete mark toggled in
  between may leave a cluster without definition.
* Directory workflow references are fetched at every pass and their pin overwritten, for those too who name the
  file itself (`reconciler.go:452` says "no
  network at all after the first successful pass"); directory resource sources are never locked;
  `AddModule` locks under the resolved version, where "latest" is not looked for. A half-copied module
  passes `IsCached`. A Module's status is never repaired, since later passes return early. A torn
  `hyve.lock` blocks every pass.
* A file-mode save of resources rewrites the whole definition, with an edit made during the pass. An emptied
  directory fails and blocks what comes after it. kubectl deletes by kind without API group; objects
  that a manifest's new version drops are forgotten; two owners of one object undo each other's work for ever;
  in cluster mode an entry marked `delete: true` stays.
* `SaveAccessToken` saves on whatever session is there. The help of `login` has the session take precedence over
  the context, `UseClusterMode` the context. A removed context of the old database comes back with the next
  command. Commands look the context up again to reconcile. `login` does not revoke the session it
  replaces, and its organization goes to the oldest context of that URL. `apiclient.go:120` says that only
  ClusterDefinitions are scoped by environment; other handlers resolve `?env=` too.
* `manager.go:299` has the environment belong to an organization and clears it with a new one; `--org` for one
  command leaves the context's environment in its requests, and `environment use --org` stores an environment
  of one organization beside another.

## What is not modelled, and why

Host clusters (their pass keeps no state of its own), the database and its migrations (the transactions are
the database's), templates and schedules, conversions and credentials (pure functions), access and
proxying (HTTP relayed without state, but for the registry), the web console, e-mail and charts (input and
output). In the modelled components: dry runs and passes that only authenticate; hooks, which are soft and the
user's; the controller's stale cache in `AgentEnrolment`, which `ClusterLifecycle` covers for the same
object; values, names and formats that no property tells apart; requirements and inputs of workflows; what
`hyve.yaml` and `hyve.env` hold; the superadmin pool of reconciling clusters and its health sweep;
HyveConfig, access bindings and Secrets in a move, which are copied in one write each; in `ResourceReconcile` a
chart that changes its namespace, which leaves the old release behind, and an entry that turns from a chart into
a source; in `LocalReconcile` the deletion of a definition whose `expiresAt` has passed, which
`ClusterLifecycle` has.

Liveness and whatever needs ENABLED is model-checked, not proved. Nothing is proved by induction over data: the
models have no recursive definitions, their sets and functions are changed one element at a time.
