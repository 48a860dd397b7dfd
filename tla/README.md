# A formal model of the IDP platform's controllers

This directory specifies the control plane of the repository in TLA+: the two
reconcilers, the two validating webhooks, the watches that wake them, and as
much of Kubernetes and ArgoCD as they depend on; an abstract specification of
ordered teardown that they implement; the platform ceiling over rollouts of new
flags; and the reconstructed first design of `scenarios/ownership-conflict`.
TLC checks small instances; TLAPS proves every safety property that TLC checks,
the refinement included, for instances of every size. Liveness is left to TLC.

## 1. The system

A **Tenant** (cluster-scoped, named after a team) owns a namespace `team-<t>`,
a RoleBinding and a ResourceQuota in it. A **ServiceClaim** (cluster-scoped)
names a team, an image and replicas, and is rendered to an ArgoCD
**Application** that syncs pods into the team's namespace. Teardown is ordered
by finalizers: the claim's finalizer waits until its Application is gone, the
Tenant's finalizer waits until no claim references it and then deletes the
namespace (ADR-012).

| Component | State | Operations | Correct if |
|---|---|---|---|
| ServiceClaim controller (`internal/controller/serviceclaim_controller.go`) | claim's finalizer and status, the Application | `Reconcile`, `reconcileClaim`, `ensureArgoApplication`, `aggregateReady`, `reconcileDelete`, `claimsForTenant` | no Application without a finalized claim; torn down only for its own, deleted claim; deletion always completes; status converges and never says more than was applied |
| Tenant controller (`tenant_controller.go`) | Tenant's finalizer and status, namespace, RoleBinding, quota | `Reconcile`, three `ensure…` steps, `aggregateReady`, `reconcileDelete`, `tenantForClaim` | no namespace without a finalized Tenant; the namespace outlives the workloads; drift is repaired; a Tenant that is wrongly `Ready` is always about to be looked at |
| Finalizer helpers (`finalizers.go`) | – | `ensureFinalizer`, `releaseFinalizer` | a stale copy never adds or drops a finalizer |
| Field index (`indexes.go`) | spec.team index of the claim cache | `claimTeamIndexer` | a terminating claim still counts |
| Webhooks (`internal/webhook/v1alpha1`) | – | `ValidateCreate/Update/Delete` of both kinds | no service is added to a terminating Tenant; ceiling enforced |
| Limits (`internal/platform/limits.go`) | ceiling from flags | `Exceeded`, `Worsened` | allow-if-not-worse: a ratchet that never wedges a Tenant |
| Manager (`cmd/main.go`) | flags | wiring, restart, conversion of the flags | a restart loses nothing; the conversion never raises a ceiling |
| First design, reconstructed (`scenarios/ownership-conflict/before`) | claim's status; namespace, RoleBinding, quota, Application, all owned by a claim | `Reconcile`, four `ensure…` steps, `aggregateReady` | one owner per namespace; a refused claim gets it when it is free |

What interacts: both controllers run in one manager, one worker each, over the
same informer caches. A Tenant's status gates its claims (read from the cache);
the claim list gates the Tenant's teardown (read from the cache); events of one
kind wake the other controller; users, ArgoCD and the namespace controller act
in between. The hard parts are therefore the lag between etcd and the caches,
names that are deleted and created again while an old reconcile is still under
way, calls that fail or whose answer is lost, restarts, and two finalizers that
wait in a chain. `PROJECT.json` lists these hazards by line.

## 2. The modules

| Module | Models |
|---|---|
| `Limits` | `limits.go` and `quotaHard`: operators over declarations `[cpu, memory, pods]` |
| `VersionLog` | an object as an informer sees it: stored version, cached version, events under way |
| `Cluster` | the constants, the objects, all variables; API server semantics (versions, optimistic lock, merge patch, finalizers), ArgoCD and the namespace controller |
| `Admission` | user requests behind the validating webhooks |
| `ServiceClaimController` | the claim reconciler and its finalizer helpers |
| `TenantController` | the Tenant reconciler, its finalizer helpers and the claim index |
| `Platform` | composition: watches, restart, `Init`, `Next`, fairness, its properties and the inductive invariants behind the finalizer protocol and the claims' status |
| `Quiescence` | what is true of an object that nobody is about to look at, and the invariants behind that |
| `OrderedTeardown` | what ADR-012 promises, without controllers, caches or finalizers |
| `TeardownRefinement` | the mapping under which `Platform` implements `OrderedTeardown` |
| `CeilingRollout` | the ceiling over time: managers with different flags, `int32(maxTenantPods)`, both Tenant validators, the finalizer writes that pass them |
| `OwnershipConflict` | the reconstructed first design, with its caches and garbage collection |
| `MCPlatform`, `MCCeilingRollout`, `MCOwnershipConflict` | values of the constants for TLC |
| `PlatformProofs` | type correctness of `Platform`, and the lemmas on version logs that the next four share |
| `AppGuardProofs` | the finalizer protocol of the claims, what follows from it for workloads, and the claims' status |
| `NamespaceGuardProofs` | the finalizer protocol of the Tenants |
| `TeardownProofs` | `Platform` implements `OrderedTeardown` (whose own theorem is in its module), and `DrainBeforeNamespace` |
| `QuiescenceProofs` | `Quiescence` |
| `CeilingProofs` | the ceiling |
| `OwnershipProofs` | the first design |

**Versions.** `claimLog[c]`, `tenantLog[t]`, `childLog[t][k]` are sequences of
versions of one object. The last is what etcd stores, the first is what the
cache holds, and the ones in between are watch events under way. A write
appends (unless it changes nothing), a `Deliver…` action drops the first
element and queues the keys the `SetupWithManager` functions ask for. A read
through the manager's client is `Cached`, a write and the webhook's
`GetAPIReader` read act on `Stored`. Applications are unstructured objects,
which the manager's client reads live; only the event that queues the claim
(`appEvents`) can be late. resourceVersion is not a field: a version is its
content, and `Conflict` compares contents.

**Incarnations.** `uid` counts how often a name was created. Owner references
carry it, `SetControllerReference` ignores it (it compares kind and name), and
status patches go by name only.

**Reconciles.** `cw` and `tw` are the two workers: a program counter, the key,
the copy of the object that the Go code holds, the status as modified so far,
and an error to return. One action per API call; everything else may happen
between two of them. `MergePatch` sends exactly the status fields that differ
from the copy that the code took as base, the condition list as one field.
Every step takes an outcome: `ok`, `fail` (no effect, error) or `lost` (effect,
but an error for the caller). A returned error or `RequeueAfter` puts the key
back on the queue.

| Code | Action |
|---|---|
| `Reconcile`: Get, branch on deletionTimestamp | `ClaimReconcile`, `TenantReconcile` |
| `ensureFinalizer` | `ClaimEnsureFinalizer`, `TenantEnsureFinalizer` (skipped as in `ClaimFirstStep`) |
| `reconcileClaim` | `ClaimGate` |
| `ensureArgoApplication` | `ClaimEnsureArgoApplication` |
| `aggregateReady` and the status patch | `ClaimPatchStatus`, `TenantPatchStatus` |
| claim `reconcileDelete` | `ClaimGetApp`, `ClaimDeleteApp`, `ClaimPatchDeleting`, `ClaimPatchDrained`, `ClaimRelease` |
| `ensureNamespace`, `ensureRoleBinding`, `ensureQuota` | `TenantEnsureNamespace`, `TenantEnsureRoleBinding`, `TenantEnsureQuota`, `TenantRemoveQuota` |
| Tenant `reconcileDelete` | `TenantListClaims`, `TenantPatchBlocked`, `TenantPatchDrained`, `TenantDeleteNamespace`, `TenantRelease` |
| watches | `DeliverClaim`, `DeliverTenant`, `DeliverChild`, `DeliverApp`, `Resync` |

**Abstraction.** `OrderedTeardown` has a phase per claim, Tenant, service and
namespace, and one action per change: a service is drained only for a claim
that leaves, a claim goes only after its service, a namespace closes only for a
leaving Tenant without claims, a Tenant goes only when its namespace is not
open. `TeardownRefinement` maps `Platform` to it by reading etcd: `live` and
`del` give the phases, `workload` the pods. So `TeardownIsOrdered` checks every
single step, where `DrainBeforeNamespace` looks at states. It holds where the
user stays within ADR-012's assumptions (claim list fresh, admission atomic,
`spec.team` fixed, nothing deleted by hand), which are the instances it is
checked on and the hypotheses it is proved from. The abstract specification has no fairness: what must happen is
stated in `Platform` itself.

**The ceiling.** In `CeilingRollout` `servers` is the set of flag settings of
the managers that serve the webhook. `replicas: 1` and a rolling update make
the old and the new one overlap, webhook servers do not wait for leader
election, and an admission request meets any of them, or none and is refused
(`failurePolicy=fail`). `least` is a history variable for the ratchet. The
finalizer writes of the Tenant controller are updates of the Tenant and are
judged by `ValidateUpdate` like any other.

**The first design.** `OwnershipConflict` is a closed system of its own: one
worker, one step per API call, team objects with one controller reference,
garbage collection of what a vanished claim owned, and the namespace controller
that empties a terminating namespace. Its reconciler reads through
`mgr.GetClient()` (`before/cmd/main.go:87`), so the claim that `Reconcile` gets
and the objects that `CreateOrUpdate` compares with come from the cache
(`claimLog`, `objLog`, as in `Platform`); only Applications are read live. The
cache decides more than whether a write conflicts:

| Cached object | `CreateOrUpdate` |
|---|---|
| not there | creates; fails if one is stored, or if the namespace around it terminates or is gone |
| another claim's | `AlreadyOwnedError`, whether or not that is still so |
| as it should be | writes nothing and reports success, whatever is stored |
| to be changed | updates; conflicts unless the cached version is the stored one |

A write's watch event arrives with it or is held up (`late` counts the ones
held up, to `MaxLate`); events of one object arrive in order, and each queues
the claims that `For` and `Owns` map it to, before and after the change. What
may go wrong (an edit, a name used again, a deletion by hand, a failed or lost
call, a restart, a resync, a namespace that drains faster than its own event
travels) shares one budget, `MaxTrouble`.

**Knobs of Platform.** `Lagging` is the set of kinds whose events may be late; events of
the others arrive before anybody takes another step (`Settled`), which is what
the repository's tests arrange with `waitForCache`. `Env` switches the optional
behaviours of users on (edits, deletions by hand, the two-step admission),
`Faults` the failures of API calls. The theorems hold for every value of these
that their hypotheses do not exclude; the runs choose the ones that matter for
their property, because the product of all is out of TLC's reach.

## 3. What the runs check

All runs but `ceiling` and `ownership` use `MCPlatform`. Unless said otherwise:
one team, one claim, one image, one resource declaration, each name created
once, no edits, at most one late event per object, no fault, no restart.
`CHECK_DEADLOCK FALSE`, because a platform that users leave alone comes to rest;
`ceiling` checks deadlock.

| Run | Instance | Checks |
|---|---|---|
| `ordered_teardown` | 2 claims, late Tenant events | `DrainBeforeNamespace`, `TeardownInv`, `TeardownIsOrdered` |
| `claim_guard` | 2 incarnations of the claim, claim cache up to 2 events behind, two-step admission | `AppGuarded`, `AppGuardedInv`, `ServiceTornDownOnRequest` |
| `recovery` | every call may fail or lose its answer | `TypeOK`, `DrainBeforeNamespace`, `TeardownIsOrdered` |
| `tenant_guard` | 2 incarnations of the Tenant, late Tenant and Namespace events, lost answers, one restart | `NamespaceGuarded`, `NamespaceGuardedInv`, `NamespaceDeletedOnRequest` |
| `live_teardown` | late Application and Tenant events, two-step admission, failing lists in `claimsForTenant`, resyncs, an Application deleted by hand | `ClaimDeletionCompletes`, `TenantDeletionCompletes`, `ResyncRepairs` |
| `live_claims` | an image edit, late Application events, one restart | `WorkloadNotOrphaned`, `ReadyMeansRendered`, `RenderedInv`, `UnattendedClaimReconciled`, `ClaimQuietInv`, `ClaimsConverge` |
| `live_tenants` | 2 incarnations, 4 declarations (none, two sizes, one above the ceiling), an edit, drift, late Namespace and ResourceQuota events | `UnattendedTenantReconciled`, `TenantQuietInv`, `TenantsConverge` |
| `ownership` | 2 claims of one team, 2 declarations, one late event of any object, one trouble: edit, deletion by hand, failed or lost call, restart or resync | `OwnershipTypeOK`, `NamespaceHasOneOwner`, `UnattendedMeansInPlace`, `OwnershipInv`, `OneOwnerInv`, `BlockedClaimTakesOver` |
| `ceiling` | 1 team, 19 declarations, 5 flag settings of which 2 serve at a time, an int32 of 3 bits | `CeilingRatchet`, `NeverWedged`, `CeilingNeverBlocksTeardown` |
| `stale_list` | late claim events | `DrainBeforeNamespace` is **violated** |
| `team_moved` | 2 teams, an edit of `spec.team` | `DrainBeforeNamespace` is **violated** |
| `torn_status` | 2 incarnations of the claim, 2 images, an edit, claim cache up to 2 events behind | `ReadyMeansRendered` is **violated** |

What they show:

* The ordering of ADR-012 holds, step by step, against interleavings, late
  Tenant events, failures and lost answers, **if** the claim list is fresh, a
  claim's admission and its storage are not separated by the Tenant's teardown,
  and `spec.team` does not change. `stale_list` and `team_moved` drop one
  condition each and lose the namespace under a running service. No run drops
  the third: where admission takes two steps (`Env` has `"race"`, in
  `claim_guard` and `live_teardown`) other properties are checked, and
  `DrainBeforeNamespace` is not claimed. Two things contribute: the index can
  only be read from the cache, and the claim's gate looks at the Tenant's
  `Ready` condition only, which the drained Tenant still carries.
* The finalizer protocol itself needs no such condition: `AppGuarded` and
  `NamespaceGuarded` hold with stale caches, recreated names, faults and
  restarts, since the optimistic lock orders the finalizer writes.
* Teardown never gets stuck (D1), also when an Application vanishes between Get
  and Delete and the reconcile returns without a requeue.
* When the list in `claimsForTenant` fails, the claims of a Tenant that became
  Ready are woken by nothing: without resyncs `ClaimsConverge` does not hold
  there. `ResyncRepairs` shows that the resync is enough, as the comment in the
  code says, however many lists fail.
* "Last-writer-wins is safe here" holds for a claim's status when its cache is
  fresh (`ReadyMeansRendered` in `live_claims`) and always in the long run
  (`ClaimsConverge`). With a late cache and a name that is used again it does
  not: in `torn_status` the conditions of the dead incarnation land on the new
  claim, a later patch finds nothing to change in them and advances
  `observedGeneration` over conditions that another reconcile wrote for the
  generation before. The next event repairs it.
* A Tenant's `Ready` may be wrong for a while: with a late quota event,
  `CreateOrUpdate` sees limits it has itself replaced, finds nothing to do, and
  reports success. `UnattendedTenantReconciled` shows that a Tenant that is not
  as it says, or not yet Ready, always has an event, a queued key or a reconcile
  that will look at it again: the controllers may be wrong, but never with
  nobody left to notice. `UnattendedClaimReconciled` says the same of a claim,
  as long as the lists behind its Tenant's events are answered; that includes
  the torn status above.
* The ceiling is a ratchet through rollouts: two managers with different flags
  allow at most what the more generous one alone does. A pods flag of 2^31 or
  more becomes a lower ceiling or none, never a higher one, since no declared
  int32 exceeds it. (It can become a *lower* one, 2^32 + 5 means 5; that is the
  operator's surprise, not a team's gain.) And since an update that raises
  nothing is always accepted, no ceiling can hold a finalizer back.
* The argument of the scenario's README that two claims never fight over one
  quota, which "stands on reading the code", holds also when the namespace
  changes hands, and although `ensureNamespace` decides on a cached namespace:
  what is old in the cache is an older version of the same namespace. It needs
  one condition: the namespace must not be emptied and removed before the event
  of its deletion is in the cache. Without it (`Troubles = {"fast_drain"}`,
  `MaxLag` and `MaxLate` 4; not among the runs, since it takes millions of
  states) TLC finds a claim that is deleted right after it was created: its
  namespace is collected and drained while the cache has seen nothing of it yet,
  the other claim makes the namespace its own, then the cache learns of the
  first claim's namespace, and that claim's last reconcile creates a quota in
  the other one's.
* Like the Tenant controller, the first design may report success for what is
  not stored: after two quick edits, or a deletion by hand with a late event,
  the cached quota is as it should be and nothing is written. The run reaches
  this state: the claim is Ready, idle and not queued, and the quota is not
  there. `UnattendedMeansInPlace` shows that an event that will queue the claim
  is under way whenever that is so. Of two claims of a team at most one is Ready
  with nothing left to wake it; the other one is being retried. A refused claim
  takes over once it is alone, although nothing but its retries ever wakes it.

Every property of a passing run is refuted by a mutant of the code (a dropped
finalizer step, a missing lock, a list without terminating claims, a missing
watch, …), defined next to the definition it replaces.

**Bounds and why they are enough.** The properties relate one claim or one
Tenant to the objects of its own name, and claims interact only through the
list of their Tenant, so one claim per team reaches the interleavings, and
`ordered_teardown` has two so that one can drain while the other remains. Two
incarnations are what "an old reconcile meets the successor" needs; two late
events let a cache miss a deletion *and* the recreation. One restart can hit
between any two steps. `MaxLag` also bounds writes: a write waits until there
is room, which delays but never reorders. `SYMMETRY` is used for the claims of
`ordered_teardown` and the images of `torn_status`, which have no liveness
property and where claims and images occur only as elements of a set.

In `ownership` one trouble and one late event at any point, on top of unbounded
deletions and garbage collection, are enough for the namespace to change hands
with a reconcile of the old owner still under way, and for a reconcile to skip a
write that it should have made. One team is enough for two claims to compete;
moves to a second team, names used again and more late events are in the
theorems, which bound nothing, but not in this run: with them the liveness check
does not end in minutes. In `ceiling` Tenants do not interact, so one stands for all;
what matters is that the declarations lie below, between and above the ceilings
of two overlapping managers, and that the flags include values whose conversion
to int32 is smaller, zero and negative.

**Fairness** (`Fairness` in `Platform`). Strong fairness of starting a
reconcile per key: the work queue is first-in first-out, so a key that is
queued again and again while the worker keeps becoming free gets its turn. Weak
fairness of a running reconcile's next step with outcome `ok` (client-go calls
return, failed ones are retried with back-off), of each event's arrival (the
informers re-list after a broken watch), of ArgoCD's sync and prune and the
namespace controller's drain, and of storing an admitted create. Users owe
nothing. Resyncs may happen but are not assumed, except as the hypothesis of
`ResyncRepairs`. In `OwnershipConflict` the same, per claim and per
object for the events (one stream must not starve another), with weak fairness
of garbage collection. In `CeilingRollout` a Deployment without a running manager starts
one (weak), and the controller's write of a finalizer, repeated with back-off,
succeeds if it could succeed again and again (strong): managers may come and go
for ever.

## 4. What is proved

| Theorem | Statement | Hypotheses |
|---|---|---|
| `PlatformProofs!TypeCorrect` | `Spec => []TypeOK` | – |
| `AppGuardProofs!GuardInvariant`, `AppAlwaysGuarded` | `Spec => []AppGuardedInv`, `[]AppGuarded` | – |
| `AppGuardProofs!TornDownOnRequest` | `Spec => ServiceTornDownOnRequest` | nobody deletes Applications by hand |
| `AppGuardProofs!NeverOrphaned` | `Spec => []WorkloadNotOrphaned` | – |
| `AppGuardProofs!RenderedInvariant`, `ReadyIsRendered` | `Spec => []RenderedInv`, `[]ReadyMeansRendered` | claim cache fresh, nobody deletes Applications by hand |
| `NamespaceGuardProofs!NamespaceGuardInvariant`, `NamespaceAlwaysGuarded` | `Spec => []NamespaceGuardedInv`, `[]NamespaceGuarded` | – |
| `NamespaceGuardProofs!NamespaceClosedOnRequest` | `Spec => NamespaceDeletedOnRequest` | nobody deletes namespaces by hand |
| `OrderedTeardown!TeardownHouses` | `TeardownSpec => []ServicesHoused` | – |
| `TeardownProofs!TeardownInvariant`, `TeardownOrdered`, `NeverUnderRunningService` | `Spec => []TeardownInv`, `TeardownIsOrdered`, `[]DrainBeforeNamespace` | `Undisturbed` |
| `QuiescenceProofs!TenantQuietInvariant`, `UnattendedTenants` | `Spec => []TenantQuietInv`, `[]UnattendedTenantReconciled` | – |
| `QuiescenceProofs!ClaimQuietInvariant`, `UnattendedClaims` | `Spec => []ClaimQuietInv`, `[]UnattendedClaimReconciled` | `ListsAnswered` |
| `OwnershipProofs!OwnershipInvariant`, `OwnershipTypes`, `UnattendedIsInPlace` | `OwnershipSpec => []OwnershipInv`, `[]OwnershipTypeOK`, `[]UnattendedMeansInPlace` | – |
| `OwnershipProofs!OneOwnerInvariant`, `OneOwnerPerNamespace` | `OwnershipSpec => []OneOwnerInv`, `[]NamespaceHasOneOwner` | no namespace drains before the cache has seen its deletion (`"fast_drain" \notin Troubles`) |
| `CeilingProofs!CeilingTypeCorrect`, `RatchetHolds`, `NobodyWedged` | `CeilingSpec => []CeilingTypeOK`, `[]CeilingRatchet`, `[]NeverWedged` | flags are not negative (`CeilingAssumption`) |

Those about `Platform` hold for all sets of teams, claims, images and
resources, all bounds, and all choices of `Lagging`, `Env` and `Faults` that the
hypotheses leave, from the three assumptions of `Cluster` (bounds are naturals
and one late event is allowed; the knobs are subsets of their ranges; `None` is
no name). Every inductive invariant below is also an invariant of a run.

**The finalizer protocol.** `AppGuarded` is not inductive: nothing in it says
why a reconcile that started from an old copy may render an Application, or why
releasing a finalizer is safe. `AppGuardedInv` adds

* on each claim's versions (`LogInv`): uids never decrease and a deletion
  is never taken back within an incarnation (`VersionsInOrder`); only the
  incarnation that the cache has seen can carry the finalizer, since only a
  reconcile adds it (`FinalizersSeen`); a cached version that is finalized and
  not being deleted is still finalized in etcd (`StaleCopyGuarded`);
* on the worker (`ClaimWorkerInv`): when it is about to gate or to render, the
  claim it holds is stored with its finalizer; during teardown every finalized
  version is already marked, so nobody will start rendering again
  (`Condemned`); and once the Application was seen to be gone it stays gone
  until the finalizer is released.

`NamespaceGuardedInv` is the same for a Tenant and its namespace. It is harder
in one place: the namespace is read from a cache as well, so `CreateOrUpdate`
may take an old namespace for the present one, or create one over a namespace
that is terminating. What saves it is that a namespace becomes *usable* in etcd
only at the step of the reconcile during which the Tenant's finalizer is still
stored, and that the finalizer is released only while the namespace is not
usable (`TenantWorkerInv`). The lemmas on version logs (what `Append`, `Tail` and a restart's
one-element log do to `LogInv`) are stated once, for any set of versions, in
`PlatformProofs`. There is one lemma per action. `NeverOrphaned` adds that every
Application carries the cascade finalizer.

**The claims' status.** `ReadyMeansRendered` needs to know that the reconcile's
status patch is taken against the status etcd still holds, that an equal
generation means an equal spec, that no status is ahead of its spec, and that an
Application goes only once its claim is being deleted (`RenderedInv`). All of
these fail with a late claim cache, which is what `torn_status` shows, so the
hypothesis is needed; edits, faults, restarts and late Tenant events are not
restricted.

**Ordered teardown.** `OrderedTeardown` keeps the pods of its services in open
namespaces (`TeardownHouses`; `ServicesHoused` is inductive once `HousedInv`
adds that a claim that is not there has no team and no service). `TeardownOrdered` shows `Platform` to implement
it: initial states map to initial states, and for each action of `Platform` one
lemma shows the step of `OrderedTeardown` it maps to, or that the bars
(`claimBar`, `tenantBar`, …) do not move. The one step that is not local is the
deletion of the namespace, where `Close` demands that the team has no claim in
etcd although the code looked at a cached list two calls earlier.
`ListStillEmpty` carries that fact across: a Tenant that was read as terminating
admits no new claim, and if it is a new incarnation by now it has no finalizer,
so its namespace is not usable either (`NamespaceGuardedInv`). `Undisturbed` is
the list of conditions under which this is true: claim events arrive at once,
admission is one step, teams are fixed, nothing is deleted by hand. The runs
`stale_list` and `team_moved` show what happens without two of them.
`NeverUnderRunningService` follows by transferring `HousedInv` through the
mapping.

**Quiescence.** The controllers are level-triggered: they may skip a necessary
write, overwrite a status with a mixture, or report something that is no longer
so, and rely on being called again. `UnattendedTenants` and `UnattendedClaims`
say that this reliance is justified. The argument is the same for both: every
step that changes what a reconcile of an object depends on either queues the
object's key or leaves an event under way that will. So if an object is quiet
now and was quiet when its reconcile began, all that reconcile read is still
stored (`TenantReconcileUpToDate`, `ClaimReconcileUpToDate`); its final status
patch either changed nothing, and then the status was right already, or it made
an event. No hypothesis is needed for Tenants, stale caches, faults, drift and
restarts included. For claims one is: `ListsAnswered`, that no list behind
`claimsForTenant` fails. The code's comment says as much: a missed enqueue waits
for the resync, and `live_teardown` checks that the resync is enough.

**The first design.** Two invariants, for any number of claims that compete for
a team, any number of late events and any amount of trouble.

`OwnershipInv` is the quiescence argument again. A claim is `Quiet` if it is not
queued and no event under way would queue it: not its own, not its
Application's, and none of a team object that names it as owner before or after
(`WillWake`). Every step that changes what a claim relies on ends the quiet
(`Kept` in the proofs, one lemma per kind of write and of delivery). So a
reconcile whose claim is still quiet works on the stored claim, and what it has
passed is in place, also where it compared with a cached object and wrote
nothing: the cached object names this claim as its owner, hence if it were not
the stored one, an event that wakes the claim would be under way
(`WakeCached`).

`OneOwnerInv` is about the namespace. Its versions between cache and etcd belong
to one life of it (`OneLife`): those that are there have one owner's name, and
it is gone at most at the end, after a version that was there. So a cached owner
is the stored owner, a reconcile past its first step works in a namespace of its
own claim or in none (`WorksInOwnNamespace`), and a create finds the cache up to
date. A namespace that drains while its deletion is still under way breaks
`OneLife`, which is where the hypothesis is used (`FinishOwners`) and what the
counterexample of section 3 exploits.

**The ceiling.** The theorems hold for all teams, declarations and non-negative
flags, any number of managers and any even width of int32 (`CeilingAssumption`:
flags are not negative, although main accepts negative ones unchecked,
declarations are natural numbers and their pods an int32).
`CeilingRatchet` is inductive together with the types. The argument rests on
four lemmas about the operators: `Int32Lowers` (the conversion never raises a
value, and what it makes non-positive was zero or too large to be declared),
`WithinFlag`, `NotWorse` and `NoRaiseAccepted`.

**Only model-checked:** the liveness properties (`ClaimDeletionCompletes`,
`TenantDeletionCompletes`, `ClaimsConverge`, `ResyncRepairs`, `TenantsConverge`,
`BlockedClaimTakesOver`, `CeilingNeverBlocksTeardown`), because fairness and
`ENABLED` are outside the prover. The quiescence theorems prove half of
convergence: a state in which nothing is left to do is the right one; that such
a state is reached is what TLC checks.

## 5. What is not modelled

* Owner-reference garbage collection: while `AppGuarded` holds there is never
  an ownerless Application to collect, and a namespace without its Tenant is
  already being deleted (`NamespaceGuarded`). `OwnershipConflict`, where it does
  the work, models it. Foreground cascading deletion,
  which ADR-012 names as a caveat, and the escape hatch of stripping an
  Application's finalizers by hand are excluded.
* The UID precondition of the Application's deletion: only the claim's own
  worker creates that Application, so it cannot be recreated between Get and
  Delete.
* The read and the write of `CreateOrUpdate` on an Application are one step; a
  write overtaken by another one is a conflict, i.e. the outcome `fail`.
* Delays (`RequeueAfter`, back-off), two managers that both believe to be the
  leader, `ENABLE_WEBHOOKS=false`, negative flags, TLS, metrics, probes.
* Condition messages, labels, repository URLs, ArgoCD's health and sync status,
  which only feed a message. A condition is its reason and its
  observedGeneration.
* Generated code, manifests, tests, infrastructure.

## 6. Plan

Every safety property of the passing runs is a theorem now, some of them under
the conditions of section 4. What is left:

1. The hypothesis of `ReadyIsRendered` can be narrowed: `torn_status` needs a
   late cache *and* a name that is used again. For a claim name that is created
   once, the status should be right with a late cache too.
2. `TeardownOrdered` excludes the two-step admission altogether; it should hold
   with it whenever no admitted create is outstanding at the Tenant's list.
3. The quota that the first design leaves behind (the one hazard without a
   property) is documented as a simplification of the reconstruction.
