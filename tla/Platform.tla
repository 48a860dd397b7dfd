------------------------------ MODULE Platform ------------------------------
(***************************************************************************)
(* The whole platform: users and webhooks, the two controllers, the        *)
(* watches that wake them (the SetupWithManager functions), ArgoCD, the    *)
(* namespace controller, and restarts of the manager.                      *)
(***************************************************************************)
EXTENDS Admission, ServiceClaimController, TenantController

-----------------------------------------------------------------------------
(* Watches: an event moves the cache one version on and queues keys. *)

\* tenantForClaim; an event maps the old and the new version.
tenantForClaim_Deleted(claim) == {claim.team}
tenantForClaim(claim) == IF claim.live THEN {claim.team} ELSE {}

\* claimsForTenant: from the spec.team index; a failed list queues nothing.
claimsForTenant_Dropped(t, out) == {}
claimsForTenant(t, out) == IF out = "ok" THEN CachedClaims(t) ELSE {}

DeliverClaim(c) ==
    /\ Len(claimLog[c]) > 1
    /\ claimLog' = [claimLog EXCEPT ![c] = Tail(@)]
    /\ claimQueue' = claimQueue \cup {c}
    /\ tenantQueue' = tenantQueue \cup tenantForClaim(claimLog[c][1])
                                  \cup tenantForClaim(claimLog[c][2])
    /\ UNCHANGED <<tenantLog, childLog, argo, admitted, workers>>

DeliverTenant(t, out) ==
    /\ Len(tenantLog[t]) > 1
    /\ tenantLog' = [tenantLog EXCEPT ![t] = Tail(@)]
    /\ tenantQueue' = tenantQueue \cup {t}
    /\ claimQueue' = claimQueue \cup claimsForTenant(t, out)
    /\ UNCHANGED <<claimLog, childLog, argo, admitted, workers>>

\* Owns(Namespace), Owns(RoleBinding), Owns(ResourceQuota).
DeliverChild_NotOwned(t, k) ==
    /\ Len(childLog[t][k]) > 1
    /\ childLog' = [childLog EXCEPT ![t] =
                       [childLog[t] EXCEPT ![k] = Tail(childLog[t][k])]]
    /\ UNCHANGED <<claimLog, tenantLog, argo, admitted, queues, workers>>
DeliverChild(t, k) ==
    /\ Len(childLog[t][k]) > 1
    /\ childLog' = [childLog EXCEPT ![t] =
                       [childLog[t] EXCEPT ![k] = Tail(childLog[t][k])]]
    /\ tenantQueue' = tenantQueue \cup {t}
    /\ UNCHANGED <<claimLog, tenantLog, argo, admitted, claimQueue, workers>>

\* Owns(Application).
DeliverApp(c) ==
    /\ c \in appEvents
    /\ appEvents' = appEvents \ {c}
    /\ claimQueue' = claimQueue \cup {c}
    /\ UNCHANGED <<claimLog, tenantLog, childLog, app, workload, admitted,
                   tenantQueue, workers>>

\* The periodic resync of the cache, or a status write of ArgoCD's on the
\* Application, queues a claim that nothing of ours has changed.
Resync_OnlyNew(c) ==
    /\ "resync" \in Env
    /\ Cached(claimLog[c]).live
    /\ Cached(claimLog[c]).gen # Cached(claimLog[c]).status.og
    /\ claimQueue' = claimQueue \cup {c}
    /\ UNCHANGED <<claimLog, tenantLog, childLog, argo, admitted, tenantQueue,
                   workers>>
Resync(c) ==
    /\ "resync" \in Env
    /\ Cached(claimLog[c]).live
    /\ claimQueue' = claimQueue \cup {c}
    /\ UNCHANGED <<claimLog, tenantLog, childLog, argo, admitted, tenantQueue,
                   workers>>

\* The manager dies and starts again: both reconciles are cut off, the caches
\* are filled from etcd, and every object in them is queued.
Crash ==
    /\ Settled
    /\ crashes < MaxCrashes
    /\ crashes' = crashes + 1
    /\ cw' = IdleClaimWorker
    /\ tw' = IdleTenantWorker
    /\ claimLog' = [c \in Claims |-> <<Claim(c)>>]
    /\ tenantLog' = [t \in Teams |-> <<Tenant(t)>>]
    /\ childLog' = [t \in Teams |-> [k \in Kinds |-> <<Child(t, k)>>]]
    /\ appEvents' = {}
    /\ claimQueue' = {c \in Claims : Claim(c).live \/ app[c].live}
    /\ tenantQueue' = {t \in Teams : \/ Tenant(t).live
                                     \/ Child(t, "Namespace").live
                                     \/ \E c \in Claims : Claim(c).team = t}
    /\ UNCHANGED <<app, workload, admitted, byHand>>

WatchNext ==
    \/ \E c \in Claims : DeliverClaim(c) \/ DeliverApp(c) \/ Resync(c)
    \/ \E t \in Teams : \/ \E out \in ListOutcomes : DeliverTenant(t, out)
                        \/ \E k \in Kinds : DeliverChild(t, k)

ExternalNext ==
    \/ \E c \in Claims : ArgoSync(c) \/ ArgoPrune(c)
    \/ \E t \in Teams : NamespaceFinalize(t)

Init ==
    /\ ClusterInit
    /\ cw = IdleClaimWorker
    /\ tw = IdleTenantWorker

Next == UserNext \/ ClaimNext \/ TenantNext \/ WatchNext \/ ExternalNext
        \/ Crash

Spec == Init /\ [][Next]_vars

-----------------------------------------------------------------------------
(* Safety *)

\* Every variable keeps the shape the code's types give it, and a worker has a
\* key exactly while it is reconciling.
TypeOK == ClusterTypeOK /\ ClaimWorkerTypeOK /\ TenantWorkerTypeOK

\* An Application always has its claim behind it: the incarnation that owns it
\* is stored and carries the teardown finalizer.  "Add the finalizer before any
\* side effect, so we can never create an Application we would fail to clean
\* up" (serviceclaim_controller.go), with stale caches, restarts and failed
\* calls.  It also means that owner-reference garbage collection never has an
\* Application to collect.
AppGuarded ==
    \A c \in Claims : app[c].live =>
        /\ Claim(c).live /\ Claim(c).fin
        /\ Claim(c).uid = app[c].owner

\* A namespace that is not being removed has its Tenant behind it, with the
\* teardown finalizer: "teardown ordering is guaranteed for every Tenant that
\* ever provisioned anything" (tenant_controller.go).
NamespaceGuarded ==
    \A t \in Teams : NamespaceUsable(t) =>
        /\ Tenant(t).live /\ Tenant(t).fin
        /\ Tenant(t).uid = Child(t, "Namespace").owner

\* Running pods always have an Application that will prune them when it goes:
\* deleting a claim never orphans its workload (ADR-012).
WorkloadNotOrphaned ==
    \A c \in Claims : workload[c] # None => app[c].live /\ app[c].cascade

\* "A namespace is never removed out from under a running service" (ADR-012):
\* no workload runs in a namespace that is terminating or gone.
DrainBeforeNamespace ==
    \A c \in Claims : workload[c] # None => NamespaceUsable(workload[c])

\* An Application is deleted only for the claim that owns it, and only once
\* that claim is being deleted: a reconcile that works on an old incarnation of
\* a name never tears down the service of the new one.
ServiceTornDownOnRequest ==
    [][\A c \in Claims :
          (app[c].live /\ ~app[c].del /\ (app'[c].del \/ ~app'[c].live)) =>
             /\ Claim(c).live /\ Claim(c).del
             /\ Claim(c).uid = app[c].owner]_vars

\* The controller removes a namespace only for a Tenant that is being deleted,
\* never the namespace of a Tenant that was created again meanwhile.
NamespaceDeletedOnRequest ==
    [][\A t \in Teams :
          (NamespaceUsable(t) /\ ~NamespaceUsable(t)') =>
             /\ Tenant(t).live /\ Tenant(t).del
             /\ Tenant(t).uid = Child(t, "Namespace").owner]_vars

\* A claim that reports Ready for its present generation has an Application
\* rendered from its present spec: neither a stale copy nor a patch taken
\* against a stale base ("last-writer-wins is safe here") makes the status
\* claim more than was applied.
ReadyMeansRendered ==
    \A c \in Claims :
        /\ Claim(c).live /\ ~Claim(c).del
        /\ IsStatusConditionTrue(Claim(c).status, "Ready")
        /\ Claim(c).status.og = Claim(c).gen
        => app[c].live /\ app[c] = RenderedApp(app[c], Claim(c))

-----------------------------------------------------------------------------
(* Why these hold: the invariants behind them *)

\* Version v may follow version o: a name comes back only as a new
\* incarnation, and a deletion timestamp is never taken back.
Follows(o, v) ==
    /\ o.uid <= v.uid
    /\ o.uid = v.uid /\ o.del /\ v.live => v.del

VersionsInOrder(log) ==
    \A i, j \in 1..Len(log) : i <= j => Follows(log[i], log[j])

\* The finalizer is on no incarnation that the cache has not seen, since only a
\* reconcile puts it there.
FinalizersSeen(log) ==
    \A i \in 1..Len(log) :
        log[i].live /\ log[i].fin => log[i].uid = Cached(log).uid

\* A cached object that may be acted on still has its finalizer in etcd.
StaleCopyGuarded(log) ==
    \A i \in 1..Len(log) :
        log[i].live /\ log[i].fin /\ ~log[i].del =>
           /\ Stored(log).live /\ Stored(log).fin
           /\ Stored(log).uid = log[i].uid

\* Nobody can take a copy from the cache that is guarded and not terminating.
Condemned(log) ==
    \A i \in 1..Len(log) : log[i].live /\ log[i].fin => log[i].del

LogInv(log) ==
    VersionsInOrder(log) /\ FinalizersSeen(log) /\ StaleCopyGuarded(log)

\* What a reconcile that is under way may rely on.
ClaimWorkerInv ==
    cw.pc # "idle" =>
    LET log == claimLog[cw.key]
    IN  /\ cw.pc = "finalizer" => /\ cw.obj.live /\ ~cw.obj.fin
                                  /\ cw.obj.uid <= Cached(log).uid
        /\ cw.pc \in {"gate", "app"} => /\ Stored(log).live /\ Stored(log).fin
                                        /\ Stored(log).uid = cw.obj.uid
        /\ cw.pc \in ClaimDeletePcs => Condemned(log)
        /\ cw.pc \in {"patchDrained", "release"} => ~app[cw.key].live
        /\ cw.pc = "release" => cw.obj.live

\* AppGuarded and what makes it inductive: the versions between cache and etcd,
\* and the copy the reconcile works on, never lead it to render an Application
\* for a claim without finalizer or to release a finalizer too early.
AppGuardedInv ==
    /\ AppGuarded
    /\ \A c \in Claims : LogInv(claimLog[c])
    /\ ClaimWorkerInv

\* The same for the Tenant's reconcile, whose side effect is the namespace.
TenantWorkerInv ==
    tw.pc # "idle" =>
    LET log == tenantLog[tw.key]
    IN  /\ tw.pc = "finalizer" => /\ tw.obj.live /\ ~tw.obj.fin
                                  /\ tw.obj.uid <= Cached(log).uid
        /\ tw.pc = "namespace" => /\ Stored(log).live /\ Stored(log).fin
                                  /\ Stored(log).uid = tw.obj.uid
        /\ tw.pc \in TenantDeletePcs => Condemned(log)
        /\ tw.pc \in {"deleteNamespace", "release"} => tw.obj.live
        /\ tw.pc = "release" => ~NamespaceUsable(tw.key)

\* NamespaceGuarded and what makes it inductive: no reconcile, however old its
\* copy of the Tenant and of the namespace, opens a namespace for a Tenant
\* without finalizer or releases the finalizer while the namespace is usable.
NamespaceGuardedInv ==
    /\ NamespaceGuarded
    /\ \A t \in Teams : LogInv(tenantLog[t])
    /\ TenantWorkerInv

\* What a reconcile that renders an Application may rely on when the cache is
\* fresh: etcd still holds the incarnation and the status it started from, the
\* same spec if the generation is the same, and nobody takes the Application
\* away.
RenderWorkerInv ==
    cw.pc # "idle" =>
    LET claim == Claim(cw.key)
        a == app[cw.key]
    IN  /\ cw.pc \in ClaimMainPcs =>
              ~a.del /\ cw.obj.status.og <= cw.obj.gen
        /\ cw.pc \in {"gate", "app", "status"} =>
              /\ claim.live /\ claim.fin /\ claim.uid = cw.obj.uid
              /\ claim.status = cw.obj.status
              /\ cw.obj.gen <= claim.gen
              /\ cw.obj.gen = claim.gen => /\ claim.team = cw.obj.team
                                           /\ claim.img = cw.obj.img
        /\ /\ cw.pc = "status"
           /\ IsStatusConditionTrue(cw.st, "TenantReady")
           /\ IsStatusConditionTrue(cw.st, "ArgoAppCreated")
           => a.live /\ a = RenderedApp(a, cw.obj)
        /\ cw.pc \in ClaimDeletePcs => claim.live /\ claim.del

\* ReadyMeansRendered and what makes it inductive: no status is ahead of its
\* spec, an Application goes only once its claim is being deleted, and the
\* conditions of a reconcile under way are true of what it has applied.
RenderedInv ==
    /\ ReadyMeansRendered
    /\ \A c \in Claims :
          /\ Claim(c).live /\ ~Claim(c).del =>
                Claim(c).status.og <= Claim(c).gen
          /\ app[c].del => app[c].live /\ Claim(c).live /\ Claim(c).del
    /\ RenderWorkerInv

-----------------------------------------------------------------------------
(* Fairness and liveness *)

\* The work queue is first-in first-out: a queued key gets its turn whenever
\* the worker keeps becoming free.  A running reconcile goes on, events arrive,
\* ArgoCD and the namespace controller do their part.  Users owe nothing,
\* except that an admitted create reaches etcd.
Fairness ==
    /\ \A c \in Claims : /\ SF_vars(ClaimReconcile(c))
                         /\ WF_vars(DeliverClaim(c))
                         /\ WF_vars(DeliverApp(c))
                         /\ WF_vars(ArgoSync(c))
                         /\ WF_vars(ArgoPrune(c))
                         /\ WF_vars(PersistClaim(c))
    /\ \A t \in Teams : /\ SF_vars(TenantReconcile(t))
                        /\ WF_vars(DeliverTenant(t, "ok"))
                        /\ \A k \in Kinds : WF_vars(DeliverChild(t, k))
                        /\ WF_vars(NamespaceFinalize(t))
    /\ WF_vars(ClaimStep("ok"))
    /\ WF_vars(TenantStep("ok"))

FairSpec == Spec /\ Fairness

\* A claim that is being deleted goes away, whatever happens to its Tenant:
\* invariant D1, the two finalizers never wait for each other (ADR-012).
ClaimDeletionCompletes ==
    \A c \in Claims : Claim(c).del ~> ~Claim(c).del

\* A Tenant that is being deleted goes away, unless a claim that nobody deletes
\* still references it, which is the one thing that may block it (ADR-012).
TenantDeletionCompletes ==
    \A t \in Teams :
        Tenant(t).del ~> \/ ~Tenant(t).del
                         \/ \E c \in Claims : /\ Claim(c).live
                                              /\ Claim(c).team = t
                                              /\ ~Claim(c).del

\* A claim whose status says what is the case: it has seen the present spec, is
\* Ready iff its Tenant is, and then its Application is as the spec says.
ClaimReconciled(c) ==
    LET claim == Claim(c)
        ready == IsStatusConditionTrue(claim.status, "Ready")
    IN  /\ claim.status.og = claim.gen
        /\ ready <=> claim.status.phase = "Ready"
        /\ ready <=> /\ Tenant(claim.team).live
                     /\ IsStatusConditionTrue(Tenant(claim.team).status, "Ready")
        /\ ready => /\ app[c].live /\ ~app[c].del
                    /\ app[c] = RenderedApp(app[c], claim)

\* Once users leave the platform alone every claim gets there and stays there:
\* a pending claim is woken when its Tenant becomes Ready, a status write that
\* was lost or torn by a stale base is repaired.
ClaimsConverge ==
    <>[](\A c \in Claims :
            Claim(c).live /\ ~Claim(c).del => ClaimReconciled(c))

\* "A missed enqueue is corrected by the periodic resync" (claimsForTenant):
\* if the list behind a Tenant's event fails, its claims converge all the same
\* as long as the resync comes round.
ResyncRepairs ==
    (\A c \in Claims : WF_vars(Resync(c))) => ClaimsConverge

\* The objects a Tenant's spec asks for, in the state it asks for.
Provisioned(t) ==
    /\ NamespaceUsable(t)
    /\ Child(t, "Namespace").owner = Tenant(t).uid
    /\ Child(t, "RoleBinding").live
    /\ Child(t, "RoleBinding").owner = Tenant(t).uid
    /\ Child(t, "ResourceQuota").hard = quotaHard(Tenant(t).res)
    /\ Child(t, "ResourceQuota").live <=> quotaHard(Tenant(t).res) # NoHard

\* Once users leave the platform alone every Tenant is Ready for its present
\* spec and really provisioned: drift is repaired, a write that a stale cache
\* made the controller skip is made up for.
TenantsConverge ==
    <>[](\A t \in Teams :
            Tenant(t).live /\ ~Tenant(t).del =>
               /\ Provisioned(t)
               /\ Tenant(t).status.og = Tenant(t).gen
               /\ Tenant(t).status.phase = "Ready"
               /\ IsStatusConditionTrue(Tenant(t).status, "Ready"))
=============================================================================
