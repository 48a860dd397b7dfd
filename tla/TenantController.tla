-------------------------- MODULE TenantController --------------------------
(***************************************************************************)
(* TenantReconciler (internal/controller/tenant_controller.go) with the    *)
(* finalizer helpers (internal/controller/finalizers.go).  One worker, one *)
(* API call per step; tw has the fields of the ServiceClaim worker.        *)
(***************************************************************************)
EXTENDS Cluster

TenantMainPcs   == {"finalizer", "namespace", "rolebinding", "quota", "status"}
TenantDeletePcs == {"list", "patchBlocked", "patchDrained", "deleteNamespace",
                    "release"}

IdleTenantWorker == [pc |-> "idle", key |-> None, obj |-> AbsentTenant(0),
                     st |-> NoStatus(TenantConds), err |-> FALSE]

TenantWorkerTypeOK ==
    /\ tw \in [pc : {"idle"} \cup TenantMainPcs \cup TenantDeletePcs,
               key : Teams \cup {None}, obj : TenantSet,
               st : StatusSet(TenantConds), err : BOOLEAN]
    /\ (tw.pc = "idle") <=> (tw.key = None)

TenantDone(again) ==
    /\ tw' = IdleTenantWorker
    /\ tenantQueue' = IF again THEN tenantQueue \cup {tw.key} ELSE tenantQueue

TenantGoto(pc, obj, st, err) ==
    /\ tw' = [tw EXCEPT !.pc = pc, !.obj = obj, !.st = st, !.err = err]
    /\ tenantQueue' = tenantQueue

-----------------------------------------------------------------------------
\* Where the reconcile of a Tenant that is not being deleted starts.
TenantFirstStep_NoFinalizer(tenant) == "namespace"
TenantFirstStep(tenant) == IF tenant.fin THEN "namespace" ELSE "finalizer"

\* Reconcile, up to its first write.
TenantReconcile(t) ==
    LET tenant == Cached(tenantLog[t])
        Start(pc, st) == tw' = [pc |-> pc, key |-> t, obj |-> tenant,
                                st |-> st, err |-> FALSE]
    IN
    /\ Settled
    /\ tw.pc = "idle"
    /\ t \in tenantQueue
    /\ tenantQueue' = tenantQueue \ {t}
    /\ \/ ~tenant.live /\ tw' = tw
       \/ /\ tenant.live /\ tenant.del
          /\ IF tenant.fin
             THEN Start("list", [tenant.status EXCEPT !.phase = "Terminating"])
             ELSE tw' = tw
       \/ /\ tenant.live /\ ~tenant.del
          /\ Start(TenantFirstStep(tenant), tenant.status)
    /\ UNCHANGED <<claimLog, tenantLog, childLog, argo, admitted, claimQueue,
                   cw, counts>>

\* ensureFinalizer, as for a claim.
TenantEnsureFinalizer(out) ==
    LET new == [tw.obj EXCEPT !.fin = TRUE]
        conflict == Conflict(Tenant(tw.key), tw.obj)
    IN
    /\ Settled
    /\ tw.pc = "finalizer"
    /\ IF out = "fail" \/ conflict THEN UNCHANGED tenantLog
                                   ELSE PutTenant(tw.key, new)
    /\ IF out = "ok" /\ ~conflict
       THEN TenantGoto("namespace", new, new.status, FALSE)
       ELSE TenantDone(TRUE)
    /\ UNCHANGED <<claimLog, childLog, argo, admitted, claimQueue, cw, counts>>

-----------------------------------------------------------------------------
(* reconcileResources: namespace, RoleBinding, quota, in this order *)

\* The object CreateOrUpdate wants: mutate sets the controller reference (an
\* owner of the same name is replaced, whatever its uid) and, for a quota, the
\* limits; the rest is that of the object it read.
Mutated_CreateOnly(o, hard) ==
    [o EXCEPT !.live = TRUE, !.owner = tw.obj.uid,
              !.hard = IF o.live THEN o.hard ELSE hard]
Mutated(o, hard) == [o EXCEPT !.live = TRUE, !.owner = tw.obj.uid,
                              !.hard = hard]

\* Does CreateOrUpdate's write succeed?  It gets the object from the cache.
\* Not there: a create, which needs the name to be free and, inside a
\* namespace, a namespace that is not terminating.  There: an update under
\* optimistic lock, unless nothing changes.
CreateOrUpdateOK(t, k, hard) ==
    LET o == Cached(childLog[t][k])
    IN  IF ~o.live
        THEN /\ ~Child(t, k).live
             /\ k = "Namespace" \/ NamespaceUsable(t)
        ELSE Mutated(o, hard) = o \/ o = Child(t, k)

CreateOrUpdateEffect(t, k, hard) ==
    LET o == Cached(childLog[t][k])
    IN  IF Mutated(o, hard) = o THEN UNCHANGED childLog
                                ELSE PutChild(t, k, Mutated(o, hard))

\* One ensure step: on an error, its condition and the end of the chain.
EnsureChild(out, k, hard, type, okReason, errReason, next) ==
    LET t == tw.key
        ok == CreateOrUpdateOK(t, k, hard)
        Set(reason) == SetCondition(tw.st, tw.obj.gen, type, reason)
    IN
    /\ IF out = "fail" \/ ~ok THEN UNCHANGED childLog
                              ELSE CreateOrUpdateEffect(t, k, hard)
    /\ IF out = "ok" /\ ok
       THEN TenantGoto(next, tw.obj, Set(okReason), FALSE)
       ELSE TenantGoto("status", tw.obj, Set(errReason), TRUE)

TenantEnsureNamespace(out) ==
    /\ Settled
    /\ tw.pc = "namespace"
    /\ EnsureChild(out, "Namespace", NoHard, "NamespaceReady",
                   "NamespaceCreated", "NamespaceError", "rolebinding")
    /\ UNCHANGED <<claimLog, tenantLog, argo, admitted, claimQueue, cw, counts>>

TenantEnsureRoleBinding(out) ==
    /\ Settled
    /\ tw.pc = "rolebinding"
    /\ EnsureChild(out, "RoleBinding", NoHard, "RBACReady",
                   "RoleBindingCreated", "RBACError", "quota")
    /\ UNCHANGED <<claimLog, tenantLog, argo, admitted, claimQueue, cw, counts>>

\* ensureQuota, resources declared.
TenantEnsureQuota(out) ==
    /\ Settled
    /\ tw.pc = "quota"
    /\ quotaHard(tw.obj.res) # NoHard
    /\ EnsureChild(out, "ResourceQuota", quotaHard(tw.obj.res), "QuotaApplied",
                   "QuotaApplied", "QuotaError", "status")
    /\ UNCHANGED <<claimLog, tenantLog, argo, admitted, claimQueue, cw, counts>>

\* ensureQuota, none declared: delete what an earlier reconcile applied.
TenantRemoveQuota(out) ==
    LET t == tw.key
        Set(reason) == SetCondition(tw.st, tw.obj.gen, "QuotaApplied", reason)
    IN
    /\ Settled
    /\ tw.pc = "quota"
    /\ quotaHard(tw.obj.res) = NoHard
    /\ IF out = "fail" \/ ~Child(t, "ResourceQuota").live
       THEN UNCHANGED childLog
       ELSE PutChild(t, "ResourceQuota", AbsentChild)
    /\ IF out = "ok"
       THEN TenantGoto("status", tw.obj, Set("NoResourcesDeclared"), FALSE)
       ELSE TenantGoto("status", tw.obj, Set("QuotaError"), TRUE)
    /\ UNCHANGED <<claimLog, tenantLog, argo, admitted, claimQueue, cw, counts>>

\* aggregateReady.
TenantAggregateReady(st, gen) ==
    LET ready == \A k \in {"NamespaceReady", "RBACReady", "QuotaApplied"} :
                    IsStatusConditionTrue(st, k)
        agg == [st EXCEPT !.og = gen,
                          !.phase = IF ready THEN "Ready" ELSE "Pending"]
    IN  SetCondition(agg, gen, "Ready", IF ready THEN "AllResourcesReady"
                                        ELSE "ResourcesNotReady")

TenantPatched(st) ==
    LET stored == Tenant(tw.key)
    IN  [stored EXCEPT !.status = MergePatch(stored.status, tw.obj.status, st)]

PatchTenant(out, st) ==
    IF out = "fail" \/ ~Tenant(tw.key).live
    THEN UNCHANGED tenantLog ELSE PutTenant(tw.key, TenantPatched(st))

TenantPatchStatus(out) ==
    /\ Settled
    /\ tw.pc = "status"
    /\ PatchTenant(out, TenantAggregateReady(tw.st, tw.obj.gen))
    /\ TenantDone(tw.err \/ out # "ok" \/ ~Tenant(tw.key).live)
    /\ UNCHANGED <<claimLog, childLog, argo, admitted, claimQueue, cw, counts>>

-----------------------------------------------------------------------------
(* reconcileDelete *)

\* The claims that the spec.team index of the cache holds for team t
\* (claimTeamIndexer; terminating claims count).
CachedClaims_SkipTerminating(t) ==
    {c \in Claims : /\ Cached(claimLog[c]).live /\ ~Cached(claimLog[c]).del
                    /\ Cached(claimLog[c]).team = t}
CachedClaims(t) == {c \in Claims : /\ Cached(claimLog[c]).live
                                   /\ Cached(claimLog[c]).team = t}

\* List the claims: a failed list is an error, never "no claims".
TenantListClaims(out) ==
    LET blocked == SetCondition(SetCondition(tw.st, tw.obj.gen,
                      "ClaimsDrained", "ClaimsRemain"),
                      tw.obj.gen, "Ready", "TerminationBlocked")
        drained == SetCondition(tw.st, tw.obj.gen, "ClaimsDrained",
                                "AllClaimsDeleted")
    IN
    /\ Settled
    /\ tw.pc = "list"
    /\ \/ out = "fail" /\ TenantDone(TRUE)
       \/ /\ out = "ok" /\ CachedClaims(tw.key) # {}
          /\ TenantGoto("patchBlocked", tw.obj, blocked, FALSE)
       \/ /\ out = "ok" /\ CachedClaims(tw.key) = {}
          /\ TenantGoto("patchDrained", tw.obj, drained, FALSE)
    /\ UNCHANGED <<claimLog, tenantLog, childLog, argo, admitted, claimQueue,
                   cw, counts>>

\* Claims remain: report and come back later.
TenantPatchBlocked(out) ==
    /\ Settled
    /\ tw.pc = "patchBlocked"
    /\ PatchTenant(out, tw.st)
    /\ TenantDone(TRUE)
    /\ UNCHANGED <<claimLog, childLog, argo, admitted, claimQueue, cw, counts>>

\* No claim remains: report; the patch's answer replaces the copy.
TenantPatchDrained(out) ==
    /\ Settled
    /\ tw.pc = "patchDrained"
    /\ PatchTenant(out, tw.st)
    /\ IF out = "ok" /\ Tenant(tw.key).live
       THEN TenantGoto("deleteNamespace", TenantPatched(tw.st),
                       TenantPatched(tw.st).status, FALSE)
       ELSE TenantDone(TRUE)
    /\ UNCHANGED <<claimLog, childLog, argo, admitted, claimQueue, cw, counts>>

\* Delete the namespace; one that is gone already is fine.
TenantDeleteNamespace_IgnoreError(out) ==
    LET ns == Child(tw.key, "Namespace")
    IN
    /\ Settled
    /\ tw.pc = "deleteNamespace"
    /\ IF out = "fail" \/ ~ns.live
       THEN UNCHANGED childLog
       ELSE PutChild(tw.key, "Namespace", [ns EXCEPT !.del = TRUE])
    /\ TenantGoto("release", tw.obj, tw.st, FALSE)
    /\ UNCHANGED <<claimLog, tenantLog, argo, admitted, claimQueue, cw, counts>>
TenantDeleteNamespace(out) ==
    LET ns == Child(tw.key, "Namespace")
    IN
    /\ Settled
    /\ tw.pc = "deleteNamespace"
    /\ IF out = "fail" \/ ~ns.live
       THEN UNCHANGED childLog
       ELSE PutChild(tw.key, "Namespace", [ns EXCEPT !.del = TRUE])
    /\ IF out = "ok" THEN TenantGoto("release", tw.obj, tw.st, FALSE)
                     ELSE TenantDone(TRUE)
    /\ UNCHANGED <<claimLog, tenantLog, argo, admitted, claimQueue, cw, counts>>

TenantRelease(out) ==
    LET t == tw.key
        conflict == Conflict(Tenant(t), tw.obj)
    IN
    /\ Settled
    /\ tw.pc = "release"
    /\ \/ /\ ~tw.obj.fin
          /\ TenantDone(FALSE)
          /\ UNCHANGED tenantLog
       \/ /\ tw.obj.fin
          /\ IF out = "fail" \/ conflict THEN UNCHANGED tenantLog
             ELSE PutTenant(t, Unfinalized(tw.obj, AbsentTenant(tw.obj.uid)))
          /\ TenantDone(out # "ok" \/ conflict)
    /\ UNCHANGED <<claimLog, childLog, argo, admitted, claimQueue, cw, counts>>

TenantStep(out) ==
    \/ TenantEnsureFinalizer(out) \/ TenantEnsureNamespace(out)
    \/ TenantEnsureRoleBinding(out) \/ TenantEnsureQuota(out)
    \/ TenantRemoveQuota(out) \/ TenantPatchStatus(out)
    \/ TenantListClaims(out) \/ TenantPatchBlocked(out)
    \/ TenantPatchDrained(out) \/ TenantDeleteNamespace(out)
    \/ TenantRelease(out)

TenantNext == \/ \E t \in Teams : TenantReconcile(t)
              \/ \E out \in Outcomes : TenantStep(out)
=============================================================================
