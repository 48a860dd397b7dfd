----------------------- MODULE ServiceClaimController -----------------------
(***************************************************************************)
(* ServiceClaimReconciler                                                  *)
(* (internal/controller/serviceclaim_controller.go) and the finalizer      *)
(* helpers (internal/controller/finalizers.go).  The controller has one    *)
(* worker.  A reconcile is a sequence of steps with at most one call to    *)
(* the API server each; between two steps anything else may happen.        *)
(*                                                                         *)
(* cw.obj is the reconcile's copy of the claim, so cw.obj.status is the    *)
(* base of the status patch, and cw.st is the status as the reconcile has  *)
(* modified it.  cw.err remembers an error that is returned at the end.    *)
(* Returning an error or a RequeueAfter puts the key back on the queue     *)
(* (the delay is not modelled).                                            *)
(***************************************************************************)
EXTENDS Cluster

ClaimMainPcs   == {"finalizer", "gate", "app", "status"}
ClaimDeletePcs == {"getApp", "deleteApp", "patchDeleting", "patchDrained",
                   "release"}

IdleClaimWorker == [pc |-> "idle", key |-> None, obj |-> AbsentClaim(0),
                    st |-> NoStatus(ClaimConds), err |-> FALSE]

ClaimWorkerTypeOK ==
    /\ cw \in [pc : {"idle"} \cup ClaimMainPcs \cup ClaimDeletePcs,
               key : Claims \cup {None}, obj : ClaimSet,
               st : StatusSet(ClaimConds), err : BOOLEAN]
    /\ (cw.pc = "idle") <=> (cw.key = None)

\* The reconcile returns; again: with an error or a RequeueAfter.
ClaimDone(again) ==
    /\ cw' = IdleClaimWorker
    /\ claimQueue' = IF again THEN claimQueue \cup {cw.key} ELSE claimQueue

\* The reconcile goes on at pc with its copy of the claim and the status.
ClaimGoto(pc, obj, st, err) ==
    /\ cw' = [cw EXCEPT !.pc = pc, !.obj = obj, !.st = st, !.err = err]
    /\ claimQueue' = claimQueue

-----------------------------------------------------------------------------
\* Where the reconcile of a claim that is not being deleted starts:
\* ensureFinalizer returns early for a copy that has the finalizer.
ClaimFirstStep_NoFinalizer(claim) == "gate"
ClaimFirstStep(claim) == IF claim.fin THEN "gate" ELSE "finalizer"

\* Reconcile, up to its first write: get the claim from the cache, branch on
\* its deletion timestamp before anything else (invariant D1).
ClaimReconcile(c) ==
    LET claim == Cached(claimLog[c])
        Start(pc, st) == cw' = [pc |-> pc, key |-> c, obj |-> claim,
                                st |-> st, err |-> FALSE]
    IN
    /\ Settled
    /\ cw.pc = "idle"
    /\ c \in claimQueue
    /\ claimQueue' = claimQueue \ {c}
    /\ \/ ~claim.live /\ cw' = cw
       \/ /\ claim.live /\ claim.del
          /\ IF claim.fin
             THEN Start("getApp", [claim.status EXCEPT !.phase = "Terminating"])
             ELSE cw' = cw
       \/ /\ claim.live /\ ~claim.del
          /\ Start(ClaimFirstStep(claim), claim.status)
    /\ UNCHANGED <<claimLog, tenantLog, childLog, argo, admitted, tenantQueue,
                   tw, counts>>

\* ensureFinalizer: a patch under optimistic lock.  Its answer replaces the
\* copy, status included, and only then the status base is taken.
ClaimEnsureFinalizer(out) ==
    LET c == cw.key
        new == [cw.obj EXCEPT !.fin = TRUE]
        conflict == Conflict(Claim(c), cw.obj)
    IN
    /\ Settled
    /\ cw.pc = "finalizer"
    /\ IF out = "fail" \/ conflict THEN UNCHANGED claimLog ELSE PutClaim(c, new)
    /\ IF out = "ok" /\ ~conflict
       THEN ClaimGoto("gate", new, new.status, FALSE)
       ELSE ClaimDone(TRUE)
    /\ UNCHANGED <<tenantLog, childLog, argo, admitted, tenantQueue, tw, counts>>

\* reconcileClaim up to the Application: the claim's Tenant, from the cache.
\* Only its Ready condition counts.
ClaimGate(out) ==
    LET tenant == Cached(tenantLog[cw.obj.team])
        Set(reason) == SetCondition(cw.st, cw.obj.gen, "TenantReady", reason)
    IN
    /\ Settled
    /\ cw.pc = "gate"
    /\ \/ out = "fail" /\ ClaimGoto("status", cw.obj, Set("TenantError"), TRUE)
       \/ /\ out = "ok" /\ ~tenant.live
          /\ ClaimGoto("status", cw.obj, Set("TenantNotFound"), FALSE)
       \/ /\ out = "ok" /\ tenant.live
          /\ IF IsStatusConditionTrue(tenant.status, "Ready")
             THEN ClaimGoto("app", cw.obj, Set("TenantReady"), FALSE)
             ELSE ClaimGoto("status", cw.obj, Set("TenantNotReady"), FALSE)
    /\ UNCHANGED <<claimLog, tenantLog, childLog, argo, admitted, tenantQueue,
                   tw, counts>>

\* The Application the claim's spec is rendered to; fields that the mutate
\* function does not touch (the deletion timestamp) are those of a.
RenderedApp_NoCascade(a, claim) ==
    [a EXCEPT !.live = TRUE, !.owner = claim.uid, !.dest = claim.team,
              !.img = claim.img]
RenderedApp(a, claim) ==
    [a EXCEPT !.live = TRUE, !.owner = claim.uid, !.dest = claim.team,
              !.img = claim.img, !.cascade = TRUE]

\* ensureArgoApplication: CreateOrUpdate, read and write as one step (a write
\* that another one overtook is a conflict, which is the outcome "fail").
\* SetControllerReference compares owners by name, so it never refuses the
\* claim's own Application.
ClaimEnsureArgoApplication(out) ==
    LET c == cw.key
        Set(reason) == SetCondition(cw.st, cw.obj.gen, "ArgoAppCreated", reason)
    IN
    /\ Settled
    /\ cw.pc = "app"
    /\ IF out = "fail" THEN UNCHANGED <<app, appEvents>>
                       ELSE PutApp(c, RenderedApp(app[c], cw.obj))
    /\ IF out = "ok"
       THEN ClaimGoto("status", cw.obj, Set("ApplicationApplied"), FALSE)
       ELSE ClaimGoto("status", cw.obj, Set("ArgoAppError"), TRUE)
    /\ UNCHANGED <<claimLog, tenantLog, childLog, workload, admitted,
                   tenantQueue, tw, counts>>

\* aggregateReady: Ready iff both steps' conditions are true.
ClaimAggregateReady_Reread(st, gen) ==
    LET ready == /\ IsStatusConditionTrue(st, "TenantReady")
                 /\ IsStatusConditionTrue(st, "ArgoAppCreated")
        agg == [st EXCEPT !.og = Claim(cw.key).gen,
                          !.phase = IF ready THEN "Ready" ELSE "Pending"]
    IN  SetCondition(agg, gen, "Ready", IF ready THEN "AllResourcesReady"
                                        ELSE "ResourcesNotReady")
ClaimAggregateReady(st, gen) ==
    LET ready == /\ IsStatusConditionTrue(st, "TenantReady")
                 /\ IsStatusConditionTrue(st, "ArgoAppCreated")
        agg == [st EXCEPT !.og = gen,
                          !.phase = IF ready THEN "Ready" ELSE "Pending"]
    IN  SetCondition(agg, gen, "Ready", IF ready THEN "AllResourcesReady"
                                        ELSE "ResourcesNotReady")

\* The claim as the status patch st of this reconcile leaves it: a patch goes
\* by name to whatever is stored.
ClaimPatched(st) ==
    LET stored == Claim(cw.key)
    IN  [stored EXCEPT !.status = MergePatch(stored.status, cw.obj.status, st)]

\* The status patch: no effect on a claim that is gone (NotFound).
PatchClaim(out, st) ==
    IF out = "fail" \/ ~Claim(cw.key).live
    THEN UNCHANGED claimLog ELSE PutClaim(cw.key, ClaimPatched(st))

\* The end of Reconcile: aggregate, patch, return the first error.
ClaimPatchStatus(out) ==
    /\ Settled
    /\ cw.pc = "status"
    /\ PatchClaim(out, ClaimAggregateReady(cw.st, cw.obj.gen))
    /\ ClaimDone(cw.err \/ out # "ok" \/ ~Claim(cw.key).live)
    /\ UNCHANGED <<tenantLog, childLog, argo, admitted, tenantQueue, tw, counts>>

-----------------------------------------------------------------------------
(* reconcileDelete *)

\* What is left to do about the Application that was found.
DrainStep_AfterTenant(a) ==
    IF ~a.live /\ ~Cached(tenantLog[cw.obj.team]).live THEN "patchDrained"
    ELSE IF a.live /\ ~a.del THEN "deleteApp" ELSE "patchDeleting"
DrainStep(a) == IF ~a.live THEN "patchDrained"
                ELSE IF ~a.del THEN "deleteApp" ELSE "patchDeleting"

\* Get the Application, live, and branch on what it says.
ClaimGetApp(out) ==
    LET next == DrainStep(app[cw.key])
        Drained(reason) ==
            SetCondition(cw.st, cw.obj.gen, "ApplicationDrained", reason)
    IN
    /\ Settled
    /\ cw.pc = "getApp"
    /\ \/ out = "fail" /\ ClaimDone(TRUE)
       \/ /\ out = "ok" /\ next = "patchDrained"
          /\ ClaimGoto(next, cw.obj, Drained("ApplicationDeleted"), FALSE)
       \/ /\ out = "ok" /\ next = "deleteApp"
          /\ ClaimGoto(next, cw.obj, cw.st, FALSE)
       \/ /\ out = "ok" /\ next = "patchDeleting"
          /\ ClaimGoto(next, cw.obj,
                       Drained("ApplicationDeletionBlocked"), FALSE)
    /\ UNCHANGED <<claimLog, tenantLog, childLog, argo, admitted, tenantQueue,
                   tw, counts>>

\* Ask for its deletion.  If it vanished meanwhile the reconcile returns
\* without an error and without a requeue.
ClaimDeleteApp(out) ==
    LET c == cw.key
        deleting == SetCondition(cw.st, cw.obj.gen, "ApplicationDrained",
                                 "DeletingApplication")
    IN
    /\ Settled
    /\ cw.pc = "deleteApp"
    /\ IF out = "fail" \/ ~app[c].live THEN UNCHANGED <<app, appEvents>>
                                       ELSE PutApp(c, DeletedApp(app[c]))
    /\ \/ out # "ok" /\ ClaimDone(TRUE)
       \/ out = "ok" /\ ~app[c].live /\ ClaimDone(FALSE)
       \/ /\ out = "ok" /\ app[c].live
          /\ ClaimGoto("patchDeleting", cw.obj, deleting, FALSE)
    /\ UNCHANGED <<claimLog, tenantLog, childLog, workload, admitted,
                   tenantQueue, tw, counts>>

\* Report that the Application is still there and come back later.
ClaimPatchDeleting(out) ==
    /\ Settled
    /\ cw.pc = "patchDeleting"
    /\ PatchClaim(out, cw.st)
    /\ ClaimDone(TRUE)
    /\ UNCHANGED <<tenantLog, childLog, argo, admitted, tenantQueue, tw, counts>>

\* Report that it is gone; NotFound on the claim ends the reconcile quietly.
\* The patch's answer replaces the copy.
ClaimPatchDrained(out) ==
    /\ Settled
    /\ cw.pc = "patchDrained"
    /\ PatchClaim(out, cw.st)
    /\ \/ ~Claim(cw.key).live /\ ClaimDone(out # "ok")
       \/ Claim(cw.key).live /\ out # "ok" /\ ClaimDone(TRUE)
       \/ /\ Claim(cw.key).live /\ out = "ok"
          /\ ClaimGoto("release", ClaimPatched(cw.st), ClaimPatched(cw.st).status,
                       FALSE)
    /\ UNCHANGED <<tenantLog, childLog, argo, admitted, tenantQueue, tw, counts>>

\* releaseFinalizer: nothing to do if the copy has none, else a patch under
\* optimistic lock.
ClaimRelease(out) ==
    LET c == cw.key
        conflict == Conflict(Claim(c), cw.obj)
    IN
    /\ Settled
    /\ cw.pc = "release"
    /\ \/ /\ ~cw.obj.fin
          /\ ClaimDone(FALSE)
          /\ UNCHANGED claimLog
       \/ /\ cw.obj.fin
          /\ IF out = "fail" \/ conflict THEN UNCHANGED claimLog
             ELSE PutClaim(c, Unfinalized(cw.obj, AbsentClaim(cw.obj.uid)))
          /\ ClaimDone(out # "ok" \/ conflict)
    /\ UNCHANGED <<tenantLog, childLog, argo, admitted, tenantQueue, tw, counts>>

ClaimStep(out) ==
    \/ ClaimEnsureFinalizer(out) \/ ClaimGate(out)
    \/ ClaimEnsureArgoApplication(out) \/ ClaimPatchStatus(out)
    \/ ClaimGetApp(out) \/ ClaimDeleteApp(out) \/ ClaimPatchDeleting(out)
    \/ ClaimPatchDrained(out) \/ ClaimRelease(out)

ClaimNext == \/ \E c \in Claims : ClaimReconcile(c)
             \/ \E out \in Outcomes : ClaimStep(out)
=============================================================================
