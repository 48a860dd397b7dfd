----------------------------- MODULE Quiescence -----------------------------
(***************************************************************************)
(* What the platform's level-triggered design rests on: when nothing is    *)
(* left that will make a controller look at an object again, the object is *)
(* as its spec asks and its status says so.  The convergence properties    *)
(* of Platform say that such a state comes; this module says that it is    *)
(* the right one, and why.                                                 *)
(***************************************************************************)
EXTENDS Platform

ReadyForGeneration(o) ==
    /\ o.status.og = o.gen
    /\ o.status.phase = "Ready"
    /\ IsStatusConditionTrue(o.status, "Ready")

-----------------------------------------------------------------------------
(* Tenants *)

\* Tenant t is not queued and no event that would queue it is under way.
TenantQuiet(t) ==
    /\ t \notin tenantQueue
    /\ Len(tenantLog[t]) = 1
    /\ \A k \in Kinds : Len(childLog[t][k]) = 1

\* A Tenant that nobody is about to look at is provisioned as its spec asks and
\* says Ready for its present generation; only its namespace may be terminating,
\* whose end will be an event.  "ConditionQuotaApplied (Tenant) reports whether
\* the namespace ResourceQuota matches the Tenant's declared resources"
\* (serviceclaim_types.go): the condition may be wrong for a while, because
\* CreateOrUpdate compares with a cached object and users delete objects by
\* hand, but never with nobody left to notice.
UnattendedTenantReconciled ==
    \A t \in Teams :
        /\ Tenant(t).live /\ ~Tenant(t).del
        /\ TenantQuiet(t) /\ tw.key # t
        => /\ ReadyForGeneration(Tenant(t))
           /\ Provisioned(t) \/ Child(t, "Namespace").del

\* The object of kind k that version s of Tenant t asks for.
ChildInPlace(t, s, k) ==
    LET o == Child(t, k)
        hard == quotaHard(s.res)
    IN  IF k = "ResourceQuota" THEN o.hard = hard /\ (o.live <=> hard # NoHard)
                               ELSE o.live /\ o.owner = s.uid

\* The steps that are behind a reconcile at pc, each with its condition.
TenantStepsDone(pc) ==
    CASE pc = "rolebinding" -> {"Namespace"}
      [] pc = "quota"       -> {"Namespace", "RoleBinding"}
      [] pc = "status"      -> Kinds
      [] OTHER              -> {}
TenantStepCond(k) == CASE k = "Namespace"   -> "NamespaceReady"
                       [] k = "RoleBinding" -> "RBACReady"
                       [] OTHER             -> "QuotaApplied"

\* What is behind a reconcile of a Tenant that has stayed quiet since it began
\* is in place, and it works on the stored version.
TenantReconcileUpToDate ==
    /\ tw.err => tw.pc = "status"
    /\ ~tw.err => \A k \in TenantStepsDone(tw.pc) :
                     IsStatusConditionTrue(tw.st, TenantStepCond(k))
    /\ tw.pc # "idle" /\ TenantQuiet(tw.key) =>
          /\ tw.pc \in TenantDeletePcs =>
                ~Tenant(tw.key).live \/ Tenant(tw.key).del
          /\ tw.pc \in TenantMainPcs =>
                /\ tw.obj = Tenant(tw.key)
                /\ ~tw.err => \A k \in TenantStepsDone(tw.pc) :
                                 ChildInPlace(tw.key, tw.obj, k)

\* The inductive invariant behind UnattendedTenantReconciled.
TenantQuietInv ==
    /\ \A t \in Teams, k \in Kinds : ~Child(t, k).live => Child(t, k) = AbsentChild
    /\ TenantReconcileUpToDate
    /\ \A t \in Teams :
          /\ Tenant(t).live /\ ~Tenant(t).del
          /\ TenantQuiet(t) /\ tw.key # t
          => /\ ReadyForGeneration(Tenant(t))
             /\ \A k \in Kinds : ChildInPlace(t, Tenant(t), k)

-----------------------------------------------------------------------------
(* ServiceClaims *)

\* Claim c is not queued and no event of its own or of its Application's is
\* under way.
ClaimQuiet(c) ==
    /\ c \notin claimQueue
    /\ Len(claimLog[c]) = 1
    /\ c \notin appEvents

\* Claim c, in version s, is Ready for its Tenant as the cache has it.
CachedTenantReady(s) ==
    LET tenant == Cached(tenantLog[s.team])
    IN  tenant.live /\ IsStatusConditionTrue(tenant.status, "Ready")

\* A claim that nobody is about to look at says what is the case: Ready iff its
\* Tenant is, and then its Application is as its spec asks, unless that is
\* terminating.  A Pending claim relies on its Tenant's event (claimsForTenant),
\* so it is enough that no list behind such an event fails.
UnattendedClaimReconciled ==
    \A c \in Claims :
        /\ Claim(c).live /\ ~Claim(c).del
        /\ ClaimQuiet(c) /\ cw.key # c
        /\ Len(tenantLog[Claim(c).team]) = 1
        => ClaimReconciled(c) \/ (app[c].live /\ app[c].del)

\* Every event of a Tenant queues the claims of its team: none of the lists
\* behind claimsForTenant fails.
ListsAnswered ==
    [][\A t \in Teams : DeliverTenant(t, "fail") => DeliverTenant(t, "ok")]_vars

AppInPlace(c, s) == app[c].live /\ app[c] = RenderedApp(app[c], s)

\* A reconcile of a claim that has stayed quiet since it began works on the
\* stored version, and what it found out about Tenant and Application holds.
ClaimReconcileUpToDate ==
    /\ cw.err => cw.pc = "status"
    /\ cw.pc = "app" => IsStatusConditionTrue(cw.st, "TenantReady")
    /\ cw.pc # "idle" /\ ClaimQuiet(cw.key) =>
          /\ cw.pc \in ClaimDeletePcs => ~Claim(cw.key).live \/ Claim(cw.key).del
          /\ cw.pc \in ClaimMainPcs => cw.obj = Claim(cw.key) /\ cw.obj.live
          /\ cw.pc = "app" => CachedTenantReady(cw.obj)
          /\ cw.pc = "status" /\ ~cw.err =>
                LET ready == IsStatusConditionTrue(cw.st, "TenantReady")
                IN  /\ ready <=> CachedTenantReady(cw.obj)
                    /\ ready => /\ IsStatusConditionTrue(cw.st, "ArgoAppCreated")
                                /\ AppInPlace(cw.key, cw.obj)

\* The inductive invariant behind UnattendedClaimReconciled.
ClaimQuietInv ==
    /\ ClaimReconcileUpToDate
    /\ \A c \in Claims :
          LET claim == Claim(c)
              ready == IsStatusConditionTrue(claim.status, "Ready")
          IN  /\ claim.live /\ ~claim.del
              /\ ClaimQuiet(c) /\ cw.key # c
              => /\ claim.status.og = claim.gen
                 /\ ready <=> claim.status.phase = "Ready"
                 /\ ready <=> CachedTenantReady(claim)
                 /\ ready => AppInPlace(c, claim)
=============================================================================
