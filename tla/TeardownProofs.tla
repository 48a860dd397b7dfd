--------------------------- MODULE TeardownProofs ---------------------------
(***************************************************************************)
(* Platform implements OrderedTeardown, for every instance in which the    *)
(* claims that a Tenant's deletion lists are listed without delay, claims  *)
(* keep their team, and nobody deletes Applications or namespaces by hand. *)
(* The runs stale_list and team_moved show that the first two conditions   *)
(* are needed.                                                             *)
(***************************************************************************)
EXTENDS TeardownRefinement, AppGuardProofs, NamespaceGuardProofs

\* The instances the theorems are about.
Undisturbed ==
    /\ "ServiceClaim" \notin Lagging
    /\ {"race", "team_edit", "app_delete", "drift"} \cap Env = {}

\* All that is known of a reachable state.
Reachable == TypeOK /\ AppGuardedInv /\ NamespaceGuardedInv /\ TeardownInv

-----------------------------------------------------------------------------
(* The refinement mapping, object by object *)

LEMMA BarTypes ==
    /\ claimBar = [c \in Claims |-> claimBar[c]]
    /\ teamBar = [c \in Claims |-> teamBar[c]]
    /\ tenantBar = [t \in Teams |-> tenantBar[t]]
    /\ serviceBar = [c \in Claims |-> serviceBar[c]]
    /\ nsBar = [t \in Teams |-> nsBar[t]]
    /\ \A c \in Claims : /\ claimBar[c] = LifePhase(Claim(c))
                         /\ teamBar[c] = Claim(c).team
                         /\ serviceBar[c] = ServicePhase(app[c])
    /\ \A t \in Teams : /\ tenantBar[t] = LifePhase(Tenant(t))
                        /\ nsBar[t] = NsPhase(Child(t, "Namespace"))
  BY DEF claimBar, teamBar, tenantBar, serviceBar, nsBar

LEMMA ClaimsSeen ==
    ASSUME \A c \in Claims : /\ LifePhase(Claim(c))' = LifePhase(Claim(c))
                             /\ Claim(c)'.team = Claim(c).team
    PROVE  UNCHANGED <<claimBar, teamBar>>
  BY DEF claimBar, teamBar

LEMMA TenantsSeen ==
    ASSUME \A t \in Teams : LifePhase(Tenant(t))' = LifePhase(Tenant(t))
    PROVE  UNCHANGED tenantBar
  BY DEF tenantBar

LEMMA ServicesSeen ==
    ASSUME \A c \in Claims : ServicePhase(app'[c]) = ServicePhase(app[c])
    PROVE  UNCHANGED serviceBar
  BY DEF serviceBar

LEMMA NamespacesSeen ==
    ASSUME \A t \in Teams : NsPhase(Child(t, "Namespace"))'
                               = NsPhase(Child(t, "Namespace"))
    PROVE  UNCHANGED nsBar
  BY DEF nsBar

\* One write changes one object.
LEMMA ClaimSeen ==
    ASSUME TypeOK, NEW c \in Claims, NEW v \in ClaimSet, PutClaim(c, v)
    PROVE  /\ claimBar' = [claimBar EXCEPT ![c] = LifePhase(v)]
           /\ teamBar' = [teamBar EXCEPT ![c] = v.team]
           /\ Stored(claimLog'[c]) = v
           /\ \A d \in Claims : d # c => claimLog'[d] = claimLog[d]
  <1>1. /\ claimLog \in [Claims -> Seq(ClaimSet)]
        /\ claimLog[c] \in Seq(ClaimSet) /\ Len(claimLog[c]) >= 1
    BY DEF TypeOK, ClusterTypeOK
  <1>2. /\ claimLog'[c] = Written(claimLog[c], v)
        /\ \A d \in Claims : d # c => claimLog'[d] = claimLog[d]
    BY <1>1 DEF PutClaim
  <1>3. Stored(claimLog'[c]) = v
    BY <1>1, <1>2, LogWritten
  <1> QED BY <1>2, <1>3 DEF claimBar, teamBar, Claim

LEMMA TenantSeen ==
    ASSUME TypeOK, NEW t \in Teams, NEW v \in TenantSet, PutTenant(t, v)
    PROVE  /\ tenantBar' = [tenantBar EXCEPT ![t] = LifePhase(v)]
           /\ Stored(tenantLog'[t]) = v
           /\ \A u \in Teams : u # t => tenantLog'[u] = tenantLog[u]
  <1>1. /\ tenantLog \in [Teams -> Seq(TenantSet)]
        /\ tenantLog[t] \in Seq(TenantSet) /\ Len(tenantLog[t]) >= 1
    BY DEF TypeOK, ClusterTypeOK
  <1>2. /\ tenantLog'[t] = Written(tenantLog[t], v)
        /\ \A u \in Teams : u # t => tenantLog'[u] = tenantLog[u]
    BY <1>1 DEF PutTenant
  <1>3. Stored(tenantLog'[t]) = v
    BY <1>1, <1>2, LogWritten
  <1> QED BY <1>2, <1>3 DEF tenantBar, Tenant

LEMMA NamespaceSeen ==
    ASSUME TypeOK, NEW t \in Teams, NEW k \in Kinds, NEW v \in ChildSet,
           PutChild(t, k, v)
    PROVE  IF k = "Namespace" THEN nsBar' = [nsBar EXCEPT ![t] = NsPhase(v)]
                              ELSE nsBar' = nsBar
  <1>1. "Namespace" \in Kinds
    BY DEF Kinds
  <1>2. /\ Stored(childLog'[t][k]) = v
        /\ \A u \in Teams : u # t \/ "Namespace" # k =>
              childLog'[u]["Namespace"] = childLog[u]["Namespace"]
    BY <1>1, ChildPut
  <1>3. CASE k = "Namespace"
    BY <1>2, <1>3 DEF nsBar, Child
  <1>4. CASE k # "Namespace"
    BY <1>2, <1>4 DEF nsBar, Child
  <1> QED BY <1>3, <1>4

LEMMA ServiceSeen ==
    ASSUME TypeOK, NEW c \in Claims, NEW v, PutApp(c, v)
    PROVE  serviceBar' = [serviceBar EXCEPT ![c] = ServicePhase(v)]
  BY DEF TypeOK, ClusterTypeOK, PutApp, serviceBar

LEMMA SameLogs ==
    /\ UNCHANGED claimLog => UNCHANGED <<claimBar, teamBar>>
    /\ UNCHANGED tenantLog => UNCHANGED tenantBar
    /\ UNCHANGED childLog => UNCHANGED nsBar
    /\ UNCHANGED app => UNCHANGED serviceBar
  BY DEF claimBar, teamBar, tenantBar, nsBar, serviceBar, Claim, Tenant, Child

-----------------------------------------------------------------------------
(* What OrderedTeardown does not see *)

\* A write that keeps what is seen of a claim, or of a Tenant.
LEMMA ClaimHidden ==
    ASSUME TypeOK, NEW c \in Claims, NEW v \in ClaimSet, PutClaim(c, v),
           v.live = Claim(c).live, v.del = Claim(c).del, v.team = Claim(c).team
    PROVE  UNCHANGED <<claimBar, teamBar>>
  <1>1. LifePhase(v) = LifePhase(Claim(c))
    BY DEF LifePhase
  <1> QED BY <1>1, ClaimSeen, BarTypes

LEMMA TenantHidden ==
    ASSUME TypeOK, NEW t \in Teams, NEW v \in TenantSet, PutTenant(t, v),
           v.live = Tenant(t).live, v.del = Tenant(t).del
    PROVE  UNCHANGED tenantBar
  <1>1. LifePhase(v) = LifePhase(Tenant(t))
    BY DEF LifePhase
  <1> QED BY <1>1, TenantSeen, BarTypes

LEMMA ClaimPatchHidden ==
    ASSUME TypeOK, cw.pc # "idle", NEW out, NEW st \in StatusSet(ClaimConds),
           PatchClaim(out, st)
    PROVE  UNCHANGED <<claimBar, teamBar>>
  <1>1. /\ cw.key \in Claims /\ Claim(cw.key) \in ClaimSet
        /\ ClaimPatched(st) \in ClaimSet
    BY ClaimWorkerTypes, StoredTypes, PatchClaimType DEF TypeOK
  <1>2. /\ ClaimPatched(st).live = Claim(cw.key).live
        /\ ClaimPatched(st).del = Claim(cw.key).del
        /\ ClaimPatched(st).team = Claim(cw.key).team
    BY <1>1 DEF ClaimPatched, ClaimSet
  <1> QED BY <1>1, <1>2, ClaimHidden, SameLogs DEF PatchClaim

LEMMA TenantPatchHidden ==
    ASSUME TypeOK, tw.pc # "idle", NEW out, NEW st \in StatusSet(TenantConds),
           PatchTenant(out, st)
    PROVE  UNCHANGED tenantBar
  <1>1. /\ tw.key \in Teams /\ Tenant(tw.key) \in TenantSet
        /\ TenantPatched(st) \in TenantSet
    BY TenantWorkerTypes, StoredTypes, PatchTenantType DEF TypeOK
  <1>2. /\ TenantPatched(st).live = Tenant(tw.key).live
        /\ TenantPatched(st).del = Tenant(tw.key).del
    BY <1>1 DEF TenantPatched, TenantSet
  <1> QED BY <1>1, <1>2, TenantHidden, SameLogs DEF PatchTenant

\* Claims are seen to change only when users create or delete one and when a
\* finalizer is released.
LEMMA ClaimsHidden ==
    ASSUME Undisturbed, Reachable, [Next]_vars
    PROVE  \/ UNCHANGED <<claimBar, teamBar>>
           \/ \E c \in Claims, t \in Teams, img \in Images : CreateClaim(c, t, img)
           \/ \E c \in Claims : DeleteClaim(c)
           \/ \E out \in Outcomes : ClaimRelease(out)
  <1> DEFINE Hidden == UNCHANGED <<claimBar, teamBar>>
  <1>a. TypeOK /\ (UNCHANGED claimLog => Hidden)
    BY SameLogs DEF Reachable
  <1>b. /\ \A c \in Claims : Claim(c) \in ClaimSet
        /\ claimLog \in [Claims -> Seq(ClaimSet)]
        /\ \A c \in Claims : Len(claimLog[c]) >= 1
    BY <1>a, StoredTypes DEF TypeOK, ClusterTypeOK
  <1> HIDE DEF Hidden
  <1>1. ASSUME NEW c \in Claims, NEW t \in Teams, NEW img \in Images,
               EditClaim(c, t, img)
        PROVE  Hidden
    <2> DEFINE v == [Claim(c) EXCEPT !.team = t, !.img = img, !.gen = @ + 1]
    <2>1. PutClaim(c, v) /\ t = Claim(c).team
      BY <1>1 DEF EditClaim, Undisturbed
    <2>2. v \in ClaimSet
      BY <1>b, ClaimEditType
    <2>3. v.live = Claim(c).live /\ v.del = Claim(c).del /\ v.team = t
      BY <1>b DEF ClaimSet
    <2> QED BY <1>a, <2>1, <2>2, <2>3, ClaimHidden DEF Hidden
  <1>2. ASSUME NEW out \in Outcomes, ClaimEnsureFinalizer(out) PROVE Hidden
    <2> DEFINE v == [cw.obj EXCEPT !.fin = TRUE]
    <2>1. cw.pc # "idle"
      BY <1>2 DEF ClaimEnsureFinalizer
    <2>2. cw.key \in Claims /\ cw.obj \in ClaimSet
      BY <1>a, <2>1, ClaimWorkerTypes
    <2>3. v \in ClaimSet /\ v.live = cw.obj.live /\ v.del = cw.obj.del
          /\ v.team = cw.obj.team
      BY <2>2 DEF ClaimSet
    <2>4. UNCHANGED claimLog \/ (PutClaim(cw.key, v) /\ cw.obj = Claim(cw.key))
      BY <1>2 DEF ClaimEnsureFinalizer, Conflict
    <2> QED BY <1>a, <2>2, <2>3, <2>4, ClaimHidden DEF Hidden
  <1>3. ASSUME NEW out \in Outcomes,
               \/ ClaimPatchStatus(out) \/ ClaimPatchDeleting(out)
               \/ ClaimPatchDrained(out)
        PROVE  Hidden
    <2>1. cw.pc # "idle"
      BY <1>3 DEF ClaimPatchStatus, ClaimPatchDeleting, ClaimPatchDrained
    <2>2. /\ cw.st \in StatusSet(ClaimConds)
          /\ ClaimAggregateReady(cw.st, cw.obj.gen) \in StatusSet(ClaimConds)
      BY <1>a, <2>1, ClaimWorkerTypes, ClaimAggregateType
    <2>3. \E st \in StatusSet(ClaimConds) : PatchClaim(out, st)
      BY <1>3, <2>2 DEF ClaimPatchStatus, ClaimPatchDeleting, ClaimPatchDrained
    <2> QED BY <1>a, <2>1, <2>3, ClaimPatchHidden DEF Hidden
  <1>4. ASSUME NEW c \in Claims, DeliverClaim(c) PROVE Hidden
    <2>1. Len(claimLog[c]) > 1 /\ claimLog' = [claimLog EXCEPT ![c] = Tail(@)]
      BY <1>4 DEF DeliverClaim
    <2>2. \A d \in Claims : Stored(claimLog'[d]) = Stored(claimLog[d])
      BY <1>b, <2>1, LogTail
    <2> QED BY <2>2 DEF Hidden, claimBar, teamBar, Claim
  <1>5. CASE Crash
    <2>1. \A d \in Claims : Stored(claimLog'[d]) = Claim(d)
      BY <1>5 DEF Crash, Stored
    <2> QED BY <2>1 DEF Hidden, claimBar, teamBar, Claim
  <1>6. CASE UserNext
    <2>1. ASSUME NEW c \in Claims, PersistClaim(c) PROVE FALSE
      BY <2>1 DEF PersistClaim, Reachable, TeardownInv
    <2> QED BY <1>6, <1>a, <1>1, <2>1 DEF UserNext, CreateTenant, EditTenant,
         DeleteTenant, AdmitClaim, DeleteAppByHand, DeleteChildByHand, Hidden
  <1>7. CASE ClaimNext
    <2>1. ASSUME NEW c \in Claims, ClaimReconcile(c) PROVE Hidden
      BY <1>a, <2>1 DEF ClaimReconcile
    <2>2. ASSUME NEW out \in Outcomes,
                 \/ ClaimGate(out) \/ ClaimEnsureArgoApplication(out)
                 \/ ClaimGetApp(out) \/ ClaimDeleteApp(out)
          PROVE  Hidden
      BY <1>a, <2>2 DEF ClaimGate, ClaimEnsureArgoApplication, ClaimGetApp,
         ClaimDeleteApp
    <2> QED BY <1>7, <1>2, <1>3, <2>1, <2>2 DEF ClaimNext, ClaimStep, Hidden
  <1>8. CASE TenantNext
    BY <1>8, <1>a DEF TenantNext, TenantReconcile, TenantStep,
       TenantEnsureFinalizer, TenantEnsureNamespace, TenantEnsureRoleBinding,
       TenantEnsureQuota, TenantRemoveQuota, TenantPatchStatus,
       TenantListClaims, TenantPatchBlocked, TenantPatchDrained,
       TenantDeleteNamespace, TenantRelease, Hidden
  <1>9. CASE WatchNext
    BY <1>9, <1>a, <1>4 DEF WatchNext, DeliverTenant, DeliverChild, DeliverApp,
       Resync, Hidden
  <1>10. CASE ExternalNext \/ UNCHANGED vars
    BY <1>10, <1>a DEF ExternalNext, ArgoSync, ArgoPrune, NamespaceFinalize,
       vars, Hidden
  <1> QED BY <1>5, <1>6, <1>7, <1>8, <1>9, <1>10 DEF Next, Hidden

\* The same for Tenants.
LEMMA TenantsHidden ==
    ASSUME Reachable, [Next]_vars
    PROVE  \/ UNCHANGED tenantBar
           \/ \E t \in Teams, res \in Resources : CreateTenant(t, res)
           \/ \E t \in Teams : DeleteTenant(t)
           \/ \E out \in Outcomes : TenantRelease(out)
  <1> DEFINE Hidden == UNCHANGED tenantBar
  <1>a. TypeOK /\ (UNCHANGED tenantLog => Hidden)
    BY SameLogs DEF Reachable
  <1>b. /\ \A t \in Teams : Tenant(t) \in TenantSet
        /\ tenantLog \in [Teams -> Seq(TenantSet)]
        /\ \A t \in Teams : Len(tenantLog[t]) >= 1
    BY <1>a, StoredTypes DEF TypeOK, ClusterTypeOK
  <1> HIDE DEF Hidden
  <1>1. ASSUME NEW t \in Teams, NEW res \in Resources, EditTenant(t, res)
        PROVE  Hidden
    <2> DEFINE v == [Tenant(t) EXCEPT !.res = res, !.gen = @ + 1]
    <2>1. PutTenant(t, v)
      BY <1>1 DEF EditTenant
    <2>2. v \in TenantSet
      BY <1>b, TenantEditType
    <2>3. v.live = Tenant(t).live /\ v.del = Tenant(t).del
      BY <1>b DEF TenantSet
    <2> QED BY <1>a, <2>1, <2>2, <2>3, TenantHidden DEF Hidden
  <1>2. ASSUME NEW out \in Outcomes, TenantEnsureFinalizer(out) PROVE Hidden
    <2> DEFINE v == [tw.obj EXCEPT !.fin = TRUE]
    <2>1. tw.pc # "idle"
      BY <1>2 DEF TenantEnsureFinalizer
    <2>2. tw.key \in Teams /\ tw.obj \in TenantSet
      BY <1>a, <2>1, TenantWorkerTypes
    <2>3. v \in TenantSet /\ v.live = tw.obj.live /\ v.del = tw.obj.del
      BY <2>2 DEF TenantSet
    <2>4. UNCHANGED tenantLog \/ (PutTenant(tw.key, v) /\ tw.obj = Tenant(tw.key))
      BY <1>2 DEF TenantEnsureFinalizer, Conflict
    <2> QED BY <1>a, <2>2, <2>3, <2>4, TenantHidden DEF Hidden
  <1>3. ASSUME NEW out \in Outcomes,
               \/ TenantPatchStatus(out) \/ TenantPatchBlocked(out)
               \/ TenantPatchDrained(out)
        PROVE  Hidden
    <2>1. tw.pc # "idle"
      BY <1>3 DEF TenantPatchStatus, TenantPatchBlocked, TenantPatchDrained
    <2>2. /\ tw.st \in StatusSet(TenantConds)
          /\ TenantAggregateReady(tw.st, tw.obj.gen) \in StatusSet(TenantConds)
      BY <1>a, <2>1, TenantWorkerTypes, TenantAggregateType
    <2>3. \E st \in StatusSet(TenantConds) : PatchTenant(out, st)
      BY <1>3, <2>2 DEF TenantPatchStatus, TenantPatchBlocked, TenantPatchDrained
    <2> QED BY <1>a, <2>1, <2>3, TenantPatchHidden DEF Hidden
  <1>4. ASSUME NEW t \in Teams, NEW out, DeliverTenant(t, out) PROVE Hidden
    <2>1. /\ Len(tenantLog[t]) > 1
          /\ tenantLog' = [tenantLog EXCEPT ![t] = Tail(@)]
      BY <1>4 DEF DeliverTenant
    <2>2. \A u \in Teams : Stored(tenantLog'[u]) = Stored(tenantLog[u])
      BY <1>b, <2>1, LogTail
    <2> QED BY <2>2 DEF Hidden, tenantBar, Tenant
  <1>5. CASE Crash
    <2>1. \A u \in Teams : Stored(tenantLog'[u]) = Tenant(u)
      BY <1>5 DEF Crash, Stored
    <2> QED BY <2>1 DEF Hidden, tenantBar, Tenant
  <1>6. CASE UserNext
    BY <1>6, <1>a, <1>1 DEF UserNext, CreateClaim, AdmitClaim, EditClaim,
       PersistClaim, DeleteClaim, DeleteAppByHand, DeleteChildByHand, Hidden
  <1>7. CASE TenantNext
    <2>1. ASSUME NEW t \in Teams, TenantReconcile(t) PROVE Hidden
      BY <1>a, <2>1 DEF TenantReconcile
    <2>2. ASSUME NEW out \in Outcomes,
                 \/ TenantEnsureNamespace(out) \/ TenantEnsureRoleBinding(out)
                 \/ TenantEnsureQuota(out) \/ TenantRemoveQuota(out)
                 \/ TenantListClaims(out) \/ TenantDeleteNamespace(out)
          PROVE  Hidden
      BY <1>a, <2>2 DEF TenantEnsureNamespace, TenantEnsureRoleBinding,
         TenantEnsureQuota, TenantRemoveQuota, TenantListClaims,
         TenantDeleteNamespace
    <2> QED BY <1>7, <1>2, <1>3, <2>1, <2>2 DEF TenantNext, TenantStep, Hidden
  <1>8. CASE ClaimNext
    BY <1>8, <1>a DEF ClaimNext, ClaimReconcile, ClaimStep,
       ClaimEnsureFinalizer, ClaimGate, ClaimEnsureArgoApplication,
       ClaimPatchStatus, ClaimGetApp, ClaimDeleteApp, ClaimPatchDeleting,
       ClaimPatchDrained, ClaimRelease, Hidden
  <1>9. CASE WatchNext
    BY <1>9, <1>a, <1>4 DEF WatchNext, DeliverClaim, DeliverChild, DeliverApp,
       Resync, Hidden
  <1>10. CASE ExternalNext \/ UNCHANGED vars
    BY <1>10, <1>a DEF ExternalNext, ArgoSync, ArgoPrune, NamespaceFinalize,
       vars, Hidden
  <1> QED BY <1>5, <1>6, <1>7, <1>8, <1>9, <1>10 DEF Next, Hidden

\* Applications change when the claim's reconcile renders or deletes them and
\* when ArgoCD has pruned them; workloads change by ArgoCD and by the end of a
\* namespace.
LEMMA ServicesHidden ==
    ASSUME Undisturbed, [Next]_vars
    PROVE  /\ \/ UNCHANGED <<app, serviceBar>>
              \/ \E out \in Outcomes : \/ ClaimEnsureArgoApplication(out)
                                       \/ ClaimDeleteApp(out)
              \/ \E c \in Claims : ArgoPrune(c)
           /\ \/ UNCHANGED workload
              \/ \E c \in Claims : ArgoSync(c) \/ ArgoPrune(c)
              \/ \E t \in Teams : NamespaceFinalize(t)
  <1>1. CASE UserNext
    <2>1. UNCHANGED <<app, workload>>
      BY <1>1 DEF UserNext, CreateTenant, EditTenant, DeleteTenant, CreateClaim,
         AdmitClaim, EditClaim, PersistClaim, DeleteClaim, DeleteAppByHand,
         DeleteChildByHand, Undisturbed, argo
    <2> QED BY <2>1, SameLogs
  <1>2. CASE ClaimNext
    <2>1. UNCHANGED workload
      BY <1>2 DEF ClaimNext, ClaimReconcile, ClaimStep, ClaimEnsureFinalizer,
         ClaimGate, ClaimEnsureArgoApplication, ClaimPatchStatus, ClaimGetApp,
         ClaimDeleteApp, ClaimPatchDeleting, ClaimPatchDrained, ClaimRelease,
         argo
    <2>2. \/ UNCHANGED app
          \/ \E out \in Outcomes : \/ ClaimEnsureArgoApplication(out)
                                   \/ ClaimDeleteApp(out)
      BY <1>2 DEF ClaimNext, ClaimReconcile, ClaimStep, ClaimEnsureFinalizer,
         ClaimGate, ClaimPatchStatus, ClaimGetApp, ClaimPatchDeleting,
         ClaimPatchDrained, ClaimRelease, argo
    <2> QED BY <2>1, <2>2, SameLogs
  <1>3. CASE TenantNext
    <2>1. UNCHANGED <<app, workload>>
      BY <1>3 DEF TenantNext, TenantReconcile, TenantStep,
         TenantEnsureFinalizer, TenantEnsureNamespace, TenantEnsureRoleBinding,
         TenantEnsureQuota, TenantRemoveQuota, TenantPatchStatus,
         TenantListClaims, TenantPatchBlocked, TenantPatchDrained,
         TenantDeleteNamespace, TenantRelease, argo
    <2> QED BY <2>1, SameLogs
  <1>4. CASE WatchNext \/ Crash \/ UNCHANGED vars
    <2>1. UNCHANGED <<app, workload>>
      BY <1>4 DEF WatchNext, DeliverClaim, DeliverTenant, DeliverChild,
         DeliverApp, Resync, Crash, vars, argo
    <2> QED BY <2>1, SameLogs
  <1>5. CASE ExternalNext
    BY <1>5, SameLogs DEF ExternalNext, ArgoSync, NamespaceFinalize
  <1> QED BY <1>1, <1>2, <1>3, <1>4, <1>5 DEF Next

\* Namespaces are seen to change when the Tenant's reconcile creates or deletes
\* them and when the namespace controller has removed them.
LEMMA NamespacesHidden ==
    ASSUME Undisturbed, Reachable, [Next]_vars
    PROVE  \/ UNCHANGED nsBar
           \/ \E out \in Outcomes : \/ TenantEnsureNamespace(out)
                                    \/ TenantDeleteNamespace(out)
           \/ \E t \in Teams : NamespaceFinalize(t)
  <1> DEFINE Hidden == UNCHANGED nsBar
  <1>a. TypeOK /\ (UNCHANGED childLog => Hidden)
    BY SameLogs DEF Reachable
  <1>b. /\ \A t \in Teams, k \in Kinds : Child(t, k) \in ChildSet
        /\ childLog \in [Teams -> [Kinds -> Seq(ChildSet)]]
        /\ \A t \in Teams, k \in Kinds : Len(childLog[t][k]) >= 1
        /\ "Namespace" \in Kinds
    BY <1>a, StoredTypes DEF TypeOK, ClusterTypeOK, Kinds
  <1> HIDE DEF Hidden
  <1>1. ASSUME NEW out \in Outcomes,
               \/ TenantEnsureRoleBinding(out) \/ TenantEnsureQuota(out)
               \/ TenantRemoveQuota(out)
        PROVE  Hidden
    <2>1. tw.pc # "idle"
      BY <1>1 DEF TenantEnsureRoleBinding, TenantEnsureQuota, TenantRemoveQuota
    <2>2. /\ tw.key \in Teams /\ tw.obj.uid \in Nat
          /\ quotaHard(tw.obj.res) \in Hards /\ NoHard \in Hards
          /\ {"RoleBinding", "ResourceQuota"} \subseteq Kinds
      BY <1>a, <2>1, TenantWorkerTypes, HardType DEF Kinds, Hards
    <2>3. \A k \in {"RoleBinding", "ResourceQuota"}, hard \in Hards :
             Mutated(Cached(childLog[tw.key][k]), hard) \in ChildSet
      <3>1. \A k \in {"RoleBinding", "ResourceQuota"} :
               Cached(childLog[tw.key][k]) \in ChildSet
        BY <1>a, <2>2, StoredTypes DEF TypeOK
      <3>2. \A o \in ChildSet, hard \in Hards : Mutated(o, hard) \in ChildSet
        BY <2>2 DEF Mutated, ChildSet
      <3> QED BY <3>1, <3>2
    <2>4. \/ UNCHANGED childLog
          \/ \E k \in {"RoleBinding", "ResourceQuota"}, v \in ChildSet :
                PutChild(tw.key, k, v)
      BY <1>1, <2>2, <2>3, AbsentTypes DEF TenantEnsureRoleBinding,
         TenantEnsureQuota, TenantRemoveQuota, EnsureChild, CreateOrUpdateEffect
    <2> QED BY <1>a, <2>2, <2>4, NamespaceSeen DEF Hidden
  <1>2. ASSUME NEW t \in Teams, NEW k \in Kinds, DeliverChild(t, k) PROVE Hidden
    <2>1. /\ Len(childLog[t][k]) > 1 /\ childLog[t][k] \in Seq(ChildSet)
          /\ childLog' = [childLog EXCEPT ![t] =
                             [childLog[t] EXCEPT ![k] = Tail(childLog[t][k])]]
      BY <1>2, <1>b DEF DeliverChild
    <2>2. Stored(Tail(childLog[t][k])) = Stored(childLog[t][k])
      BY <2>1, LogTail
    <2>3. \A u \in Teams : Stored(childLog'[u]["Namespace"])
                              = Stored(childLog[u]["Namespace"])
      BY <1>b, <2>1, <2>2
    <2> QED BY <2>3 DEF Hidden, nsBar, Child
  <1>3. CASE Crash
    <2>1. \A u \in Teams : childLog'[u]["Namespace"] = <<Child(u, "Namespace")>>
      BY <1>3, <1>b DEF Crash
    <2>2. \A u \in Teams : Stored(childLog'[u]["Namespace"]) = Child(u, "Namespace")
      BY <2>1 DEF Stored
    <2> QED BY <2>2 DEF Hidden, nsBar, Child
  <1>4. CASE UserNext
    BY <1>4, <1>a DEF UserNext, CreateTenant, EditTenant, DeleteTenant,
       CreateClaim, AdmitClaim, EditClaim, PersistClaim, DeleteClaim,
       DeleteAppByHand, DeleteChildByHand, Undisturbed, Hidden
  <1>5. CASE ClaimNext
    BY <1>5, <1>a DEF ClaimNext, ClaimReconcile, ClaimStep,
       ClaimEnsureFinalizer, ClaimGate, ClaimEnsureArgoApplication,
       ClaimPatchStatus, ClaimGetApp, ClaimDeleteApp, ClaimPatchDeleting,
       ClaimPatchDrained, ClaimRelease, Hidden
  <1>6. CASE TenantNext
    BY <1>6, <1>a, <1>1 DEF TenantNext, TenantReconcile, TenantStep,
       TenantEnsureFinalizer, TenantPatchStatus, TenantListClaims,
       TenantPatchBlocked, TenantPatchDrained, TenantRelease, Hidden
  <1>7. CASE WatchNext
    BY <1>7, <1>a, <1>2 DEF WatchNext, DeliverClaim, DeliverTenant, DeliverApp,
       Resync, Hidden
  <1>8. CASE ExternalNext \/ UNCHANGED vars
    BY <1>8, <1>a DEF ExternalNext, ArgoSync, ArgoPrune, vars, Hidden
  <1> QED BY <1>3, <1>4, <1>5, <1>6, <1>7, <1>8 DEF Next, Hidden

-----------------------------------------------------------------------------
(* The steps that OrderedTeardown sees, one by one *)

Seen == [OT!TeardownNext]_(OT!teardownVars)

LEMMA PhaseValues ==
    ASSUME NEW o
    PROVE  /\ LifePhase(o) = "absent" <=> ~o.live
           /\ LifePhase(o) = "leaving" <=> o.live /\ o.del
           /\ LifePhase(o) = "active" <=> o.live /\ ~o.del
           /\ ServicePhase(o) = "off" <=> ~o.live
           /\ ServicePhase(o) = "draining" <=> o.live /\ o.del
           /\ ServicePhase(o) = "deployed" <=> o.live /\ ~o.del
           /\ NsPhase(o) = "absent" <=> ~o.live
           /\ NsPhase(o) = "closing" <=> o.live /\ o.del
           /\ NsPhase(o) = "open" <=> o.live /\ ~o.del
  BY DEF LifePhase, ServicePhase, NsPhase

LEMMA SeenCreateClaim ==
    ASSUME Reachable, NEW c \in Claims, NEW t \in Teams, NEW img \in Images,
           CreateClaim(c, t, img)
    PROVE  OT!Join(c, t)
  <1> DEFINE v == NewClaim(Claim(c).uid + 1, t, img)
  <1>1. TypeOK /\ Claim(c) \in ClaimSet /\ Claim(c).uid \in Nat
    BY StoredTypes DEF Reachable, TypeOK, ClaimSet
  <1>2. v \in ClaimSet /\ PutClaim(c, v)
    BY <1>1, NewTypes DEF CreateClaim
  <1>3. v.live /\ ~v.del /\ v.team = t
    BY DEF NewClaim, AbsentClaim
  <1> HIDE DEF v
  <1>4. /\ claimBar' = [claimBar EXCEPT ![c] = "active"]
        /\ teamBar' = [teamBar EXCEPT ![c] = t]
    BY <1>1, <1>2, <1>3, ClaimSeen, PhaseValues
  <1>5. claimBar[c] = "absent" /\ tenantBar[t] # "leaving"
    BY BarTypes, PhaseValues DEF CreateClaim, ValidateCreateClaim
  <1>6. UNCHANGED <<tenantBar, serviceBar, workload, nsBar>>
    BY SameLogs DEF CreateClaim, argo
  <1> QED BY <1>4, <1>5, <1>6 DEF OT!Join

LEMMA SeenDeleteClaim ==
    ASSUME Reachable, NEW c \in Claims, DeleteClaim(c)
    PROVE  OT!Leave(c) \/ (~Claim(c).fin /\ OT!Gone(c))
  <1> DEFINE v == Deleted(Claim(c), AbsentClaim(Claim(c).uid))
  <1>1. TypeOK /\ Claim(c) \in ClaimSet /\ Claim(c).live /\ ~Claim(c).del
    BY StoredTypes DEF Reachable, TypeOK, DeleteClaim
  <1>2. v \in ClaimSet /\ PutClaim(c, v)
    BY <1>1, ClaimDeleteType DEF DeleteClaim
  <1>3. /\ claimBar' = [claimBar EXCEPT ![c] = LifePhase(v)]
        /\ teamBar' = [teamBar EXCEPT ![c] = v.team]
        /\ UNCHANGED <<tenantBar, serviceBar, workload, nsBar>>
    BY <1>1, <1>2, ClaimSeen, SameLogs DEF DeleteClaim, argo
  <1>4. claimBar[c] = "active" /\ teamBar[c] = Claim(c).team
    BY <1>1, BarTypes, PhaseValues
  <1>5. CASE Claim(c).fin
    <2>1. v.live /\ v.del /\ v.team = Claim(c).team
      BY <1>1, <1>5 DEF Deleted, ClaimSet
    <2> HIDE DEF v
    <2>2. LifePhase(v) = "leaving" /\ teamBar' = teamBar
      BY <1>3, <1>4, <2>1, BarTypes, PhaseValues
    <2> QED BY <1>3, <1>4, <2>2 DEF OT!Leave
  <1>6. CASE ~Claim(c).fin
    <2>1. ~v.live /\ v.team = None
      BY <1>6 DEF Deleted, AbsentClaim
    <2> HIDE DEF v
    <2>2. ~app[c].live
      BY <1>6 DEF Reachable, AppGuardedInv, AppGuarded
    <2>3. serviceBar[c] = "off" /\ LifePhase(v) = "absent"
      BY <2>1, <2>2, BarTypes, PhaseValues
    <2> QED BY <1>3, <1>4, <1>6, <2>1, <2>3 DEF OT!Gone
  <1> QED BY <1>5, <1>6

\* A released finalizer removes a claim whose Application is gone.
LEMMA SeenClaimRelease ==
    ASSUME Reachable, NEW out \in Outcomes, ClaimRelease(out)
    PROVE  \/ UNCHANGED <<claimBar, teamBar>>
           \/ /\ cw.key \in Claims /\ OT!Gone(cw.key)
              /\ Stored(claimLog'[cw.key]).team = None
              /\ \A d \in Claims : d # cw.key => claimLog'[d] = claimLog[d]
  <1> DEFINE c == cw.key
             v == AbsentClaim(cw.obj.uid)
  <1>1. /\ TypeOK /\ cw.pc = "release" /\ cw.pc # "idle"
    BY DEF Reachable, ClaimRelease
  <1>2. /\ c \in Claims /\ cw.obj \in ClaimSet /\ cw.obj.uid \in Nat
        /\ claimLog[c] \in Seq(ClaimSet) /\ Len(claimLog[c]) >= 1
    BY <1>1, ClaimWorkerTypes DEF TypeOK, ClusterTypeOK
  <1>3. /\ Condemned(claimLog[c]) /\ ~app[c].live /\ cw.obj.live
    BY <1>1 DEF Reachable, AppGuardedInv, ClaimWorkerInv, ClaimDeletePcs
  <1>4. CASE UNCHANGED claimLog
    BY <1>4, SameLogs
  <1>5. CASE /\ cw.obj.fin /\ Claim(c) = cw.obj
             /\ PutClaim(c, Unfinalized(cw.obj, v))
    <2>1. cw.obj.del
      BY <1>2, <1>3, <1>5, CondemnedStored DEF Claim
    <2>2. PutClaim(c, v) /\ v \in ClaimSet /\ ~v.live /\ v.team = None
      BY <1>2, <1>5, <2>1, AbsentTypes DEF Unfinalized, AbsentClaim
    <2>3. UNCHANGED <<tenantBar, serviceBar, workload, nsBar>>
      BY SameLogs DEF ClaimRelease, argo
    <2>4. claimBar[c] # "absent" /\ serviceBar[c] = "off"
      BY <1>2, <1>3, <1>5, BarTypes, PhaseValues
    <2> HIDE DEF v
    <2>5. /\ claimBar' = [claimBar EXCEPT ![c] = "absent"]
          /\ teamBar' = [teamBar EXCEPT ![c] = None]
          /\ Stored(claimLog'[c]) = v
          /\ \A d \in Claims : d # c => claimLog'[d] = claimLog[d]
      BY <1>1, <1>2, <2>2, ClaimSeen, PhaseValues
    <2> QED BY <1>2, <2>2, <2>3, <2>4, <2>5 DEF OT!Gone
  <1> QED BY <1>4, <1>5 DEF ClaimRelease, Conflict

LEMMA SeenCreateTenant ==
    ASSUME Reachable, NEW t \in Teams, NEW res \in Resources,
           CreateTenant(t, res)
    PROVE  OT!CreateTeam(t)
  <1> DEFINE v == NewTenant(Tenant(t).uid + 1, res)
  <1>1. TypeOK /\ Tenant(t) \in TenantSet /\ Tenant(t).uid \in Nat
    BY StoredTypes DEF Reachable, TypeOK, TenantSet
  <1>2. v \in TenantSet /\ PutTenant(t, v)
    BY <1>1, NewTypes DEF CreateTenant
  <1>3. v.live /\ ~v.del
    BY DEF NewTenant, AbsentTenant
  <1> HIDE DEF v
  <1>4. tenantBar' = [tenantBar EXCEPT ![t] = "active"]
    BY <1>1, <1>2, <1>3, TenantSeen, PhaseValues
  <1>5. tenantBar[t] = "absent"
    BY BarTypes, PhaseValues DEF CreateTenant
  <1>6. UNCHANGED <<claimBar, teamBar, serviceBar, workload, nsBar>>
    BY SameLogs DEF CreateTenant, argo
  <1> QED BY <1>4, <1>5, <1>6 DEF OT!CreateTeam

LEMMA SeenDeleteTenant ==
    ASSUME Reachable, NEW t \in Teams, DeleteTenant(t)
    PROVE  OT!DeleteTeam(t) \/ OT!TeamGone(t)
  <1> DEFINE v == Deleted(Tenant(t), AbsentTenant(Tenant(t).uid))
  <1>1. TypeOK /\ Tenant(t) \in TenantSet /\ Tenant(t).live /\ ~Tenant(t).del
    BY StoredTypes DEF Reachable, TypeOK, DeleteTenant
  <1>2. v \in TenantSet /\ PutTenant(t, v)
    BY <1>1, TenantDeleteType DEF DeleteTenant
  <1>3. /\ tenantBar' = [tenantBar EXCEPT ![t] = LifePhase(v)]
        /\ UNCHANGED <<claimBar, teamBar, serviceBar, workload, nsBar>>
    BY <1>1, <1>2, TenantSeen, SameLogs DEF DeleteTenant, argo
  <1>4. tenantBar[t] = "active"
    BY <1>1, BarTypes, PhaseValues
  <1>5. CASE Tenant(t).fin
    <2>1. v.live /\ v.del
      BY <1>1, <1>5 DEF Deleted, TenantSet
    <2> HIDE DEF v
    <2> QED BY <1>3, <1>4, <2>1, PhaseValues DEF OT!DeleteTeam
  <1>6. CASE ~Tenant(t).fin
    <2>1. ~v.live
      BY <1>6 DEF Deleted, AbsentTenant
    <2> HIDE DEF v
    <2>2. ~NamespaceUsable(t)
      BY <1>6 DEF Reachable, NamespaceGuardedInv, NamespaceGuarded
    <2>3. nsBar[t] # "open"
      BY <2>2, BarTypes, PhaseValues DEF NamespaceUsable
    <2> QED BY <1>3, <1>4, <2>1, <2>3, PhaseValues DEF OT!TeamGone
  <1> QED BY <1>5, <1>6

LEMMA SeenTenantRelease ==
    ASSUME Reachable, NEW out \in Outcomes, TenantRelease(out)
    PROVE  UNCHANGED tenantBar \/ \E t \in Teams : OT!TeamGone(t)
  <1> DEFINE t == tw.key
             v == AbsentTenant(tw.obj.uid)
  <1>1. /\ TypeOK /\ tw.pc = "release" /\ tw.pc # "idle"
    BY DEF Reachable, TenantRelease
  <1>2. /\ t \in Teams /\ tw.obj \in TenantSet /\ tw.obj.uid \in Nat
        /\ tenantLog[t] \in Seq(TenantSet) /\ Len(tenantLog[t]) >= 1
    BY <1>1, TenantWorkerTypes DEF TypeOK, ClusterTypeOK
  <1>3. /\ Condemned(tenantLog[t]) /\ ~NamespaceUsable(t) /\ tw.obj.live
    BY <1>1 DEF Reachable, NamespaceGuardedInv, TenantWorkerInv, TenantDeletePcs
  <1>4. CASE UNCHANGED tenantLog
    BY <1>4, SameLogs
  <1>5. CASE /\ tw.obj.fin /\ Tenant(t) = tw.obj
             /\ PutTenant(t, Unfinalized(tw.obj, v))
    <2>1. tw.obj.del
      BY <1>2, <1>3, <1>5, CondemnedStored DEF Tenant
    <2>2. PutTenant(t, v) /\ v \in TenantSet /\ ~v.live
      BY <1>2, <1>5, <2>1, AbsentTypes DEF Unfinalized, AbsentTenant
    <2>3. UNCHANGED <<claimBar, teamBar, serviceBar, workload, nsBar>>
      BY SameLogs DEF TenantRelease, argo
    <2>4. tenantBar[t] # "absent" /\ nsBar[t] # "open"
      BY <1>2, <1>3, <1>5, BarTypes, PhaseValues DEF NamespaceUsable
    <2> HIDE DEF v
    <2>5. tenantBar' = [tenantBar EXCEPT ![t] = "absent"]
      BY <1>1, <1>2, <2>2, TenantSeen, PhaseValues
    <2> QED BY <1>2, <2>3, <2>4, <2>5 DEF OT!TeamGone
  <1> QED BY <1>4, <1>5 DEF TenantRelease, Conflict

\* Rendering deploys the service of a claim that is there, or changes nothing
\* that is seen.
LEMMA SeenRender ==
    ASSUME Reachable, NEW out \in Outcomes, ClaimEnsureArgoApplication(out)
    PROVE  UNCHANGED serviceBar \/ \E c \in Claims : OT!Deploy(c)
  <1> DEFINE c == cw.key
             a == RenderedApp(app[c], cw.obj)
  <1>1. TypeOK /\ cw.pc = "app" /\ cw.pc # "idle"
    BY DEF Reachable, ClaimEnsureArgoApplication
  <1>2. c \in Claims /\ app[c] \in AppSet
    BY <1>1, ClaimWorkerTypes DEF TypeOK, ClusterTypeOK
  <1>3. a.live /\ a.del = app[c].del
    BY <1>2 DEF RenderedApp, AppSet
  <1>4. Claim(c).live /\ (~app[c].live => ~app[c].del)
    BY <1>1, <1>2 DEF Reachable, AppGuardedInv, ClaimWorkerInv, TeardownInv,
       ServicesPlaced, Claim
  <1>5. UNCHANGED app \/ PutApp(c, a)
    BY DEF ClaimEnsureArgoApplication
  <1>6. UNCHANGED <<claimBar, teamBar, tenantBar, workload, nsBar>>
    BY SameLogs DEF ClaimEnsureArgoApplication
  <1> HIDE DEF a
  <1>7. CASE PutApp(c, a)
    <2>1. serviceBar' = [serviceBar EXCEPT ![c] = ServicePhase(a)]
      BY <1>1, <1>2, <1>7, ServiceSeen
    <2>2. CASE app[c].live
      <3>1. ServicePhase(a) = serviceBar[c]
        BY <1>2, <1>3, <2>2, BarTypes DEF ServicePhase
      <3> QED BY <2>1, <3>1, BarTypes
    <2>3. CASE ~app[c].live
      <3>1. ServicePhase(a) = "deployed" /\ serviceBar[c] = "off"
            /\ claimBar[c] # "absent"
        BY <1>2, <1>3, <1>4, <2>3, BarTypes, PhaseValues
      <3>2. OT!Deploy(c)
        BY <1>6, <2>1, <3>1 DEF OT!Deploy
      <3> QED BY <1>2, <3>2
    <2> QED BY <2>2, <2>3
  <1> QED BY <1>5, <1>7, SameLogs

\* Deleting an Application drains the service of a claim that is being deleted.
LEMMA SeenDeleteApp ==
    ASSUME Reachable, NEW out \in Outcomes, ClaimDeleteApp(out)
    PROVE  UNCHANGED serviceBar \/ \E c \in Claims : OT!Drain(c)
  <1> DEFINE c == cw.key
             a == DeletedApp(app[c])
  <1>1. TypeOK /\ cw.pc = "deleteApp" /\ cw.pc # "idle"
    BY DEF Reachable, ClaimDeleteApp
  <1>2. /\ c \in Claims /\ app[c] \in AppSet
        /\ claimLog[c] \in Seq(ClaimSet) /\ Len(claimLog[c]) >= 1
    BY <1>1, ClaimWorkerTypes DEF TypeOK, ClusterTypeOK
  <1>3. UNCHANGED app \/ (app[c].live /\ PutApp(c, a))
    BY DEF ClaimDeleteApp
  <1>4. UNCHANGED <<claimBar, teamBar, tenantBar, workload, nsBar>>
    BY SameLogs DEF ClaimDeleteApp
  <1>5. CASE app[c].live /\ PutApp(c, a)
    <2>1. app[c].cascade
      BY <1>2, <1>5 DEF Reachable, TeardownInv, ServicesPlaced
    <2>2. a.live /\ a.del
      BY <1>2, <1>5, <2>1 DEF DeletedApp, AppSet
    <2>3. Condemned(claimLog[c]) /\ Claim(c).live /\ Claim(c).fin
      BY <1>1, <1>2, <1>5 DEF Reachable, AppGuardedInv, AppGuarded,
         ClaimWorkerInv, ClaimDeletePcs
    <2>4. Claim(c).del
      BY <1>2, <2>3, CondemnedStored DEF Claim
    <2> HIDE DEF a
    <2>5. serviceBar' = [serviceBar EXCEPT ![c] = "draining"]
      BY <1>1, <1>2, <1>5, <2>2, ServiceSeen, PhaseValues
    <2>6. CASE app[c].del
      <3>1. serviceBar[c] = "draining"
        BY <1>2, <1>5, <2>6, BarTypes, PhaseValues
      <3> QED BY <2>5, <3>1, BarTypes
    <2>7. CASE ~app[c].del
      <3>1. serviceBar[c] = "deployed" /\ claimBar[c] = "leaving"
        BY <1>2, <1>5, <2>3, <2>4, <2>7, BarTypes, PhaseValues
      <3>2. OT!Drain(c)
        BY <1>4, <2>5, <3>1 DEF OT!Drain
      <3> QED BY <1>2, <3>2
    <2> QED BY <2>6, <2>7
  <1> QED BY <1>3, <1>5, SameLogs

LEMMA SeenArgoSync ==
    ASSUME Reachable, NEW c \in Claims, ArgoSync(c)
    PROVE  OT!Run(c)
  <1>1. /\ app[c].live /\ ~app[c].del /\ workload[c] # app[c].dest
        /\ NamespaceUsable(app[c].dest)
        /\ workload' = [workload EXCEPT ![c] = app[c].dest]
    BY DEF ArgoSync
  <1>2. Claim(c).live /\ app[c].dest = Claim(c).team /\ Claim(c) \in ClaimSet
    BY <1>1, StoredTypes DEF Reachable, TypeOK, AppGuardedInv, AppGuarded,
       TeardownInv, ServicesPlaced
  <1>3. Claim(c).team \in Teams
    BY <1>2 DEF ClaimSet
  <1>4. serviceBar[c] = "deployed" /\ teamBar[c] = app[c].dest
        /\ nsBar[teamBar[c]] = "open"
    BY <1>1, <1>2, <1>3, BarTypes, PhaseValues DEF NamespaceUsable
  <1>5. workload[c] = None
    BY <1>1, <1>4 DEF Reachable, TeardownInv, OT!HousedInv, OT!ServicesHoused
  <1>6. UNCHANGED <<claimBar, teamBar, tenantBar, serviceBar, nsBar>>
    BY SameLogs DEF ArgoSync
  <1> QED BY <1>1, <1>4, <1>5, <1>6 DEF OT!Run

LEMMA SeenArgoPrune ==
    ASSUME Reachable, NEW c \in Claims, ArgoPrune(c)
    PROVE  OT!Stop(c)
  <1>1. /\ TypeOK /\ app[c].live /\ app[c].del /\ PutApp(c, AbsentApp)
        /\ workload' = [workload EXCEPT ![c] = None]
        /\ ~AbsentApp.live
    BY DEF ArgoPrune, Reachable, AbsentApp
  <1>2. serviceBar' = [serviceBar EXCEPT ![c] = "off"]
    BY <1>1, ServiceSeen, PhaseValues
  <1>3. serviceBar[c] = "draining"
    BY <1>1, BarTypes, PhaseValues
  <1>4. UNCHANGED <<claimBar, teamBar, tenantBar, nsBar>>
    BY SameLogs DEF ArgoPrune
  <1> QED BY <1>1, <1>2, <1>3, <1>4 DEF OT!Stop

\* A namespace is opened for a Tenant that is there.
LEMMA SeenEnsureNamespace ==
    ASSUME Reachable, NEW out \in Outcomes, TenantEnsureNamespace(out)
    PROVE  UNCHANGED nsBar \/ \E t \in Teams : OT!Open(t)
  <1> DEFINE t == tw.key
             log == childLog[t]["Namespace"]
             o == Cached(log)
             v == Mutated(o, NoHard)
  <1>1. TypeOK /\ tw.pc = "namespace" /\ tw.pc # "idle" /\ "Namespace" \in Kinds
    BY DEF Reachable, TenantEnsureNamespace, Kinds
  <1>2. /\ t \in Teams /\ o \in ChildSet /\ tw.obj.uid \in Nat
        /\ log \in Seq(ChildSet) /\ Len(log) >= 1
    BY <1>1, TenantWorkerTypes, StoredTypes DEF TypeOK, ClusterTypeOK
  <1>3. v \in ChildSet /\ v.live /\ v.del = o.del
    BY <1>2 DEF Mutated, ChildSet, Hards
  <1>4. o.live \/ ~o.del
    <2>1. 1 \in 1..Len(log) /\ o = log[1]
      BY <1>2, LogEnds DEF Cached
    <2> QED BY <1>2, <2>1 DEF Reachable, TeardownInv, NamespacesFresh
  <1>5. Tenant(t).live
    BY <1>1 DEF Reachable, NamespaceGuardedInv, TenantWorkerInv, Tenant
  <1>6. \/ UNCHANGED childLog
        \/ /\ PutChild(t, "Namespace", v)
           /\ \/ ~o.live /\ ~Child(t, "Namespace").live
              \/ o.live /\ o = Child(t, "Namespace")
    BY DEF TenantEnsureNamespace, EnsureChild, CreateOrUpdateOK,
       CreateOrUpdateEffect
  <1>7. UNCHANGED <<claimBar, teamBar, tenantBar, serviceBar, workload>>
    BY SameLogs DEF TenantEnsureNamespace, argo
  <1> HIDE DEF v, o, log
  <1>8. CASE PutChild(t, "Namespace", v)
    <2>1. nsBar' = [nsBar EXCEPT ![t] = NsPhase(v)]
      BY <1>1, <1>2, <1>3, <1>8, NamespaceSeen
    <2>2. CASE o.live /\ o = Child(t, "Namespace")
      <3>1. NsPhase(v) = nsBar[t]
        BY <1>2, <1>3, <2>2, BarTypes DEF NsPhase
      <3> QED BY <2>1, <3>1, BarTypes
    <2>3. CASE ~o.live /\ ~Child(t, "Namespace").live
      <3>1. NsPhase(v) = "open" /\ nsBar[t] = "absent" /\ tenantBar[t] # "absent"
        BY <1>2, <1>3, <1>4, <1>5, <2>3, BarTypes, PhaseValues
      <3>2. OT!Open(t)
        BY <1>7, <2>1, <3>1 DEF OT!Open
      <3> QED BY <1>2, <3>2
    <2>4. CASE UNCHANGED childLog
      BY <2>4, SameLogs
    <2> QED BY <1>6, <2>2, <2>3, <2>4
  <1> QED BY <1>6, <1>8, SameLogs

\* A namespace is closed for a Tenant that is being deleted and that no claim
\* belongs to.
LEMMA SeenDeleteNamespace ==
    ASSUME Reachable, NEW out \in Outcomes, TenantDeleteNamespace(out)
    PROVE  UNCHANGED nsBar \/ \E t \in Teams : OT!Close(t)
  <1> DEFINE t == tw.key
             ns == Child(t, "Namespace")
             v == [ns EXCEPT !.del = TRUE]
  <1>1. /\ TypeOK /\ tw.pc = "deleteNamespace" /\ tw.pc # "idle"
        /\ "Namespace" \in Kinds
    BY DEF Reachable, TenantDeleteNamespace, Kinds
  <1>2. /\ t \in Teams /\ ns \in ChildSet
        /\ tenantLog[t] \in Seq(TenantSet) /\ Len(tenantLog[t]) >= 1
    BY <1>1, TenantWorkerTypes, StoredTypes DEF TypeOK, ClusterTypeOK
  <1>3. v \in ChildSet /\ v.del /\ v.live = ns.live
    BY <1>2 DEF ChildSet
  <1>4. UNCHANGED childLog \/ (ns.live /\ PutChild(t, "Namespace", v))
    BY DEF TenantDeleteNamespace
  <1>5. UNCHANGED <<claimBar, teamBar, tenantBar, serviceBar, workload>>
    BY SameLogs DEF TenantDeleteNamespace, argo
  <1> HIDE DEF v
  <1>6. CASE ns.live /\ PutChild(t, "Namespace", v)
    <2>1. nsBar' = [nsBar EXCEPT ![t] = "closing"]
      BY <1>1, <1>2, <1>3, <1>6, NamespaceSeen, PhaseValues
    <2>2. CASE ns.del
      <3>1. nsBar[t] = "closing"
        BY <1>2, <1>6, <2>2, BarTypes, PhaseValues
      <3> QED BY <2>1, <3>1, BarTypes
    <2>3. CASE ~ns.del
      <3>1. Tenant(t).live /\ Tenant(t).fin /\ Condemned(tenantLog[t])
        BY <1>1, <1>2, <1>6, <2>3 DEF Reachable, NamespaceGuardedInv,
           NamespaceGuarded, NamespaceUsable, TenantWorkerInv, TenantDeletePcs
      <3>2. Tenant(t).del
        BY <1>2, <3>1, CondemnedStored DEF Tenant
      <3>3. \A c \in Claims : teamBar[c] # t
        BY <1>1, <3>1, BarTypes DEF Reachable, TeardownInv, ListStillEmpty
      <3>4. tenantBar[t] = "leaving" /\ nsBar[t] = "open"
        BY <1>2, <1>6, <2>3, <3>1, <3>2, BarTypes, PhaseValues
      <3>5. OT!Close(t)
        BY <1>5, <2>1, <3>3, <3>4 DEF OT!Close
      <3> QED BY <1>2, <3>5
    <2> QED BY <2>2, <2>3
  <1> QED BY <1>4, <1>6, SameLogs

\* When the namespace controller removes what is left in a namespace, nothing
\* runs there any more.
LEMMA SeenFinalize ==
    ASSUME Reachable, NEW t \in Teams, NamespaceFinalize(t)
    PROVE  OT!Removed(t)
  <1>1. /\ TypeOK /\ "Namespace" \in Kinds
        /\ Child(t, "Namespace").live /\ Child(t, "Namespace").del
        /\ childLog \in [Teams -> [Kinds -> Seq(ChildSet)]]
        /\ childLog[t]["Namespace"] \in Seq(ChildSet)
        /\ Len(childLog[t]["Namespace"]) >= 1
        /\ workload \in [Claims -> Teams \cup {None}]
    BY DEF NamespaceFinalize, Reachable, Kinds, TypeOK, ClusterTypeOK
  <1>2. nsBar[t] = "closing"
    BY <1>1, BarTypes, PhaseValues
  <1>3. \A c \in Claims : workload[c] # t
    <2> SUFFICES ASSUME NEW c \in Claims, workload[c] = t PROVE FALSE
      OBVIOUS
    <2>1. workload[c] # None
      BY NoneAssumption
    <2> QED BY <1>2, <2>1 DEF Reachable, TeardownInv, OT!HousedInv,
         OT!ServicesHoused
  <1>4. workload' = workload
    BY <1>1, <1>3 DEF NamespaceFinalize
  <1>5. /\ childLog'[t]["Namespace"] = Written(childLog[t]["Namespace"], AbsentChild)
        /\ \A u \in Teams : u # t => childLog'[u] = childLog[u]
    BY <1>1 DEF NamespaceFinalize
  <1>6. Stored(childLog'[t]["Namespace"]) = AbsentChild /\ ~AbsentChild.live
    BY <1>1, <1>5, AbsentTypes, LogWritten DEF AbsentChild
  <1>7. nsBar' = [nsBar EXCEPT ![t] = NsPhase(AbsentChild)]
    BY <1>5, <1>6 DEF nsBar, Child
  <1>8. nsBar' = [nsBar EXCEPT ![t] = "absent"]
    BY <1>6, <1>7, PhaseValues
  <1>9. UNCHANGED <<claimBar, teamBar, tenantBar, serviceBar>>
    BY SameLogs DEF NamespaceFinalize
  <1> QED BY <1>2, <1>4, <1>8, <1>9 DEF OT!Removed

\* Every step of the platform is a step of OrderedTeardown or invisible to it.
LEMMA SeenStep ==
    ASSUME Undisturbed, Reachable, [Next]_vars
    PROVE  Seen
  <1> USE DEF Seen, OT!TeardownNext, OT!teardownVars
  <1>1. ASSUME NEW c \in Claims, NEW t \in Teams, NEW img \in Images,
               CreateClaim(c, t, img)
        PROVE  Seen
    BY <1>1, SeenCreateClaim
  <1>2. ASSUME NEW c \in Claims, DeleteClaim(c) PROVE Seen
    BY <1>2, SeenDeleteClaim
  <1>3. ASSUME NEW out \in Outcomes, ClaimRelease(out) PROVE Seen
    <2>1. UNCHANGED <<tenantBar, serviceBar, workload, nsBar>>
      BY <1>3, SameLogs DEF ClaimRelease, argo
    <2> QED BY <1>3, <2>1, SeenClaimRelease
  <1>4. ASSUME NEW t \in Teams, NEW res \in Resources, CreateTenant(t, res)
        PROVE  Seen
    BY <1>4, SeenCreateTenant
  <1>5. ASSUME NEW t \in Teams, DeleteTenant(t) PROVE Seen
    BY <1>5, SeenDeleteTenant
  <1>6. ASSUME NEW out \in Outcomes, TenantRelease(out) PROVE Seen
    <2>1. UNCHANGED <<claimBar, teamBar, serviceBar, workload, nsBar>>
      BY <1>6, SameLogs DEF TenantRelease, argo
    <2> QED BY <1>6, <2>1, SeenTenantRelease
  <1>7. ASSUME NEW out \in Outcomes,
               ClaimEnsureArgoApplication(out) \/ ClaimDeleteApp(out)
        PROVE  Seen
    <2>1. UNCHANGED <<claimBar, teamBar, tenantBar, workload, nsBar>>
      BY <1>7, SameLogs DEF ClaimEnsureArgoApplication, ClaimDeleteApp
    <2> QED BY <1>7, <2>1, SeenRender, SeenDeleteApp
  <1>8. ASSUME NEW c \in Claims, ArgoSync(c) \/ ArgoPrune(c) PROVE Seen
    BY <1>8, SeenArgoSync, SeenArgoPrune
  <1>9. ASSUME NEW out \in Outcomes,
               TenantEnsureNamespace(out) \/ TenantDeleteNamespace(out)
        PROVE  Seen
    <2>1. UNCHANGED <<claimBar, teamBar, tenantBar, serviceBar, workload>>
      BY <1>9, SameLogs DEF TenantEnsureNamespace, TenantDeleteNamespace, argo
    <2> QED BY <1>9, <2>1, SeenEnsureNamespace, SeenDeleteNamespace
  <1>10. ASSUME NEW t \in Teams, NamespaceFinalize(t) PROVE Seen
    BY <1>10, SeenFinalize
  <1>11. CASE UNCHANGED <<claimBar, teamBar, tenantBar, serviceBar, workload,
                          nsBar>>
    BY <1>11
  <1> HIDE DEF Seen
  <1> QED BY <1>1, <1>2, <1>3, <1>4, <1>5, <1>6, <1>7, <1>8, <1>9, <1>10, <1>11,
     ClaimsHidden, TenantsHidden, ServicesHidden, NamespacesHidden

-----------------------------------------------------------------------------
(* The invariant *)

\* A claim with the finalizer keeps its team until the finalizer is released.
LEMMA TeamKept ==
    ASSUME Undisturbed, Reachable, [Next]_vars, NEW c \in Claims,
           Claim(c).live, Claim(c).fin,
           \A out \in Outcomes : ~(ClaimRelease(out) /\ cw.key = c)
    PROVE  Stored(claimLog'[c]).team = Claim(c).team
  <1>1. SUFFICES teamBar'[c] = teamBar[c]
    BY DEF teamBar, Claim
  <1>2. claimBar[c] # "absent"
    BY BarTypes, PhaseValues
  <1>3. teamBar = [d \in Claims |-> teamBar[d]]
    BY BarTypes
  <1>4. ASSUME NEW d \in Claims, NEW t \in Teams, NEW img \in Images,
               CreateClaim(d, t, img)
        PROVE  teamBar'[c] = teamBar[c]
    <2>1. OT!Join(d, t)
      BY <1>4, SeenCreateClaim
    <2> QED BY <1>2, <1>3, <2>1 DEF OT!Join
  <1>5. ASSUME NEW d \in Claims, DeleteClaim(d)
        PROVE  teamBar'[c] = teamBar[c]
    <2>1. OT!Leave(d) \/ (d # c /\ OT!Gone(d))
      BY <1>5, SeenDeleteClaim
    <2> QED BY <1>3, <2>1 DEF OT!Leave, OT!Gone
  <1>6. ASSUME NEW out \in Outcomes, ClaimRelease(out)
        PROVE  teamBar'[c] = teamBar[c]
    <2>1. UNCHANGED teamBar \/ (cw.key # c /\ OT!Gone(cw.key))
      BY <1>6, SeenClaimRelease
    <2> QED BY <1>3, <2>1 DEF OT!Gone
  <1> QED BY <1>4, <1>5, <1>6, ClaimsHidden

LEMMA ServicesPlacedStep ==
    ASSUME Undisturbed, Reachable, [Next]_vars
    PROVE  ServicesPlaced'
  <1>a. app \in [Claims -> AppSet] /\ ServicesPlaced /\ AppGuarded
    BY DEF Reachable, TypeOK, ClusterTypeOK, TeardownInv, AppGuardedInv
  <1> SUFFICES ASSUME NEW c \in Claims
               PROVE  /\ app'[c].live => /\ app'[c].cascade
                                         /\ app'[c].dest = Stored(claimLog'[c]).team
                      /\ ~app'[c].live => ~app'[c].del
    BY DEF ServicesPlaced, Claim
  <1>1. app[c] \in AppSet
    BY <1>a
  <1>2. CASE UNCHANGED app
    <2>1. ASSUME app[c].live PROVE Stored(claimLog'[c]).team = Claim(c).team
      <3>1. Claim(c).live /\ Claim(c).fin
        BY <1>a, <2>1 DEF AppGuarded
      <3>2. \A out \in Outcomes : ~(ClaimRelease(out) /\ cw.key = c)
        BY <2>1 DEF ClaimRelease, Reachable, AppGuardedInv, ClaimWorkerInv
      <3> QED BY <3>1, <3>2, TeamKept
    <2> QED BY <1>2, <1>a, <2>1 DEF ServicesPlaced
  <1>3. ASSUME NEW out \in Outcomes, ClaimEnsureArgoApplication(out)
        PROVE  /\ app'[c].live => /\ app'[c].cascade
                                  /\ app'[c].dest = Claim(c).team
               /\ ~app'[c].live => ~app'[c].del
               /\ UNCHANGED claimLog
    <2>1. /\ UNCHANGED claimLog /\ cw.pc = "app"
          /\ \/ app' = app
             \/ app' = [app EXCEPT ![cw.key] = RenderedApp(app[cw.key], cw.obj)]
      BY <1>3 DEF ClaimEnsureArgoApplication, PutApp
    <2>2. cw.obj.team = Claim(cw.key).team
      BY <2>1 DEF Reachable, TeardownInv, RenderedForTeam
    <2>3. \A claim : LET r == RenderedApp(app[c], claim)
                     IN  r.live /\ r.cascade /\ r.dest = claim.team
      BY <1>1 DEF RenderedApp, AppSet
    <2>4. app'[c] = app[c] \/ (c = cw.key /\ app'[c] = RenderedApp(app[c], cw.obj))
      BY <1>a, <2>1
    <2> QED BY <1>a, <2>1, <2>2, <2>3, <2>4 DEF ServicesPlaced
  <1>4. ASSUME NEW out \in Outcomes, ClaimDeleteApp(out)
        PROVE  /\ app'[c].live => /\ app'[c].cascade
                                  /\ app'[c].dest = Claim(c).team
               /\ ~app'[c].live => ~app'[c].del
               /\ UNCHANGED claimLog
    <2>1. UNCHANGED claimLog /\ (app'[c] = app[c] \/ app'[c] = DeletedApp(app[c]))
      BY <1>4, <1>a DEF ClaimDeleteApp, PutApp
    <2>2. LET d == DeletedApp(app[c])
          IN  d.live => app[c].live /\ d.cascade /\ d.dest = app[c].dest
      BY <1>1 DEF DeletedApp, AbsentApp, AppSet
    <2>3. app[c].live \/ app'[c] = app[c]
      BY <1>4, <1>a DEF ClaimDeleteApp, PutApp
    <2>4. app[c].live => DeletedApp(app[c]).live
      BY <1>1, <1>a DEF DeletedApp, AppSet, ServicesPlaced
    <2> QED BY <1>a, <2>1, <2>2, <2>3, <2>4 DEF ServicesPlaced
  <1>5. ASSUME NEW d \in Claims, ArgoPrune(d)
        PROVE  /\ app'[c].live => /\ app'[c].cascade
                                  /\ app'[c].dest = Claim(c).team
               /\ ~app'[c].live => ~app'[c].del
               /\ UNCHANGED claimLog
    <2>1. UNCHANGED claimLog /\ (app'[c] = app[c] \/ app'[c] = AbsentApp)
      BY <1>5, <1>a DEF ArgoPrune, PutApp
    <2> QED BY <1>a, <2>1 DEF ServicesPlaced, AbsentApp
  <1>6. ASSUME UNCHANGED claimLog
        PROVE  Stored(claimLog'[c]).team = Claim(c).team
    BY <1>6 DEF Claim
  <1> QED BY <1>2, <1>3, <1>4, <1>5, <1>6, ServicesHidden

LEMMA NamespacesFreshStep ==
    ASSUME Undisturbed, Reachable, [Next]_vars
    PROVE  NamespacesFresh'
  <1>a. /\ TypeOK /\ NamespacesFresh /\ "Namespace" \in Kinds
        /\ childLog \in [Teams -> [Kinds -> Seq(ChildSet)]]
        /\ \A t \in Teams, k \in Kinds : /\ childLog[t][k] \in Seq(ChildSet)
                                         /\ Len(childLog[t][k]) >= 1
    BY DEF Reachable, TeardownInv, Kinds, TypeOK, ClusterTypeOK
  <1> DEFINE Fresh(log) == \A i \in 1..Len(log) : log[i].live \/ ~log[i].del
  <1>b. \A t \in Teams : Fresh(childLog[t]["Namespace"])
    BY <1>a DEF NamespacesFresh
  <1>c. SUFFICES ASSUME NEW t \in Teams PROVE Fresh(childLog'[t]["Namespace"])
    BY DEF NamespacesFresh
  <1>d. ASSUME NEW u \in Teams, NEW v \in ChildSet, v.live \/ ~v.del
        PROVE  Fresh(Written(childLog[u]["Namespace"], v))
    <2> DEFINE log == childLog[u]["Namespace"]
    <2>1. \A i \in 1..Len(Written(log, v)) :
             \/ i \in 1..Len(log) /\ Written(log, v)[i] = log[i]
             \/ Written(log, v)[i] = v
      BY <1>a, LogWritten
    <2> QED BY <1>b, <1>d, <2>1
  <1>e. ASSUME NEW u \in Teams, NEW k \in Kinds, NEW v \in ChildSet,
               PutChild(u, k, v), k = "Namespace" => v.live
        PROVE  Fresh(childLog'[t]["Namespace"])
    <2>1. \/ childLog'[t]["Namespace"] = childLog[t]["Namespace"]
          \/ /\ k = "Namespace"
             /\ childLog'[t]["Namespace"] = Written(childLog[t]["Namespace"], v)
      BY <1>a, <1>e DEF PutChild
    <2> QED BY <1>b, <1>d, <1>e, <2>1
  <1>f. ASSUME UNCHANGED childLog PROVE Fresh(childLog'[t]["Namespace"])
    BY <1>b, <1>f
  <1> HIDE DEF Fresh
  <1>1. CASE UserNext
    BY <1>1, <1>f DEF UserNext, CreateTenant, EditTenant, DeleteTenant,
       CreateClaim, AdmitClaim, EditClaim, PersistClaim, DeleteClaim,
       DeleteAppByHand, DeleteChildByHand, Undisturbed
  <1>2. CASE ClaimNext
    BY <1>2, <1>f DEF ClaimNext, ClaimReconcile, ClaimStep,
       ClaimEnsureFinalizer, ClaimGate, ClaimEnsureArgoApplication,
       ClaimPatchStatus, ClaimGetApp, ClaimDeleteApp, ClaimPatchDeleting,
       ClaimPatchDrained, ClaimRelease
  <1>3. CASE TenantNext
    <2>1. ASSUME NEW out \in Outcomes,
                 \/ TenantEnsureNamespace(out) \/ TenantEnsureRoleBinding(out)
                 \/ TenantEnsureQuota(out) \/ TenantRemoveQuota(out)
          PROVE  Fresh(childLog'[t]["Namespace"])
      <3>1. tw.pc # "idle"
        BY <2>1 DEF TenantEnsureNamespace, TenantEnsureRoleBinding,
           TenantEnsureQuota, TenantRemoveQuota
      <3>2. /\ tw.key \in Teams /\ tw.obj.uid \in Nat
            /\ quotaHard(tw.obj.res) \in Hards /\ NoHard \in Hards
            /\ {"RoleBinding", "ResourceQuota"} \subseteq Kinds
        BY <1>a, <3>1, TenantWorkerTypes, HardType DEF Kinds, Hards
      <3>3. \A o \in ChildSet, hard \in Hards :
               Mutated(o, hard) \in ChildSet /\ Mutated(o, hard).live
        BY <3>2 DEF Mutated, ChildSet
      <3>4. \A k \in Kinds : Cached(childLog[tw.key][k]) \in ChildSet
        BY <1>a, <3>2, StoredTypes DEF TypeOK
      <3>5. \/ UNCHANGED childLog
            \/ \E k \in Kinds, v \in ChildSet :
                  PutChild(tw.key, k, v) /\ (k = "Namespace" => v.live)
        BY <1>a, <2>1, <3>2, <3>3, <3>4, AbsentTypes DEF TenantEnsureNamespace,
           TenantEnsureRoleBinding, TenantEnsureQuota, TenantRemoveQuota,
           EnsureChild, CreateOrUpdateEffect
      <3> QED BY <1>e, <1>f, <3>2, <3>5
    <2>2. ASSUME NEW out \in Outcomes, TenantDeleteNamespace(out)
          PROVE  Fresh(childLog'[t]["Namespace"])
      <3> DEFINE ns == Child(tw.key, "Namespace")
                 v == [ns EXCEPT !.del = TRUE]
      <3>1. tw.pc # "idle"
        BY <2>2 DEF TenantDeleteNamespace
      <3>2. tw.key \in Teams /\ ns \in ChildSet
        BY <1>a, <3>1, TenantWorkerTypes, StoredTypes DEF TypeOK
      <3>3. v \in ChildSet /\ v.live = ns.live
        BY <3>2 DEF ChildSet
      <3>4. UNCHANGED childLog \/ (ns.live /\ PutChild(tw.key, "Namespace", v))
        BY <2>2 DEF TenantDeleteNamespace
      <3> QED BY <1>a, <1>e, <1>f, <3>2, <3>3, <3>4
    <2> QED BY <1>3, <1>f, <2>1, <2>2 DEF TenantNext, TenantReconcile,
         TenantStep, TenantEnsureFinalizer, TenantPatchStatus, TenantListClaims,
         TenantPatchBlocked, TenantPatchDrained, TenantRelease
  <1>4. CASE WatchNext
    <2>1. ASSUME NEW u \in Teams, NEW k \in Kinds, DeliverChild(u, k)
          PROVE  Fresh(childLog'[t]["Namespace"])
      <3> DEFINE log == childLog[t]["Namespace"]
      <3>1. \/ childLog'[t]["Namespace"] = log
            \/ childLog'[t]["Namespace"] = Tail(log) /\ Len(log) > 1
        BY <1>a, <2>1 DEF DeliverChild
      <3>2. CASE childLog'[t]["Namespace"] = Tail(log) /\ Len(log) > 1
        <4>1. \A i \in 1..Len(Tail(log)) :
                 Tail(log)[i] = log[i + 1] /\ i + 1 \in 1..Len(log)
          BY <1>a, <3>2, LogTail
        <4> QED BY <1>b, <3>2, <4>1 DEF Fresh
      <3> QED BY <1>b, <3>1, <3>2
    <2> QED BY <1>4, <1>f, <2>1 DEF WatchNext, DeliverClaim, DeliverTenant,
         DeliverApp, Resync
  <1>5. CASE ExternalNext
    <2>1. ASSUME NEW u \in Teams, NamespaceFinalize(u)
          PROVE  Fresh(childLog'[t]["Namespace"])
      <3>1. \/ childLog'[t]["Namespace"] = childLog[t]["Namespace"]
            \/ childLog'[t]["Namespace"]
                  = Written(childLog[t]["Namespace"], AbsentChild)
        BY <1>a, <2>1 DEF NamespaceFinalize
      <3>2. AbsentChild \in ChildSet /\ ~AbsentChild.del
        BY AbsentTypes DEF AbsentChild
      <3> QED BY <1>b, <1>d, <3>1, <3>2
    <2> QED BY <1>5, <1>f, <2>1 DEF ExternalNext, ArgoSync, ArgoPrune
  <1>6. CASE Crash
    <2>1. childLog'[t]["Namespace"] = <<Child(t, "Namespace")>>
      BY <1>6, <1>a DEF Crash
    <2>2. Child(t, "Namespace").live \/ ~Child(t, "Namespace").del
      BY <1>a, <1>b, LogEnds DEF Child, Stored, Fresh
    <2> QED BY <2>1, <2>2 DEF Fresh
  <1>7. CASE UNCHANGED vars
    BY <1>7, <1>f DEF vars
  <1> QED BY <1>1, <1>2, <1>3, <1>4, <1>5, <1>6, <1>7 DEF Next

\* A reconcile reads the stored claim, since claims do not lag.
LEMMA RenderedForTeamStep ==
    ASSUME Undisturbed, Reachable, [Next]_vars
    PROVE  RenderedForTeam'
  <1> DEFINE Goal == cw'.pc \in {"gate", "app"} =>
                        cw'.obj.team = Stored(claimLog'[cw'.key]).team
  <1> SUFFICES Goal
    BY DEF RenderedForTeam, Claim
  <1>a. TypeOK /\ AppGuardedInv /\ RenderedForTeam
    BY DEF Reachable, TeardownInv
  <1>1. ASSUME NEW c \in Claims, ClaimReconcile(c) PROVE Goal
    <2>1. Len(claimLog[c]) = 1 /\ UNCHANGED claimLog /\ cw.pc = "idle"
      BY <1>1 DEF ClaimReconcile, Settled, Undisturbed
    <2>2. Cached(claimLog[c]) = Stored(claimLog[c])
      BY <2>1 DEF Cached, Stored
    <2>3. \/ cw' = cw
          \/ cw'.key = c /\ cw'.obj = Cached(claimLog[c])
      BY <1>1 DEF ClaimReconcile
    <2> QED BY <2>1, <2>2, <2>3
  <1>2. ASSUME NEW out \in Outcomes, ClaimEnsureFinalizer(out) PROVE Goal
    <2> DEFINE v == [cw.obj EXCEPT !.fin = TRUE]
    <2>1. cw.pc # "idle"
      BY <1>2 DEF ClaimEnsureFinalizer
    <2>2. cw.key \in Claims /\ cw.obj \in ClaimSet
      BY <1>a, <2>1, ClaimWorkerTypes
    <2>3. v \in ClaimSet
      BY <2>2 DEF ClaimSet
    <2>4. \/ cw' = IdleClaimWorker
          \/ /\ PutClaim(cw.key, v)
             /\ ClaimGoto("gate", v, v.status, FALSE)
      BY <1>2 DEF ClaimEnsureFinalizer, ClaimDone
    <2> HIDE DEF v
    <2>5. CASE cw' = IdleClaimWorker
      BY <2>5 DEF IdleClaimWorker
    <2>6. CASE PutClaim(cw.key, v) /\ ClaimGoto("gate", v, v.status, FALSE)
      <3>1. cw'.key = cw.key /\ cw'.obj = v
        BY <1>a, <2>6, GotoFields
      <3>2. Stored(claimLog'[cw.key]) = v
        BY <1>a, <2>2, <2>3, <2>6, ClaimSeen
      <3> QED BY <3>1, <3>2
    <2> QED BY <2>4, <2>5, <2>6
  <1>3. ASSUME NEW out \in Outcomes, ClaimGate(out) PROVE Goal
    <2>1. /\ cw.pc = "gate" /\ UNCHANGED claimLog
          /\ cw'.key = cw.key /\ cw'.obj = cw.obj
      BY <1>3, <1>a, GotoFields DEF ClaimGate
    <2> QED BY <1>a, <2>1 DEF RenderedForTeam, Claim
  <1>4. ASSUME NEW out \in Outcomes,
               \/ ClaimEnsureArgoApplication(out) \/ ClaimPatchStatus(out)
               \/ ClaimGetApp(out) \/ ClaimDeleteApp(out)
               \/ ClaimPatchDeleting(out) \/ ClaimPatchDrained(out)
               \/ ClaimRelease(out)
        PROVE  Goal
    <2>1. /\ \A pc, obj, st, err : ClaimGoto(pc, obj, st, err) => cw'.pc = pc
          /\ \A again : ClaimDone(again) => cw'.pc = "idle"
      BY <1>a, GotoFields DEF ClaimDone, IdleClaimWorker
    <2>2. cw'.pc \notin {"gate", "app"}
      BY <1>4, <2>1 DEF ClaimEnsureArgoApplication, ClaimPatchStatus,
         ClaimGetApp, ClaimDeleteApp, ClaimPatchDeleting, ClaimPatchDrained,
         ClaimRelease
    <2> QED BY <2>2
  <1>5. CASE Crash
    BY <1>5 DEF Crash, IdleClaimWorker
  <1>6. ASSUME cw' = cw, \A out \in Outcomes : ~ClaimRelease(out) PROVE Goal
    <2> SUFFICES ASSUME cw.pc \in {"gate", "app"}
                 PROVE  cw.obj.team = Stored(claimLog'[cw.key]).team
      BY <1>6
    <2>1. cw.key \in Claims
      BY <1>a, ClaimWorkerTypes
    <2>2. Claim(cw.key).live /\ Claim(cw.key).fin
      BY <1>a DEF AppGuardedInv, ClaimWorkerInv, Claim
    <2>3. Stored(claimLog'[cw.key]).team = Claim(cw.key).team
      BY <1>6, <2>1, <2>2, TeamKept
    <2> QED BY <1>a, <2>3 DEF RenderedForTeam
  <1>7. \/ cw' = cw /\ \A out \in Outcomes : ~ClaimRelease(out)
        \/ \E out \in Outcomes : ClaimRelease(out)
        \/ Crash \/ ClaimNext
    <2>1. CASE UserNext
      BY <2>1 DEF UserNext, CreateTenant, EditTenant, DeleteTenant,
         CreateClaim, AdmitClaim, EditClaim, PersistClaim, DeleteClaim,
         DeleteAppByHand, DeleteChildByHand, workers
    <2>2. CASE TenantNext
      BY <2>2 DEF TenantNext, TenantReconcile, TenantStep,
         TenantEnsureFinalizer, TenantEnsureNamespace, TenantEnsureRoleBinding,
         TenantEnsureQuota, TenantRemoveQuota, TenantPatchStatus,
         TenantListClaims, TenantPatchBlocked, TenantPatchDrained,
         TenantDeleteNamespace, TenantRelease
    <2>3. CASE WatchNext \/ ExternalNext \/ UNCHANGED vars
      BY <2>3 DEF WatchNext, DeliverClaim, DeliverTenant, DeliverChild,
         DeliverApp, Resync, ExternalNext, ArgoSync, ArgoPrune,
         NamespaceFinalize, vars, workers
    <2> QED BY <2>1, <2>2, <2>3 DEF Next
  <1> HIDE DEF Goal
  <1>8. CASE ClaimNext
    BY <1>8, <1>1, <1>2, <1>3, <1>4 DEF ClaimNext, ClaimStep
  <1> QED BY <1>4, <1>5, <1>6, <1>7, <1>8

\* Only the Tenant's reconcile adds a finalizer, and only a create, which a
\* terminating Tenant refuses, adds a claim to a team.
LEMMA ListHolds ==
    ASSUME Undisturbed, Reachable, [Next]_vars, tw' = tw, ~TenantNext
    PROVE  ListStillEmpty'
  <1> SUFFICES ASSUME tw.pc \in {"patchDrained", "deleteNamespace"},
                      Stored(tenantLog'[tw.key]).live,
                      Stored(tenantLog'[tw.key]).fin,
                      NEW c \in Claims
               PROVE  Stored(claimLog'[c]).team # tw.key
    BY DEF ListStillEmpty, Claim, Tenant
  <1> DEFINE t == tw.key
             log == tenantLog[t]
             n == Stored(tenantLog'[tw.key])
  <1>a. /\ TypeOK /\ t \in Teams /\ Tenant(t) \in TenantSet
        /\ Tenant(t).uid \in Nat
        /\ log \in Seq(TenantSet) /\ Len(log) >= 1
        /\ tenantLog \in [Teams -> Seq(TenantSet)]
        /\ \A u \in Teams : Len(tenantLog[u]) >= 1
    BY TenantWorkerTypes, StoredTypes DEF Reachable, TypeOK, ClusterTypeOK,
       TenantSet
  <1>1. Tenant(t).live /\ Tenant(t).fin
    <2>1. ASSUME UNCHANGED tenantLog PROVE Tenant(t).live /\ Tenant(t).fin
      BY <2>1 DEF Tenant
    <2>2. CASE UserNext
      <3>1. ASSUME NEW u \in Teams, NEW v \in TenantSet, PutTenant(u, v),
                   v.live /\ v.fin => Tenant(u).live /\ Tenant(u).fin
            PROVE  Tenant(t).live /\ Tenant(t).fin
        BY <1>a, <3>1, TenantSeen DEF Tenant
      <3>2. ASSUME NEW u \in Teams, NEW res \in Resources, CreateTenant(u, res)
            PROVE  Tenant(t).live /\ Tenant(t).fin
        <4> DEFINE v == NewTenant(Tenant(u).uid + 1, res)
        <4>1. Tenant(u) \in TenantSet
          BY <1>a, StoredTypes DEF TypeOK
        <4>2. Tenant(u).uid + 1 \in Nat
          BY <4>1 DEF TenantSet
        <4>3. v \in TenantSet /\ PutTenant(u, v) /\ ~v.fin
          BY <3>2, <4>2, NewTypes DEF CreateTenant, NewTenant, AbsentTenant
        <4> QED BY <3>1, <4>3
      <3>3. ASSUME NEW u \in Teams, NEW res \in Resources, EditTenant(u, res)
            PROVE  Tenant(t).live /\ Tenant(t).fin
        <4> DEFINE v == [Tenant(u) EXCEPT !.res = res, !.gen = @ + 1]
        <4>1. Tenant(u) \in TenantSet
          BY <1>a, StoredTypes DEF TypeOK
        <4>2. v \in TenantSet /\ PutTenant(u, v)
          BY <3>3, <4>1, TenantEditType DEF EditTenant
        <4>3. v.live = Tenant(u).live /\ v.fin = Tenant(u).fin
          BY <4>1 DEF TenantSet
        <4> QED BY <3>1, <4>2, <4>3
      <3>4. ASSUME NEW u \in Teams, DeleteTenant(u)
            PROVE  Tenant(t).live /\ Tenant(t).fin
        <4> DEFINE v == Deleted(Tenant(u), AbsentTenant(Tenant(u).uid))
        <4>1. Tenant(u) \in TenantSet
          BY <1>a, StoredTypes DEF TypeOK
        <4>2. v \in TenantSet /\ PutTenant(u, v) /\ Tenant(u).live
          BY <3>4, <4>1, TenantDeleteType DEF DeleteTenant
        <4>3. v.live => Tenant(u).fin
          BY <4>1 DEF TenantSet, Deleted, AbsentTenant
        <4> QED BY <3>1, <4>2, <4>3
      <3> QED BY <2>1, <2>2, <3>2, <3>3, <3>4 DEF UserNext, CreateClaim,
           AdmitClaim, EditClaim, PersistClaim, DeleteClaim, DeleteAppByHand,
           DeleteChildByHand
    <2>3. CASE ClaimNext
      BY <2>1, <2>3 DEF ClaimNext, ClaimReconcile, ClaimStep,
         ClaimEnsureFinalizer, ClaimGate, ClaimEnsureArgoApplication,
         ClaimPatchStatus, ClaimGetApp, ClaimDeleteApp, ClaimPatchDeleting,
         ClaimPatchDrained, ClaimRelease
    <2>4. CASE WatchNext
      <3>1. ASSUME NEW u \in Teams, NEW out, DeliverTenant(u, out)
            PROVE  Tenant(t).live /\ Tenant(t).fin
        <4>1. /\ tenantLog[u] \in Seq(TenantSet) /\ Len(tenantLog[u]) > 1
              /\ tenantLog' = [tenantLog EXCEPT ![u] = Tail(@)]
          BY <1>a, <3>1 DEF DeliverTenant
        <4>2. Stored(Tail(tenantLog[u])) = Stored(tenantLog[u])
          BY <4>1, LogTail
        <4>3. Stored(tenantLog'[t]) = Stored(log)
          BY <1>a, <4>1, <4>2
        <4> QED BY <4>3 DEF Tenant
      <3> QED BY <2>1, <2>4, <3>1 DEF WatchNext, DeliverClaim, DeliverChild,
           DeliverApp, Resync
    <2>5. CASE ExternalNext \/ UNCHANGED vars
      BY <2>1, <2>5 DEF ExternalNext, ArgoSync, ArgoPrune, NamespaceFinalize,
         vars
    <2>6. CASE Crash
      <3>1. tenantLog'[t] = <<Tenant(t)>>
        BY <1>a, <2>6 DEF Crash
      <3>2. Stored(tenantLog'[t]) = Tenant(t)
        BY <3>1 DEF Stored
      <3> QED BY <3>2
    <2> QED BY <2>2, <2>3, <2>4, <2>5, <2>6 DEF Next
  <1>2. \A d \in Claims : Claim(d).team # t
    BY <1>1 DEF Reachable, TeardownInv, ListStillEmpty
  <1>3. Tenant(t).del
    <2>1. Condemned(log)
      BY DEF Reachable, NamespaceGuardedInv, TenantWorkerInv, TenantDeletePcs
    <2> QED BY <1>a, <1>1, <2>1, CondemnedStored DEF Tenant
  <1> HIDE DEF t
  <1>4. SUFFICES ASSUME teamBar'[c] = t PROVE FALSE
    BY DEF teamBar, Claim, t
  <1>5. /\ teamBar = [d \in Claims |-> teamBar[d]]
        /\ \A d \in Claims : teamBar[d] # t
    BY <1>2, BarTypes
  <1>6. t # None /\ tenantBar[t] = "leaving"
    BY <1>a, <1>1, <1>3, BarTypes, PhaseValues, NoneAssumption
  <1>7. ASSUME NEW d \in Claims, NEW u \in Teams, NEW img \in Images,
               CreateClaim(d, u, img)
        PROVE  FALSE
    <2>1. OT!Join(d, u)
      BY <1>7, SeenCreateClaim
    <2> QED BY <1>4, <1>5, <1>6, <2>1 DEF OT!Join
  <1>8. ASSUME NEW d \in Claims, DeleteClaim(d) PROVE FALSE
    <2>1. OT!Leave(d) \/ OT!Gone(d)
      BY <1>8, SeenDeleteClaim
    <2> QED BY <1>4, <1>5, <1>6, <2>1 DEF OT!Leave, OT!Gone
  <1>9. ASSUME NEW out \in Outcomes, ClaimRelease(out) PROVE FALSE
    <2>1. UNCHANGED teamBar \/ OT!Gone(cw.key)
      BY <1>9, SeenClaimRelease
    <2> QED BY <1>4, <1>5, <1>6, <2>1 DEF OT!Gone
  <1> QED BY <1>4, <1>5, <1>7, <1>8, <1>9, ClaimsHidden

\* The list itself, made from a cache that does not lag, and the status patch
\* after it.
LEMMA ListMade ==
    ASSUME Undisturbed, Reachable, TenantNext
    PROVE  ListStillEmpty'
  <1> DEFINE Goal == /\ tw'.pc \in {"patchDrained", "deleteNamespace"}
                     /\ Stored(tenantLog'[tw'.key]).live
                     /\ Stored(tenantLog'[tw'.key]).fin
                     => \A c \in Claims : Stored(claimLog'[c]).team # tw'.key
  <1> SUFFICES Goal
    BY DEF ListStillEmpty, Claim, Tenant
  <1>a. /\ TypeOK
        /\ \A pc, obj, st, err : TenantGoto(pc, obj, st, err) => tw'.pc = pc
        /\ \A again : TenantDone(again) => tw'.pc = "idle"
    BY TenantGotoFields DEF Reachable, TenantDone, IdleTenantWorker
  <1>1. ASSUME NEW out \in Outcomes, TenantListClaims(out) PROVE Goal
    <2>1. /\ tw.pc = "list" /\ tw.pc # "idle" /\ UNCHANGED claimLog
          /\ \A c \in Claims : Len(claimLog[c]) = 1
      BY <1>1 DEF TenantListClaims, Settled, Undisturbed
    <2>2. tw.key \in Teams /\ tw.key # None
      BY <1>a, <2>1, TenantWorkerTypes, NoneAssumption
    <2>3. CASE CachedClaims(tw.key) = {}
      <3>1. tw'.key = tw.key \/ tw'.pc = "idle"
        BY <1>1, <1>a, TenantGotoFields DEF TenantListClaims
      <3>2. ASSUME NEW c \in Claims PROVE Stored(claimLog[c]).team # tw.key
        <4>1. Cached(claimLog[c]) = Stored(claimLog[c])
          BY <2>1 DEF Cached, Stored
        <4>2. ~(Claim(c).live /\ Claim(c).team = tw.key)
          BY <2>3, <4>1 DEF CachedClaims, Claim
        <4>3. ~Claim(c).live => Claim(c).team = None
          BY BarTypes, PhaseValues DEF Reachable, TeardownInv, OT!HousedInv
        <4> QED BY <2>2, <4>2, <4>3 DEF Claim
      <3> QED BY <2>1, <3>1, <3>2
    <2>4. CASE CachedClaims(tw.key) # {}
      <3>1. tw'.pc \in {"idle", "patchBlocked"}
        BY <1>1, <1>a, <2>4 DEF TenantListClaims
      <3> QED BY <3>1
    <2> QED BY <2>3, <2>4
  <1>2. ASSUME NEW out \in Outcomes, TenantPatchDrained(out) PROVE Goal
    <2>1. tw.pc = "patchDrained" /\ tw.pc # "idle" /\ UNCHANGED claimLog
      BY <1>2 DEF TenantPatchDrained
    <2>2. /\ tw.key \in Teams /\ Tenant(tw.key) \in TenantSet
          /\ tw.st \in StatusSet(TenantConds)
      BY <1>a, <2>1, TenantWorkerTypes, StoredTypes DEF TypeOK
    <2>3. \/ tw'.pc = "idle"
          \/ /\ Tenant(tw.key).live /\ tw'.key = tw.key
             /\ \/ UNCHANGED tenantLog
                \/ PutTenant(tw.key, TenantPatched(tw.st))
      BY <1>2, <1>a, TenantGotoFields DEF TenantPatchDrained, PatchTenant
    <2>4. TenantPatched(tw.st).fin = Tenant(tw.key).fin
      BY <2>2 DEF TenantPatched, TenantSet
    <2>5. TenantPatched(tw.st) \in TenantSet
      BY <1>a, <1>2, <2>1, <2>2, PatchTenantType DEF TenantPatchDrained
    <2>6. CASE /\ Tenant(tw.key).live /\ tw'.key = tw.key
               /\ Stored(tenantLog'[tw.key]).fin => Tenant(tw.key).fin
      BY <2>1, <2>6 DEF Reachable, TeardownInv, ListStillEmpty, Claim
    <2>7. ASSUME UNCHANGED tenantLog \/ PutTenant(tw.key, TenantPatched(tw.st))
          PROVE  Stored(tenantLog'[tw.key]).fin => Tenant(tw.key).fin
      BY <1>a, <2>2, <2>4, <2>5, <2>7, TenantSeen DEF Tenant
    <2> QED BY <2>3, <2>6, <2>7
  <1>3. ASSUME NEW out \in Outcomes, TenantStep(out), ~TenantListClaims(out),
               ~TenantPatchDrained(out)
        PROVE  Goal
    <2>1. tw'.pc \notin {"patchDrained", "deleteNamespace"}
      BY <1>3, <1>a DEF TenantStep, TenantEnsureFinalizer,
         TenantEnsureNamespace, TenantEnsureRoleBinding, TenantEnsureQuota,
         TenantRemoveQuota, EnsureChild, TenantPatchStatus, TenantPatchBlocked,
         TenantDeleteNamespace, TenantRelease
    <2> QED BY <2>1
  <1>4. ASSUME NEW t \in Teams, TenantReconcile(t) PROVE Goal
    <2>1. tw'.pc \in {"idle", "list", "finalizer", "namespace"}
      BY <1>4 DEF TenantReconcile, TenantFirstStep
    <2> QED BY <2>1
  <1> HIDE DEF Goal
  <1> QED BY <1>1, <1>2, <1>3, <1>4 DEF TenantNext

LEMMA TenantWorkerOwn ==
    ASSUME [Next]_vars, ~TenantNext, ~Crash
    PROVE  tw' = tw
  <1>1. CASE UserNext
    BY <1>1 DEF UserNext, CreateTenant, EditTenant, DeleteTenant, CreateClaim,
       AdmitClaim, EditClaim, PersistClaim, DeleteClaim, DeleteAppByHand,
       DeleteChildByHand, workers
  <1>2. CASE ClaimNext
    BY <1>2 DEF ClaimNext, ClaimReconcile, ClaimStep, ClaimEnsureFinalizer,
       ClaimGate, ClaimEnsureArgoApplication, ClaimPatchStatus, ClaimGetApp,
       ClaimDeleteApp, ClaimPatchDeleting, ClaimPatchDrained, ClaimRelease
  <1>3. CASE WatchNext \/ ExternalNext \/ UNCHANGED vars
    BY <1>3 DEF WatchNext, DeliverClaim, DeliverTenant, DeliverChild,
       DeliverApp, Resync, ExternalNext, ArgoSync, ArgoPrune,
       NamespaceFinalize, vars, workers
  <1> QED BY <1>1, <1>2, <1>3 DEF Next

LEMMA ListStillEmptyStep ==
    ASSUME Undisturbed, Reachable, [Next]_vars
    PROVE  ListStillEmpty'
  <1>1. CASE Crash
    BY <1>1 DEF Crash, IdleTenantWorker, ListStillEmpty
  <1> QED BY <1>1, ListHolds, ListMade, TenantWorkerOwn

\* Without the race between admission and storage no create is ever pending.
LEMMA NonePending ==
    ASSUME Undisturbed, Reachable, [Next]_vars
    PROVE  \A c \in Claims : admitted'[c] = None
  <1>a. \A c \in Claims : admitted[c] = None
    BY DEF Reachable, TeardownInv
  <1>1. CASE UserNext
    BY <1>1, <1>a DEF UserNext, CreateTenant, EditTenant, DeleteTenant,
       CreateClaim, AdmitClaim, EditClaim, PersistClaim, DeleteClaim,
       DeleteAppByHand, DeleteChildByHand, Undisturbed
  <1>2. CASE ClaimNext
    BY <1>2, <1>a DEF ClaimNext, ClaimReconcile, ClaimStep,
       ClaimEnsureFinalizer, ClaimGate, ClaimEnsureArgoApplication,
       ClaimPatchStatus, ClaimGetApp, ClaimDeleteApp, ClaimPatchDeleting,
       ClaimPatchDrained, ClaimRelease
  <1>3. CASE TenantNext
    BY <1>3, <1>a DEF TenantNext, TenantReconcile, TenantStep,
       TenantEnsureFinalizer, TenantEnsureNamespace, TenantEnsureRoleBinding,
       TenantEnsureQuota, TenantRemoveQuota, TenantPatchStatus,
       TenantListClaims, TenantPatchBlocked, TenantPatchDrained,
       TenantDeleteNamespace, TenantRelease
  <1>4. CASE WatchNext \/ ExternalNext \/ Crash \/ UNCHANGED vars
    BY <1>4, <1>a DEF WatchNext, DeliverClaim, DeliverTenant, DeliverChild,
       DeliverApp, Resync, ExternalNext, ArgoSync, ArgoPrune,
       NamespaceFinalize, Crash, vars
  <1> QED BY <1>1, <1>2, <1>3, <1>4 DEF Next

LEMMA TeardownBegins == Init => OT!TeardownInit
  <1> SUFFICES ASSUME Init PROVE OT!TeardownInit
    OBVIOUS
  <1>1. "Namespace" \in Kinds
    BY DEF Kinds
  <1>2. /\ claimBar = [c \in Claims |-> "absent"]
        /\ teamBar = [c \in Claims |-> None]
    BY DEF Init, ClusterInit, claimBar, teamBar, Claim, Stored, AbsentClaim,
       LifePhase
  <1>3. tenantBar = [t \in Teams |-> "absent"]
    BY DEF Init, ClusterInit, tenantBar, Tenant, Stored, AbsentTenant, LifePhase
  <1>4. serviceBar = [c \in Claims |-> "off"] /\ workload = [c \in Claims |-> None]
    BY DEF Init, ClusterInit, serviceBar, AbsentApp, ServicePhase
  <1>5. nsBar = [t \in Teams |-> "absent"]
    BY <1>1 DEF Init, ClusterInit, nsBar, Child, Stored, AbsentChild, NsPhase
  <1> QED BY <1>2, <1>3, <1>4, <1>5 DEF OT!TeardownInit

LEMMA TeardownInvInit == Init => TeardownInv
  <1> SUFFICES ASSUME Init PROVE TeardownInv
    OBVIOUS
  <1>1. "Namespace" \in Kinds
    BY DEF Kinds
  <1>2. ServicesPlaced
    BY DEF Init, ClusterInit, ServicesPlaced, AbsentApp
  <1>3. NamespacesFresh
    BY <1>1 DEF Init, ClusterInit, NamespacesFresh, AbsentChild
  <1>4. RenderedForTeam /\ ListStillEmpty
    BY DEF Init, IdleClaimWorker, IdleTenantWorker, RenderedForTeam,
       ListStillEmpty
  <1>5. \A c \in Claims : admitted[c] = None
    BY DEF Init, ClusterInit
  <1>6. OT!HousedInv
    BY TeardownBegins, OT!HousedInit
  <1> QED BY <1>2, <1>3, <1>4, <1>5, <1>6 DEF TeardownInv

LEMMA TeardownInvStep ==
    Undisturbed /\ Reachable /\ [Next]_vars => TeardownInv'
  <1> SUFFICES ASSUME Undisturbed, Reachable, [Next]_vars PROVE TeardownInv'
    OBVIOUS
  <1>1. OT!HousedInv'
    BY SeenStep, OT!HousedStep DEF Reachable, TeardownInv, Seen
  <1> QED BY <1>1, ServicesPlacedStep, NamespacesFreshStep, RenderedForTeamStep,
     ListStillEmptyStep, NonePending DEF TeardownInv

LEMMA ReachableAlways == ASSUME Undisturbed PROVE Spec => []Reachable
  <1>1. Init => Reachable
    BY TypeInit, GuardInit, NsGuardInit, TeardownInvInit DEF Reachable
  <1>2. Reachable /\ [Next]_vars => Reachable'
    BY TypeStep, GuardStep, NsGuardStep, TeardownInvStep DEF Reachable
  <1> QED BY <1>1, <1>2, PTL DEF Spec

-----------------------------------------------------------------------------
(* The results *)

\* The inductive invariant of ordered teardown: what the reconciles of
\* serviceclaim_controller.go and tenant_controller.go rely on between the list
\* of a team's claims and the deletion of its namespace.
THEOREM TeardownInvariant ==
    ASSUME Undisturbed PROVE Spec => []TeardownInv
  <1>1. Reachable => TeardownInv
    BY DEF Reachable
  <1> QED BY <1>1, ReachableAlways, PTL

\* Platform implements OrderedTeardown: finalizers, the list of claims before
\* the namespace and the live read of the Application before the release order
\* every teardown as ADR-012 says, with any number of teams and claims, stale
\* Tenants and namespaces, failed calls and restarts.
THEOREM TeardownOrdered ==
    ASSUME Undisturbed PROVE Spec => TeardownIsOrdered
  <1>1. Reachable /\ [Next]_vars => [OT!TeardownNext]_(OT!teardownVars)
    BY SeenStep DEF Seen
  <1> QED BY <1>1, TeardownBegins, ReachableAlways, PTL
     DEF Spec, TeardownIsOrdered, OT!TeardownSpec

\* "A namespace is never removed out from under a running service" (ADR-012).
THEOREM NeverUnderRunningService ==
    ASSUME Undisturbed PROVE Spec => []DrainBeforeNamespace
  <1>1. Reachable => DrainBeforeNamespace
    <2> SUFFICES ASSUME Reachable, NEW c \in Claims, workload[c] # None
                 PROVE  NamespaceUsable(workload[c])
      BY DEF DrainBeforeNamespace
    <2>1. workload[c] \in Teams
      BY DEF Reachable, TypeOK, ClusterTypeOK
    <2>2. nsBar[workload[c]] = "open"
      BY DEF Reachable, TeardownInv, OT!HousedInv, OT!ServicesHoused
    <2> QED BY <2>1, <2>2, BarTypes, PhaseValues DEF NamespaceUsable
  <1> QED BY <1>1, ReachableAlways, PTL
=============================================================================
