--------------------------- MODULE PlatformProofs ---------------------------
(***************************************************************************)
(* Proofs about Platform, for every set of teams and claims, every bound,  *)
(* every choice of lagging kinds, environment options and faults.          *)
(***************************************************************************)
EXTENDS Platform, SequenceTheorems, TLAPS

-----------------------------------------------------------------------------
(* Version logs *)

\* Both ends of a log are versions.
LEMMA LogEnds ==
    ASSUME NEW S, NEW log \in Seq(S), Len(log) >= 1
    PROVE  Stored(log) \in S /\ Cached(log) \in S /\ Len(log) \in Nat \ {0}
  BY DEF Stored, Cached

\* A write leaves a log whose last version is the one written, and whose other
\* versions are those of before.
LEMMA LogWritten ==
    ASSUME NEW S, NEW log \in Seq(S), Len(log) >= 1, NEW v \in S
    PROVE  /\ Written(log, v) \in Seq(S)
           /\ Len(Written(log, v)) >= 1
           /\ Stored(Written(log, v)) = v
           /\ Cached(Written(log, v)) = Cached(log)
           /\ Len(Written(log, v)) >= Len(log)
           /\ \A i \in 1..Len(Written(log, v)) :
                 \/ i \in 1..Len(log) /\ Written(log, v)[i] = log[i]
                 \/ Written(log, v)[i] = v
  BY DEF Written, Stored, Cached

\* An event moves the cache on; what is stored stays.
LEMMA LogTail ==
    ASSUME NEW S, NEW log \in Seq(S), Len(log) > 1
    PROVE  /\ Tail(log) \in Seq(S)
           /\ Len(Tail(log)) >= 1
           /\ Stored(Tail(log)) = Stored(log)
           /\ Len(Tail(log)) = Len(log) - 1
           /\ \A i \in 1..Len(Tail(log)) : Tail(log)[i] = log[i + 1]
  <1>1. log # <<>> /\ Len(log) \in Nat
    BY EmptySeq
  <1>2. /\ Tail(log) \in Seq(S)
        /\ Len(Tail(log)) = Len(log) - 1
        /\ \A i \in 1..Len(Tail(log)) : Tail(log)[i] = log[i + 1]
    BY <1>1, HeadTailProperties
  <1>3. Len(Tail(log)) >= 1
    BY <1>1, <1>2
  <1>4. Tail(log)[Len(Tail(log))] = log[Len(log)]
    BY <1>1, <1>2
  <1> QED BY <1>2, <1>3, <1>4 DEF Stored

-----------------------------------------------------------------------------
(* Types of the values the actions write *)

LEMMA SetConditionType ==
    ASSUME NEW T, NEW st \in StatusSet(T), NEW gen \in Nat,
           NEW type \in T, NEW reason \in Reasons
    PROVE  SetCondition(st, gen, type, reason) \in StatusSet(T)
  BY DEF SetCondition, StatusSet

LEMMA MergePatchType ==
    ASSUME NEW T, NEW a \in StatusSet(T), NEW b \in StatusSet(T),
           NEW n \in StatusSet(T)
    PROVE  MergePatch(a, b, n) \in StatusSet(T)
  BY DEF MergePatch, StatusSet

LEMMA NoStatusType ==
    ASSUME NEW T PROVE NoStatus(T) \in StatusSet(T)
  BY DEF NoStatus, StatusSet, Phases, Reasons

LEMMA AbsentTypes ==
    /\ \A u \in Nat : AbsentClaim(u) \in ClaimSet
    /\ \A u \in Nat : AbsentTenant(u) \in TenantSet
    /\ AbsentChild \in ChildSet
    /\ AbsentApp \in AppSet
  BY NoStatusType DEF AbsentClaim, AbsentTenant, AbsentChild, AbsentApp,
     ClaimSet, TenantSet, ChildSet, AppSet, Hards

LEMMA NewTypes ==
    /\ \A u \in Nat, res \in Resources : NewTenant(u, res) \in TenantSet
    /\ \A u \in Nat, t \in Teams, img \in Images :
          NewClaim(u, t, img) \in ClaimSet
  BY NoStatusType DEF NewTenant, NewClaim, AbsentClaim, AbsentTenant, ClaimSet,
     TenantSet

\* An edit or a deletion bumps the generation.
LEMMA TenantEditType ==
    ASSUME NEW o \in TenantSet, NEW res \in Resources
    PROVE  [o EXCEPT !.res = res, !.gen = @ + 1] \in TenantSet
  <1> DEFINE g == o.gen + 1
  <1>1. g \in Nat
    BY DEF TenantSet
  <1>2. [o EXCEPT !.res = res, !.gen = @ + 1] = [o EXCEPT !.res = res, !.gen = g]
    BY DEF TenantSet
  <1> HIDE DEF g
  <1> QED BY <1>1, <1>2 DEF TenantSet

LEMMA TenantDeleteType ==
    ASSUME NEW o \in TenantSet
    PROVE  Deleted(o, AbsentTenant(o.uid)) \in TenantSet
  <1> DEFINE g == o.gen + 1
  <1>1. g \in Nat /\ AbsentTenant(o.uid) \in TenantSet
    BY AbsentTypes DEF TenantSet
  <1>2. [o EXCEPT !.del = TRUE, !.gen = @ + 1] = [o EXCEPT !.del = TRUE, !.gen = g]
    BY DEF TenantSet
  <1> HIDE DEF g
  <1>3. [o EXCEPT !.del = TRUE, !.gen = g] \in TenantSet
    BY <1>1 DEF TenantSet
  <1> QED BY <1>1, <1>2, <1>3 DEF Deleted

LEMMA ClaimEditType ==
    ASSUME NEW o \in ClaimSet, NEW t \in Teams, NEW img \in Images
    PROVE  [o EXCEPT !.team = t, !.img = img, !.gen = @ + 1] \in ClaimSet
  <1> DEFINE g == o.gen + 1
  <1>1. g \in Nat
    BY DEF ClaimSet
  <1>2. [o EXCEPT !.team = t, !.img = img, !.gen = @ + 1]
          = [o EXCEPT !.team = t, !.img = img, !.gen = g]
    BY DEF ClaimSet
  <1> HIDE DEF g
  <1> QED BY <1>1, <1>2 DEF ClaimSet

LEMMA ClaimDeleteType ==
    ASSUME NEW o \in ClaimSet
    PROVE  Deleted(o, AbsentClaim(o.uid)) \in ClaimSet
  <1> DEFINE g == o.gen + 1
  <1>1. g \in Nat /\ AbsentClaim(o.uid) \in ClaimSet
    BY AbsentTypes DEF ClaimSet
  <1>2. [o EXCEPT !.del = TRUE, !.gen = @ + 1] = [o EXCEPT !.del = TRUE, !.gen = g]
    BY DEF ClaimSet
  <1> HIDE DEF g
  <1>3. [o EXCEPT !.del = TRUE, !.gen = g] \in ClaimSet
    BY <1>1 DEF ClaimSet
  <1> QED BY <1>1, <1>2, <1>3 DEF Deleted

LEMMA HardType ==
    \A res \in Resources \cup {NilResources} : quotaHard(res) \in Hards
  BY DEF quotaHard, Hards

LEMMA ClaimAggregateType ==
    ASSUME NEW st \in StatusSet(ClaimConds), NEW gen \in Nat
    PROVE  ClaimAggregateReady(st, gen) \in StatusSet(ClaimConds)
  <1> DEFINE ready == /\ IsStatusConditionTrue(st, "TenantReady")
                      /\ IsStatusConditionTrue(st, "ArgoAppCreated")
             agg == [st EXCEPT !.og = gen,
                               !.phase = IF ready THEN "Ready" ELSE "Pending"]
  <1>1. agg \in StatusSet(ClaimConds)
    BY DEF StatusSet, Phases
  <1>2. "Ready" \in ClaimConds
    BY DEF ClaimConds
  <1>3. {"AllResourcesReady", "ResourcesNotReady"} \subseteq Reasons
    BY DEF Reasons, TrueReasons, FalseReasons
  <1> QED BY <1>1, <1>2, <1>3, SetConditionType DEF ClaimAggregateReady

LEMMA TenantAggregateType ==
    ASSUME NEW st \in StatusSet(TenantConds), NEW gen \in Nat
    PROVE  TenantAggregateReady(st, gen) \in StatusSet(TenantConds)
  <1> DEFINE ready == \A k \in {"NamespaceReady", "RBACReady", "QuotaApplied"} :
                         IsStatusConditionTrue(st, k)
             agg == [st EXCEPT !.og = gen,
                               !.phase = IF ready THEN "Ready" ELSE "Pending"]
  <1>1. agg \in StatusSet(TenantConds)
    BY DEF StatusSet, Phases
  <1>2. "Ready" \in TenantConds
    BY DEF TenantConds
  <1>3. {"AllResourcesReady", "ResourcesNotReady"} \subseteq Reasons
    BY DEF Reasons, TrueReasons, FalseReasons
  <1> QED BY <1>1, <1>2, <1>3, SetConditionType DEF TenantAggregateReady

-----------------------------------------------------------------------------
(* Types of the variables after a write *)

LEMMA StoredTypes ==
    ASSUME ClusterTypeOK
    PROVE  /\ \A c \in Claims : Claim(c) \in ClaimSet
           /\ \A t \in Teams : Tenant(t) \in TenantSet
           /\ \A t \in Teams, k \in Kinds : Child(t, k) \in ChildSet
           /\ \A c \in Claims : Cached(claimLog[c]) \in ClaimSet
           /\ \A t \in Teams : Cached(tenantLog[t]) \in TenantSet
           /\ \A t \in Teams, k \in Kinds : Cached(childLog[t][k]) \in ChildSet
  BY LogEnds DEF ClusterTypeOK, Claim, Tenant, Child

LEMMA PutClaimType ==
    ASSUME ClusterTypeOK, NEW c \in Claims, NEW v \in ClaimSet, PutClaim(c, v)
    PROVE  /\ claimLog' \in [Claims -> Seq(ClaimSet)]
           /\ \A d \in Claims : Len(claimLog'[d]) >= 1
  <1>1. claimLog[c] \in Seq(ClaimSet) /\ Len(claimLog[c]) >= 1
    BY DEF ClusterTypeOK
  <1>2. /\ Written(claimLog[c], v) \in Seq(ClaimSet)
        /\ Len(Written(claimLog[c], v)) >= 1
    BY <1>1, LogWritten
  <1> QED BY <1>2 DEF ClusterTypeOK, PutClaim

LEMMA PutTenantType ==
    ASSUME ClusterTypeOK, NEW t \in Teams, NEW v \in TenantSet, PutTenant(t, v)
    PROVE  /\ tenantLog' \in [Teams -> Seq(TenantSet)]
           /\ \A u \in Teams : Len(tenantLog'[u]) >= 1
  <1>1. tenantLog[t] \in Seq(TenantSet) /\ Len(tenantLog[t]) >= 1
    BY DEF ClusterTypeOK
  <1>2. /\ Written(tenantLog[t], v) \in Seq(TenantSet)
        /\ Len(Written(tenantLog[t], v)) >= 1
    BY <1>1, LogWritten
  <1> QED BY <1>2 DEF ClusterTypeOK, PutTenant

LEMMA PutChildType ==
    ASSUME ClusterTypeOK, NEW t \in Teams, NEW k \in Kinds,
           NEW v \in ChildSet, PutChild(t, k, v)
    PROVE  /\ childLog' \in [Teams -> [Kinds -> Seq(ChildSet)]]
           /\ \A u \in Teams, j \in Kinds : Len(childLog'[u][j]) >= 1
  <1>1. childLog[t][k] \in Seq(ChildSet) /\ Len(childLog[t][k]) >= 1
    BY DEF ClusterTypeOK
  <1>2. /\ Written(childLog[t][k], v) \in Seq(ChildSet)
        /\ Len(Written(childLog[t][k], v)) >= 1
    BY <1>1, LogWritten
  <1> DEFINE inner == [childLog[t] EXCEPT ![k] = Written(childLog[t][k], v)]
  <1>3. childLog' = [childLog EXCEPT ![t] = inner]
    BY DEF PutChild
  <1>4. inner \in [Kinds -> Seq(ChildSet)] /\ \A j \in Kinds : Len(inner[j]) >= 1
    BY <1>1, <1>2 DEF ClusterTypeOK
  <1> HIDE DEF inner
  <1> QED BY <1>3, <1>4 DEF ClusterTypeOK

\* An Application rendered from a claim is an Application.
LEMMA RenderedAppType ==
    ASSUME NEW a \in AppSet, NEW claim \in ClaimSet
    PROVE  RenderedApp(a, claim) \in AppSet
  <1>1. /\ claim.uid \in Nat
        /\ claim.team \in Teams \cup {None}
        /\ claim.img \in Images \cup {None}
    BY DEF ClaimSet
  <1> QED BY <1>1 DEF RenderedApp, AppSet

LEMMA PutAppType ==
    ASSUME ClusterTypeOK, NEW c \in Claims, NEW v \in AppSet, PutApp(c, v)
    PROVE  app' \in [Claims -> AppSet] /\ appEvents' \subseteq Claims
  BY DEF ClusterTypeOK, PutApp

-----------------------------------------------------------------------------
(* Type correctness *)

LEMMA TypeInit == Init => TypeOK
  <1> SUFFICES ASSUME Init PROVE TypeOK
    OBVIOUS
  <1>1. ClusterTypeOK
    BY AbsentTypes, BoundsAssumption
    DEF Init, ClusterInit, ClusterTypeOK
  <1>2. ClaimWorkerTypeOK
    BY AbsentTypes, NoStatusType, NoneAssumption
    DEF Init, ClaimWorkerTypeOK, IdleClaimWorker
  <1>3. TenantWorkerTypeOK
    BY AbsentTypes, NoStatusType, NoneAssumption
    DEF Init, TenantWorkerTypeOK, IdleTenantWorker
  <1> QED BY <1>1, <1>2, <1>3 DEF TypeOK

\* What users do.
LEMMA TypeUser == TypeOK /\ UserNext => TypeOK'
  <1> SUFFICES ASSUME TypeOK, UserNext PROVE TypeOK'
    OBVIOUS
  <1> USE DEF TypeOK
  <1>1. ASSUME NEW t \in Teams, NEW v \in TenantSet, PutTenant(t, v),
               UNCHANGED <<claimLog, childLog, argo, admitted, queues, workers>>
        PROVE  TypeOK'
    BY <1>1, PutTenantType DEF ClusterTypeOK, ClaimWorkerTypeOK,
       TenantWorkerTypeOK, argo, queues, workers
  <1>2. ASSUME NEW c \in Claims, NEW v \in ClaimSet, PutClaim(c, v),
               UNCHANGED <<tenantLog, childLog, argo, admitted, queues, workers>>
        PROVE  TypeOK'
    BY <1>2, PutClaimType DEF ClusterTypeOK, ClaimWorkerTypeOK,
       TenantWorkerTypeOK, argo, queues, workers
  <1>3. ASSUME NEW t \in Teams, NEW res \in Resources, CreateTenant(t, res)
        PROVE  TypeOK'
    BY <1>1, <1>3, NewTypes, StoredTypes DEF CreateTenant, TenantSet
  <1>4. ASSUME NEW t \in Teams, NEW res \in Resources, EditTenant(t, res)
        PROVE  TypeOK'
    <2>1. [Tenant(t) EXCEPT !.res = res, !.gen = @ + 1] \in TenantSet
      BY StoredTypes, TenantEditType
    <2> QED BY <1>1, <1>4, <2>1 DEF EditTenant
  <1>5. ASSUME NEW t \in Teams, DeleteTenant(t)
        PROVE  TypeOK'
    BY <1>1, <1>5, StoredTypes, TenantDeleteType DEF DeleteTenant
  <1>6. ASSUME NEW c \in Claims, NEW t \in Teams, NEW img \in Images,
               CreateClaim(c, t, img)
        PROVE  TypeOK'
    BY <1>2, <1>6, NewTypes, StoredTypes DEF CreateClaim, ClaimSet
  <1>7. ASSUME NEW c \in Claims, NEW t \in Teams, NEW img \in Images,
               AdmitClaim(c, t, img)
        PROVE  TypeOK'
    BY <1>7 DEF AdmitClaim, ClusterTypeOK, ClaimWorkerTypeOK,
       TenantWorkerTypeOK, argo, queues, workers
  <1>8. ASSUME NEW c \in Claims, PersistClaim(c)
        PROVE  TypeOK'
    <2>1. admitted[c].team \in Teams /\ admitted[c].img \in Images
      BY <1>8 DEF PersistClaim, ClusterTypeOK
    <2>2. NewClaim(Claim(c).uid + 1, admitted[c].team, admitted[c].img)
            \in ClaimSet
      BY <2>1, NewTypes, StoredTypes DEF ClaimSet
    <2> QED BY <1>8, <2>2, PutClaimType DEF PersistClaim, ClusterTypeOK,
       ClaimWorkerTypeOK, TenantWorkerTypeOK, argo, queues, workers
  <1>9. ASSUME NEW c \in Claims, NEW t \in Teams, NEW img \in Images,
               EditClaim(c, t, img)
        PROVE  TypeOK'
    <2>1. [Claim(c) EXCEPT !.team = t, !.img = img, !.gen = @ + 1] \in ClaimSet
      BY StoredTypes, ClaimEditType
    <2> QED BY <1>2, <1>9, <2>1 DEF EditClaim
  <1>10. ASSUME NEW c \in Claims, DeleteClaim(c)
         PROVE  TypeOK'
    BY <1>2, <1>10, StoredTypes, ClaimDeleteType DEF DeleteClaim
  <1>11. ASSUME NEW c \in Claims, DeleteAppByHand(c)
         PROVE  TypeOK'
    <2>1. DeletedApp(app[c]) \in AppSet
      BY AbsentTypes DEF DeletedApp, ClusterTypeOK, AppSet
    <2> QED BY <1>11, <2>1, PutAppType, BoundsAssumption
       DEF DeleteAppByHand, ClusterTypeOK,
       ClaimWorkerTypeOK, TenantWorkerTypeOK, queues
  <1>12. ASSUME NEW t \in Teams, NEW k \in Kinds, DeleteChildByHand(t, k)
         PROVE  TypeOK'
    <2> DEFINE v == IF k = "Namespace"
                    THEN [Child(t, k) EXCEPT !.del = TRUE] ELSE AbsentChild
    <2>1. v \in ChildSet
      BY StoredTypes, AbsentTypes DEF ChildSet
    <2>2. PutChild(t, k, v)
      BY <1>12 DEF DeleteChildByHand
    <2> HIDE DEF v
    <2>3. /\ childLog' \in [Teams -> [Kinds -> Seq(ChildSet)]]
          /\ \A u \in Teams, j \in Kinds : Len(childLog'[u][j]) >= 1
      BY <2>1, <2>2, PutChildType
    <2>4. byHand' \in 0..MaxByHand
      BY <1>12, BoundsAssumption DEF DeleteChildByHand, ClusterTypeOK
    <2> QED BY <1>12, <2>3, <2>4 DEF DeleteChildByHand, ClusterTypeOK,
       ClaimWorkerTypeOK, TenantWorkerTypeOK, argo, queues
  <1> QED BY <1>3, <1>4, <1>5, <1>6, <1>7, <1>8, <1>9, <1>10, <1>11, <1>12
     DEF UserNext

\* The ServiceClaim worker: where a reconcile goes on or ends, the worker and
\* the queue keep their types.
LEMMA ClaimWorkerStep ==
    ASSUME TypeOK, cw.pc # "idle",
           NEW pc \in ClaimMainPcs \cup ClaimDeletePcs,
           NEW obj \in ClaimSet, NEW st \in StatusSet(ClaimConds),
           NEW err \in BOOLEAN, NEW again \in BOOLEAN,
           ClaimGoto(pc, obj, st, err) \/ ClaimDone(again)
    PROVE  ClaimWorkerTypeOK' /\ claimQueue' \subseteq Claims
  <1>1. cw.key \in Claims
    BY DEF TypeOK, ClaimWorkerTypeOK
  <1>2. "idle" \notin ClaimMainPcs \cup ClaimDeletePcs
    BY DEF ClaimMainPcs, ClaimDeletePcs
  <1>3. CASE ClaimGoto(pc, obj, st, err)
    BY <1>1, <1>2, <1>3, NoneAssumption
    DEF ClaimGoto, TypeOK, ClusterTypeOK, ClaimWorkerTypeOK
  <1>4. CASE ClaimDone(again)
    BY <1>1, <1>4, AbsentTypes, NoStatusType
    DEF ClaimDone, IdleClaimWorker, TypeOK, ClusterTypeOK, ClaimWorkerTypeOK
  <1> QED BY <1>3, <1>4

\* Whatever condition a reconcile ends with, it is requeued or not.
LEMMA ClaimDoneBool ==
    ASSUME NEW again, ClaimDone(again)
    PROVE  \E b \in BOOLEAN : ClaimDone(b)
  <1>1. CASE again
    <2>1. ClaimDone(TRUE)
      BY <1>1 DEF ClaimDone
    <2> QED BY <2>1
  <1>2. CASE ~again
    <2>1. ClaimDone(FALSE)
      BY <1>2 DEF ClaimDone
    <2> QED BY <2>1
  <1> QED BY <1>1, <1>2

LEMMA ClaimWorkerTypes ==
    ASSUME TypeOK, cw.pc # "idle"
    PROVE  /\ cw.key \in Claims
           /\ cw.obj \in ClaimSet /\ cw.st \in StatusSet(ClaimConds)
           /\ cw.obj.gen \in Nat /\ cw.obj.uid \in Nat
           /\ cw.obj.status \in StatusSet(ClaimConds)
  BY DEF TypeOK, ClaimWorkerTypeOK, ClaimSet

LEMMA PatchClaimType ==
    ASSUME TypeOK, cw.pc # "idle", NEW out, NEW st \in StatusSet(ClaimConds),
           PatchClaim(out, st)
    PROVE  /\ claimLog' \in [Claims -> Seq(ClaimSet)]
           /\ \A d \in Claims : Len(claimLog'[d]) >= 1
           /\ ClaimPatched(st) \in ClaimSet
           /\ ClaimPatched(st).status \in StatusSet(ClaimConds)
  <1>1. Claim(cw.key) \in ClaimSet /\ Claim(cw.key).status \in StatusSet(ClaimConds)
    BY ClaimWorkerTypes, StoredTypes DEF TypeOK, ClaimSet
  <1>2. MergePatch(Claim(cw.key).status, cw.obj.status, st)
          \in StatusSet(ClaimConds)
    BY <1>1, ClaimWorkerTypes, MergePatchType
  <1>3. ClaimPatched(st) \in ClaimSet
        /\ ClaimPatched(st).status \in StatusSet(ClaimConds)
    BY <1>1, <1>2 DEF ClaimPatched, ClaimSet
  <1>4. CASE UNCHANGED claimLog
    BY <1>3, <1>4 DEF TypeOK, ClusterTypeOK
  <1>5. CASE PutClaim(cw.key, ClaimPatched(st))
    BY <1>3, <1>5, ClaimWorkerTypes, PutClaimType DEF TypeOK
  <1> QED BY <1>4, <1>5 DEF PatchClaim

\* A step that leaves the Tenant side alone keeps the types if the claims, the
\* Applications, the queue and the worker keep theirs.
LEMMA ClaimSideType ==
    ASSUME TypeOK,
           claimLog' \in [Claims -> Seq(ClaimSet)],
           \A d \in Claims : Len(claimLog'[d]) >= 1,
           app' \in [Claims -> AppSet], appEvents' \subseteq Claims,
           ClaimWorkerTypeOK', claimQueue' \subseteq Claims,
           UNCHANGED <<tenantLog, childLog, workload, admitted, tenantQueue, tw,
                       counts>>
    PROVE  TypeOK'
  BY DEF TypeOK, ClusterTypeOK, TenantWorkerTypeOK, counts

LEMMA TypeClaim == TypeOK /\ ClaimNext => TypeOK'
  <1> SUFFICES ASSUME TypeOK, ClaimNext PROVE TypeOK'
    OBVIOUS
  <1>a. /\ claimLog \in [Claims -> Seq(ClaimSet)]
        /\ \A d \in Claims : Len(claimLog[d]) >= 1
        /\ app \in [Claims -> AppSet] /\ appEvents \subseteq Claims
        /\ claimQueue \subseteq Claims /\ ClusterTypeOK /\ ClaimWorkerTypeOK
    BY DEF TypeOK, ClusterTypeOK
  <1>b. /\ {"TenantReady", "ArgoAppCreated", "ApplicationDrained"}
             \subseteq ClaimConds
        /\ {"TenantReady", "TenantError", "TenantNotFound", "TenantNotReady",
            "ApplicationApplied", "ArgoAppError", "ApplicationDeleted",
            "DeletingApplication", "ApplicationDeletionBlocked"}
             \subseteq Reasons
    BY DEF ClaimConds, Reasons, TrueReasons, FalseReasons
  <1>c. /\ {"gate", "status", "app", "finalizer", "getApp", "deleteApp",
            "patchDeleting", "patchDrained", "release"}
             \subseteq ClaimMainPcs \cup ClaimDeletePcs
        /\ "idle" \notin ClaimMainPcs \cup ClaimDeletePcs
    BY DEF ClaimMainPcs, ClaimDeletePcs
  <1>1. ASSUME NEW c \in Claims, ClaimReconcile(c) PROVE TypeOK'
    <2> DEFINE claim == Cached(claimLog[c])
               Term == [claim.status EXCEPT !.phase = "Terminating"]
    <2>1. claim \in ClaimSet /\ claim.status \in StatusSet(ClaimConds)
      BY <1>a, StoredTypes DEF ClaimSet
    <2>2. Term \in StatusSet(ClaimConds)
      BY <2>1 DEF StatusSet, Phases
    <2>3. \/ cw' = cw
          \/ \E pc \in ClaimMainPcs \cup ClaimDeletePcs,
                st \in {claim.status, Term} :
                cw' = [pc |-> pc, key |-> c, obj |-> claim, st |-> st,
                       err |-> FALSE]
      BY <1>1, <1>c DEF ClaimReconcile, ClaimFirstStep
    <2> HIDE DEF Term, claim
    <2>4. ClaimWorkerTypeOK'
      <3>1. CASE cw' = cw
        BY <1>a, <3>1 DEF ClaimWorkerTypeOK
      <3>2. ASSUME NEW pc \in ClaimMainPcs \cup ClaimDeletePcs,
                   NEW st \in {claim.status, Term},
                   cw' = [pc |-> pc, key |-> c, obj |-> claim, st |-> st,
                          err |-> FALSE]
            PROVE  ClaimWorkerTypeOK'
        BY <2>1, <2>2, <3>2, <1>c, NoneAssumption DEF ClaimWorkerTypeOK
      <3> QED BY <2>3, <3>1, <3>2
    <2>5. claimQueue' \subseteq Claims
      BY <1>1, <1>a DEF ClaimReconcile
    <2> QED BY <1>1, <1>a, <2>4, <2>5, ClaimSideType DEF ClaimReconcile, argo
  <1>2. ASSUME NEW out \in Outcomes, ClaimStep(out) PROVE TypeOK'
    <2>1. cw.pc # "idle"
      BY <1>2 DEF ClaimStep, ClaimEnsureFinalizer, ClaimGate,
         ClaimEnsureArgoApplication, ClaimPatchStatus, ClaimGetApp,
         ClaimDeleteApp, ClaimPatchDeleting, ClaimPatchDrained, ClaimRelease
    <2>2. /\ cw.key \in Claims
          /\ cw.obj \in ClaimSet /\ cw.st \in StatusSet(ClaimConds)
          /\ cw.obj.gen \in Nat /\ cw.obj.uid \in Nat
          /\ cw.obj.status \in StatusSet(ClaimConds)
      BY <2>1, ClaimWorkerTypes
    <2>c. ASSUME NEW type \in {"TenantReady", "ArgoAppCreated",
                               "ApplicationDrained"},
                 NEW reason \in {"TenantReady", "TenantError", "TenantNotFound",
                     "TenantNotReady", "ApplicationApplied", "ArgoAppError",
                     "ApplicationDeleted", "DeletingApplication",
                     "ApplicationDeletionBlocked"}
          PROVE  SetCondition(cw.st, cw.obj.gen, type, reason)
                   \in StatusSet(ClaimConds)
      BY <1>b, <2>2, SetConditionType
    <2>3. CASE ClaimEnsureFinalizer(out)
      <3> DEFINE new == [cw.obj EXCEPT !.fin = TRUE]
      <3>1. new \in ClaimSet /\ new.status \in StatusSet(ClaimConds)
        BY <2>2 DEF ClaimSet
      <3>2. UNCHANGED claimLog \/ PutClaim(cw.key, new)
        BY <2>3 DEF ClaimEnsureFinalizer
      <3>3. ClaimGoto("gate", new, new.status, FALSE) \/ ClaimDone(TRUE)
        BY <2>3 DEF ClaimEnsureFinalizer
      <3> HIDE DEF new
      <3>4. /\ claimLog' \in [Claims -> Seq(ClaimSet)]
            /\ \A d \in Claims : Len(claimLog'[d]) >= 1
        BY <1>a, <2>2, <3>1, <3>2, PutClaimType
      <3>5. ClaimWorkerTypeOK' /\ claimQueue' \subseteq Claims
        BY <1>c, <2>1, <3>1, <3>3, ClaimWorkerStep
      <3> QED BY <1>a, <2>3, <3>4, <3>5, ClaimSideType
         DEF ClaimEnsureFinalizer, argo
    <2>4. CASE ClaimGate(out)
      <3>1. \E pc \in {"status", "app"},
               reason \in {"TenantError", "TenantNotFound", "TenantReady",
                           "TenantNotReady"}, err \in BOOLEAN :
              ClaimGoto(pc, cw.obj,
                        SetCondition(cw.st, cw.obj.gen, "TenantReady", reason),
                        err)
        BY <2>4 DEF ClaimGate
      <3>2. ClaimWorkerTypeOK' /\ claimQueue' \subseteq Claims
        BY <1>c, <2>1, <2>2, <2>c, <3>1, ClaimWorkerStep
      <3> QED BY <1>a, <2>4, <3>2, ClaimSideType DEF ClaimGate, argo
    <2>5. CASE ClaimEnsureArgoApplication(out)
      <3>1. RenderedApp(app[cw.key], cw.obj) \in AppSet
        BY <1>a, <2>2, RenderedAppType
      <3>2. app' \in [Claims -> AppSet] /\ appEvents' \subseteq Claims
        BY <1>a, <2>2, <2>5, <3>1, PutAppType DEF ClaimEnsureArgoApplication
      <3>3. \E reason \in {"ApplicationApplied", "ArgoAppError"},
               err \in BOOLEAN :
              ClaimGoto("status", cw.obj,
                 SetCondition(cw.st, cw.obj.gen, "ArgoAppCreated", reason), err)
        BY <2>5 DEF ClaimEnsureArgoApplication
      <3>4. ClaimWorkerTypeOK' /\ claimQueue' \subseteq Claims
        BY <1>c, <2>1, <2>2, <2>c, <3>3, ClaimWorkerStep
      <3> QED BY <1>a, <2>5, <3>2, <3>4, ClaimSideType
         DEF ClaimEnsureArgoApplication
    <2>6. CASE ClaimPatchStatus(out)
      <3>1. ClaimAggregateReady(cw.st, cw.obj.gen) \in StatusSet(ClaimConds)
        BY <2>2, ClaimAggregateType
      <3>2. /\ claimLog' \in [Claims -> Seq(ClaimSet)]
            /\ \A d \in Claims : Len(claimLog'[d]) >= 1
        BY <2>1, <2>6, <3>1, PatchClaimType DEF ClaimPatchStatus
      <3>3. \E again \in BOOLEAN : ClaimDone(again)
        BY <2>6, ClaimDoneBool DEF ClaimPatchStatus
      <3>4. ClaimWorkerTypeOK' /\ claimQueue' \subseteq Claims
        BY <1>c, <2>1, <2>2, <3>3, ClaimWorkerStep
      <3> QED BY <1>a, <2>6, <3>2, <3>4, ClaimSideType DEF ClaimPatchStatus, argo
    <2>7. CASE ClaimGetApp(out)
      <3>1. \/ ClaimDone(TRUE)
            \/ ClaimGoto("deleteApp", cw.obj, cw.st, FALSE)
            \/ \E pc \in {"patchDrained", "patchDeleting"},
                  reason \in {"ApplicationDeleted",
                              "ApplicationDeletionBlocked"} :
                 ClaimGoto(pc, cw.obj, SetCondition(cw.st, cw.obj.gen,
                              "ApplicationDrained", reason), FALSE)
        BY <2>7 DEF ClaimGetApp
      <3>2. ClaimWorkerTypeOK' /\ claimQueue' \subseteq Claims
        BY <1>c, <2>1, <2>2, <2>c, <3>1, ClaimWorkerStep
      <3> QED BY <1>a, <2>7, <3>2, ClaimSideType DEF ClaimGetApp, argo
    <2>8. CASE ClaimDeleteApp(out)
      <3>1. DeletedApp(app[cw.key]) \in AppSet
        BY <1>a, <2>2, AbsentTypes DEF DeletedApp, AppSet
      <3>2. app' \in [Claims -> AppSet] /\ appEvents' \subseteq Claims
        BY <1>a, <2>2, <2>8, <3>1, PutAppType DEF ClaimDeleteApp
      <3>3. \/ \E again \in BOOLEAN : ClaimDone(again)
            \/ ClaimGoto("patchDeleting", cw.obj, SetCondition(cw.st,
                  cw.obj.gen, "ApplicationDrained", "DeletingApplication"),
                  FALSE)
        BY <2>8 DEF ClaimDeleteApp
      <3>4. ClaimWorkerTypeOK' /\ claimQueue' \subseteq Claims
        BY <1>c, <2>1, <2>2, <2>c, <3>3, ClaimWorkerStep
      <3> QED BY <1>a, <2>8, <3>2, <3>4, ClaimSideType DEF ClaimDeleteApp
    <2>9. CASE ClaimPatchDeleting(out)
      <3>1. /\ claimLog' \in [Claims -> Seq(ClaimSet)]
            /\ \A d \in Claims : Len(claimLog'[d]) >= 1
        BY <2>1, <2>2, <2>9, PatchClaimType DEF ClaimPatchDeleting
      <3>2. ClaimWorkerTypeOK' /\ claimQueue' \subseteq Claims
        BY <1>c, <2>1, <2>2, <2>9, ClaimWorkerStep DEF ClaimPatchDeleting
      <3> QED BY <1>a, <2>9, <3>1, <3>2, ClaimSideType
         DEF ClaimPatchDeleting, argo
    <2>10. CASE ClaimPatchDrained(out)
      <3>1. /\ claimLog' \in [Claims -> Seq(ClaimSet)]
            /\ \A d \in Claims : Len(claimLog'[d]) >= 1
            /\ ClaimPatched(cw.st) \in ClaimSet
            /\ ClaimPatched(cw.st).status \in StatusSet(ClaimConds)
        BY <2>1, <2>2, <2>10, PatchClaimType DEF ClaimPatchDrained
      <3>2. \/ \E again \in BOOLEAN : ClaimDone(again)
            \/ ClaimGoto("release", ClaimPatched(cw.st),
                         ClaimPatched(cw.st).status, FALSE)
        BY <2>10, ClaimDoneBool DEF ClaimPatchDrained
      <3>3. ClaimWorkerTypeOK' /\ claimQueue' \subseteq Claims
        BY <1>c, <2>1, <2>2, <3>1, <3>2, ClaimWorkerStep
      <3> QED BY <1>a, <2>10, <3>1, <3>3, ClaimSideType
         DEF ClaimPatchDrained, argo
    <2>11. CASE ClaimRelease(out)
      <3> DEFINE v == Unfinalized(cw.obj, AbsentClaim(cw.obj.uid))
      <3>1. v \in ClaimSet
        BY <2>2, AbsentTypes DEF Unfinalized, ClaimSet
      <3>2. UNCHANGED claimLog \/ PutClaim(cw.key, v)
        BY <2>11 DEF ClaimRelease
      <3>3. \E again \in BOOLEAN : ClaimDone(again)
        BY <2>11, ClaimDoneBool DEF ClaimRelease
      <3> HIDE DEF v
      <3>4. /\ claimLog' \in [Claims -> Seq(ClaimSet)]
            /\ \A d \in Claims : Len(claimLog'[d]) >= 1
        BY <1>a, <2>2, <3>1, <3>2, PutClaimType
      <3>5. ClaimWorkerTypeOK' /\ claimQueue' \subseteq Claims
        BY <1>c, <2>1, <2>2, <3>3, ClaimWorkerStep
      <3> QED BY <1>a, <2>11, <3>4, <3>5, ClaimSideType DEF ClaimRelease, argo
    <2> QED BY <1>2, <2>3, <2>4, <2>5, <2>6, <2>7, <2>8, <2>9, <2>10, <2>11
       DEF ClaimStep
  <1> QED BY <1>1, <1>2 DEF ClaimNext

\* The Tenant worker, in the same way.
LEMMA TenantWorkerStep ==
    ASSUME TypeOK, tw.pc # "idle",
           NEW pc \in TenantMainPcs \cup TenantDeletePcs,
           NEW obj \in TenantSet, NEW st \in StatusSet(TenantConds),
           NEW err \in BOOLEAN, NEW again \in BOOLEAN,
           TenantGoto(pc, obj, st, err) \/ TenantDone(again)
    PROVE  TenantWorkerTypeOK' /\ tenantQueue' \subseteq Teams
  <1>1. tw.key \in Teams
    BY DEF TypeOK, TenantWorkerTypeOK
  <1>2. "idle" \notin TenantMainPcs \cup TenantDeletePcs
    BY DEF TenantMainPcs, TenantDeletePcs
  <1>3. CASE TenantGoto(pc, obj, st, err)
    BY <1>1, <1>2, <1>3, NoneAssumption
    DEF TenantGoto, TypeOK, ClusterTypeOK, TenantWorkerTypeOK
  <1>4. CASE TenantDone(again)
    BY <1>1, <1>4, AbsentTypes, NoStatusType
    DEF TenantDone, IdleTenantWorker, TypeOK, ClusterTypeOK, TenantWorkerTypeOK
  <1> QED BY <1>3, <1>4

LEMMA TenantDoneBool ==
    ASSUME NEW again, TenantDone(again)
    PROVE  \E b \in BOOLEAN : TenantDone(b)
  <1>1. CASE again
    <2>1. TenantDone(TRUE)
      BY <1>1 DEF TenantDone
    <2> QED BY <2>1
  <1>2. CASE ~again
    <2>1. TenantDone(FALSE)
      BY <1>2 DEF TenantDone
    <2> QED BY <2>1
  <1> QED BY <1>1, <1>2

LEMMA TenantWorkerTypes ==
    ASSUME TypeOK, tw.pc # "idle"
    PROVE  /\ tw.key \in Teams
           /\ tw.obj \in TenantSet /\ tw.st \in StatusSet(TenantConds)
           /\ tw.obj.gen \in Nat /\ tw.obj.uid \in Nat
           /\ tw.obj.res \in Resources \cup {NilResources}
           /\ tw.obj.status \in StatusSet(TenantConds)
  BY DEF TypeOK, TenantWorkerTypeOK, TenantSet

LEMMA PatchTenantType ==
    ASSUME TypeOK, tw.pc # "idle", NEW out, NEW st \in StatusSet(TenantConds),
           PatchTenant(out, st)
    PROVE  /\ tenantLog' \in [Teams -> Seq(TenantSet)]
           /\ \A u \in Teams : Len(tenantLog'[u]) >= 1
           /\ TenantPatched(st) \in TenantSet
           /\ TenantPatched(st).status \in StatusSet(TenantConds)
  <1>1. /\ Tenant(tw.key) \in TenantSet
        /\ Tenant(tw.key).status \in StatusSet(TenantConds)
    BY TenantWorkerTypes, StoredTypes DEF TypeOK, TenantSet
  <1>2. MergePatch(Tenant(tw.key).status, tw.obj.status, st)
          \in StatusSet(TenantConds)
    BY <1>1, TenantWorkerTypes, MergePatchType
  <1>3. TenantPatched(st) \in TenantSet
        /\ TenantPatched(st).status \in StatusSet(TenantConds)
    BY <1>1, <1>2 DEF TenantPatched, TenantSet
  <1>4. CASE UNCHANGED tenantLog
    BY <1>3, <1>4 DEF TypeOK, ClusterTypeOK
  <1>5. CASE PutTenant(tw.key, TenantPatched(st))
    BY <1>3, <1>5, TenantWorkerTypes, PutTenantType DEF TypeOK
  <1> QED BY <1>4, <1>5 DEF PatchTenant

LEMMA TenantSideType ==
    ASSUME TypeOK,
           tenantLog' \in [Teams -> Seq(TenantSet)],
           \A u \in Teams : Len(tenantLog'[u]) >= 1,
           childLog' \in [Teams -> [Kinds -> Seq(ChildSet)]],
           \A u \in Teams, j \in Kinds : Len(childLog'[u][j]) >= 1,
           TenantWorkerTypeOK', tenantQueue' \subseteq Teams,
           UNCHANGED <<claimLog, argo, admitted, claimQueue, cw, counts>>
    PROVE  TypeOK'
  BY DEF TypeOK, ClusterTypeOK, ClaimWorkerTypeOK, counts, argo

\* The ensure steps write objects of the right type and go on.
LEMMA EnsureChildType ==
    ASSUME TypeOK, tw.pc # "idle", NEW out, NEW k \in Kinds, NEW hard \in Hards,
           NEW type \in TenantConds, NEW okReason \in Reasons,
           NEW errReason \in Reasons,
           NEW next \in TenantMainPcs \cup TenantDeletePcs,
           EnsureChild(out, k, hard, type, okReason, errReason, next)
    PROVE  /\ childLog' \in [Teams -> [Kinds -> Seq(ChildSet)]]
           /\ \A u \in Teams, j \in Kinds : Len(childLog'[u][j]) >= 1
           /\ TenantWorkerTypeOK' /\ tenantQueue' \subseteq Teams
  <1> DEFINE o == Cached(childLog[tw.key][k])
  <1>1. o \in ChildSet
    BY TenantWorkerTypes, StoredTypes DEF TypeOK
  <1>2. Mutated(o, hard) \in ChildSet
    BY <1>1, TenantWorkerTypes DEF Mutated, ChildSet
  <1>3. UNCHANGED childLog \/ PutChild(tw.key, k, Mutated(o, hard))
    BY DEF EnsureChild, CreateOrUpdateEffect
  <1> HIDE DEF o
  <1>4. /\ childLog' \in [Teams -> [Kinds -> Seq(ChildSet)]]
        /\ \A u \in Teams, j \in Kinds : Len(childLog'[u][j]) >= 1
    <2>1. CASE UNCHANGED childLog
      BY <2>1 DEF TypeOK, ClusterTypeOK
    <2>2. CASE PutChild(tw.key, k, Mutated(o, hard))
      BY <1>2, <2>2, TenantWorkerTypes, PutChildType DEF TypeOK
    <2> QED BY <1>3, <2>1, <2>2
  <1>5. /\ SetCondition(tw.st, tw.obj.gen, type, okReason)
             \in StatusSet(TenantConds)
        /\ SetCondition(tw.st, tw.obj.gen, type, errReason)
             \in StatusSet(TenantConds)
    BY TenantWorkerTypes, SetConditionType
  <1>6. \/ TenantGoto(next, tw.obj,
                      SetCondition(tw.st, tw.obj.gen, type, okReason), FALSE)
        \/ TenantGoto("status", tw.obj,
                      SetCondition(tw.st, tw.obj.gen, type, errReason), TRUE)
    BY DEF EnsureChild
  <1>7. "status" \in TenantMainPcs
    BY DEF TenantMainPcs
  <1>8. TenantWorkerTypeOK' /\ tenantQueue' \subseteq Teams
    BY <1>5, <1>6, <1>7, TenantWorkerTypes, TenantWorkerStep
  <1> QED BY <1>4, <1>8

LEMMA TypeTenant == TypeOK /\ TenantNext => TypeOK'
  <1> SUFFICES ASSUME TypeOK, TenantNext PROVE TypeOK'
    OBVIOUS
  <1>a. /\ tenantLog \in [Teams -> Seq(TenantSet)]
        /\ \A u \in Teams : Len(tenantLog[u]) >= 1
        /\ childLog \in [Teams -> [Kinds -> Seq(ChildSet)]]
        /\ \A u \in Teams, j \in Kinds : Len(childLog[u][j]) >= 1
        /\ tenantQueue \subseteq Teams /\ ClusterTypeOK /\ TenantWorkerTypeOK
    BY DEF TypeOK, ClusterTypeOK
  <1>b. /\ {"NamespaceReady", "RBACReady", "QuotaApplied", "Ready",
            "ClaimsDrained"} \subseteq TenantConds
        /\ {"NamespaceCreated", "NamespaceError", "RoleBindingCreated",
            "RBACError", "QuotaApplied", "QuotaError", "NoResourcesDeclared",
            "ClaimsRemain", "TerminationBlocked", "AllClaimsDeleted"}
             \subseteq Reasons
        /\ {"Namespace", "RoleBinding", "ResourceQuota"} \subseteq Kinds
    BY DEF TenantConds, Reasons, TrueReasons, FalseReasons, Kinds
  <1>c. /\ {"finalizer", "namespace", "rolebinding", "quota", "status", "list",
            "patchBlocked", "patchDrained", "deleteNamespace", "release"}
             \subseteq TenantMainPcs \cup TenantDeletePcs
        /\ "idle" \notin TenantMainPcs \cup TenantDeletePcs
    BY DEF TenantMainPcs, TenantDeletePcs
  <1>1. ASSUME NEW t \in Teams, TenantReconcile(t) PROVE TypeOK'
    <2> DEFINE tenant == Cached(tenantLog[t])
               Term == [tenant.status EXCEPT !.phase = "Terminating"]
    <2>1. tenant \in TenantSet /\ tenant.status \in StatusSet(TenantConds)
      BY <1>a, StoredTypes DEF TenantSet
    <2>2. Term \in StatusSet(TenantConds)
      BY <2>1 DEF StatusSet, Phases
    <2>3. \/ tw' = tw
          \/ \E pc \in TenantMainPcs \cup TenantDeletePcs,
                st \in {tenant.status, Term} :
                tw' = [pc |-> pc, key |-> t, obj |-> tenant, st |-> st,
                       err |-> FALSE]
      BY <1>1, <1>c DEF TenantReconcile, TenantFirstStep
    <2> HIDE DEF Term, tenant
    <2>4. TenantWorkerTypeOK'
      <3>1. CASE tw' = tw
        BY <1>a, <3>1 DEF TenantWorkerTypeOK
      <3>2. ASSUME NEW pc \in TenantMainPcs \cup TenantDeletePcs,
                   NEW st \in {tenant.status, Term},
                   tw' = [pc |-> pc, key |-> t, obj |-> tenant, st |-> st,
                          err |-> FALSE]
            PROVE  TenantWorkerTypeOK'
        BY <2>1, <2>2, <3>2, <1>c, NoneAssumption DEF TenantWorkerTypeOK
      <3> QED BY <2>3, <3>1, <3>2
    <2>5. tenantQueue' \subseteq Teams
      BY <1>1, <1>a DEF TenantReconcile
    <2> QED BY <1>1, <1>a, <2>4, <2>5, TenantSideType DEF TenantReconcile
  <1>2. ASSUME NEW out \in Outcomes, TenantStep(out) PROVE TypeOK'
    <2>1. tw.pc # "idle"
      BY <1>2 DEF TenantStep, TenantEnsureFinalizer, TenantEnsureNamespace,
         TenantEnsureRoleBinding, TenantEnsureQuota, TenantRemoveQuota,
         TenantPatchStatus, TenantListClaims, TenantPatchBlocked,
         TenantPatchDrained, TenantDeleteNamespace, TenantRelease
    <2>2. /\ tw.key \in Teams
          /\ tw.obj \in TenantSet /\ tw.st \in StatusSet(TenantConds)
          /\ tw.obj.gen \in Nat /\ tw.obj.uid \in Nat
          /\ tw.obj.res \in Resources \cup {NilResources}
          /\ tw.obj.status \in StatusSet(TenantConds)
      BY <2>1, TenantWorkerTypes
    <2>3. CASE TenantEnsureFinalizer(out)
      <3> DEFINE new == [tw.obj EXCEPT !.fin = TRUE]
      <3>1. new \in TenantSet /\ new.status \in StatusSet(TenantConds)
        BY <2>2 DEF TenantSet
      <3>2. UNCHANGED tenantLog \/ PutTenant(tw.key, new)
        BY <2>3 DEF TenantEnsureFinalizer
      <3>3. TenantGoto("namespace", new, new.status, FALSE) \/ TenantDone(TRUE)
        BY <2>3 DEF TenantEnsureFinalizer
      <3> HIDE DEF new
      <3>4. /\ tenantLog' \in [Teams -> Seq(TenantSet)]
            /\ \A d \in Teams : Len(tenantLog'[d]) >= 1
        BY <1>a, <2>2, <3>1, <3>2, PutTenantType
      <3>5. TenantWorkerTypeOK' /\ tenantQueue' \subseteq Teams
        BY <1>c, <2>1, <3>1, <3>3, TenantWorkerStep
      <3> QED BY <1>a, <2>3, <3>4, <3>5, TenantSideType
         DEF TenantEnsureFinalizer
    <2>4. CASE TenantEnsureNamespace(out)
      <3>1. EnsureChild(out, "Namespace", NoHard, "NamespaceReady",
                        "NamespaceCreated", "NamespaceError", "rolebinding")
        BY <2>4 DEF TenantEnsureNamespace
      <3>2. NoHard \in Hards
        BY DEF Hards
      <3>3. /\ childLog' \in [Teams -> [Kinds -> Seq(ChildSet)]]
            /\ \A u \in Teams, j \in Kinds : Len(childLog'[u][j]) >= 1
            /\ TenantWorkerTypeOK' /\ tenantQueue' \subseteq Teams
        BY <1>b, <1>c, <2>1, <3>1, <3>2, EnsureChildType
      <3> QED BY <1>a, <2>4, <3>3, TenantSideType DEF TenantEnsureNamespace
    <2>5. CASE TenantEnsureRoleBinding(out)
      <3>1. EnsureChild(out, "RoleBinding", NoHard, "RBACReady",
                        "RoleBindingCreated", "RBACError", "quota")
        BY <2>5 DEF TenantEnsureRoleBinding
      <3>2. NoHard \in Hards
        BY DEF Hards
      <3>3. /\ childLog' \in [Teams -> [Kinds -> Seq(ChildSet)]]
            /\ \A u \in Teams, j \in Kinds : Len(childLog'[u][j]) >= 1
            /\ TenantWorkerTypeOK' /\ tenantQueue' \subseteq Teams
        BY <1>b, <1>c, <2>1, <3>1, <3>2, EnsureChildType
      <3> QED BY <1>a, <2>5, <3>3, TenantSideType DEF TenantEnsureRoleBinding
    <2>6. CASE TenantEnsureQuota(out)
      <3>1. EnsureChild(out, "ResourceQuota", quotaHard(tw.obj.res),
                        "QuotaApplied", "QuotaApplied", "QuotaError", "status")
        BY <2>6 DEF TenantEnsureQuota
      <3>2. quotaHard(tw.obj.res) \in Hards
        BY <2>2, HardType
      <3>3. /\ childLog' \in [Teams -> [Kinds -> Seq(ChildSet)]]
            /\ \A u \in Teams, j \in Kinds : Len(childLog'[u][j]) >= 1
            /\ TenantWorkerTypeOK' /\ tenantQueue' \subseteq Teams
        BY <1>b, <1>c, <2>1, <3>1, <3>2, EnsureChildType
      <3> QED BY <1>a, <2>6, <3>3, TenantSideType DEF TenantEnsureQuota
    <2>7. CASE TenantRemoveQuota(out)
      <3>1. /\ childLog' \in [Teams -> [Kinds -> Seq(ChildSet)]]
            /\ \A u \in Teams, j \in Kinds : Len(childLog'[u][j]) >= 1
        <4>1. CASE UNCHANGED childLog
          BY <1>a, <4>1
        <4>2. CASE PutChild(tw.key, "ResourceQuota", AbsentChild)
          BY <1>a, <1>b, <2>2, <4>2, AbsentTypes, PutChildType
        <4> QED BY <2>7, <4>1, <4>2 DEF TenantRemoveQuota
      <3>2. \E reason \in {"NoResourcesDeclared", "QuotaError"},
               err \in BOOLEAN :
              TenantGoto("status", tw.obj,
                 SetCondition(tw.st, tw.obj.gen, "QuotaApplied", reason), err)
        BY <2>7 DEF TenantRemoveQuota
      <3>3. \A reason \in {"NoResourcesDeclared", "QuotaError"} :
              SetCondition(tw.st, tw.obj.gen, "QuotaApplied", reason)
                 \in StatusSet(TenantConds)
        BY <1>b, <2>2, SetConditionType
      <3>4. TenantWorkerTypeOK' /\ tenantQueue' \subseteq Teams
        BY <1>c, <2>1, <2>2, <3>2, <3>3, TenantWorkerStep
      <3> QED BY <1>a, <2>7, <3>1, <3>4, TenantSideType DEF TenantRemoveQuota
    <2>8. CASE TenantPatchStatus(out)
      <3>1. TenantAggregateReady(tw.st, tw.obj.gen) \in StatusSet(TenantConds)
        BY <2>2, TenantAggregateType
      <3>2. /\ tenantLog' \in [Teams -> Seq(TenantSet)]
            /\ \A d \in Teams : Len(tenantLog'[d]) >= 1
        BY <2>1, <2>8, <3>1, PatchTenantType DEF TenantPatchStatus
      <3>3. \E again \in BOOLEAN : TenantDone(again)
        BY <2>8, TenantDoneBool DEF TenantPatchStatus
      <3>4. TenantWorkerTypeOK' /\ tenantQueue' \subseteq Teams
        BY <1>c, <2>1, <2>2, <3>3, TenantWorkerStep
      <3> QED BY <1>a, <2>8, <3>2, <3>4, TenantSideType DEF TenantPatchStatus
    <2>9. CASE TenantListClaims(out)
      <3> DEFINE remain == SetCondition(tw.st, tw.obj.gen, "ClaimsDrained",
                                        "ClaimsRemain")
                 blocked == SetCondition(remain, tw.obj.gen, "Ready",
                                         "TerminationBlocked")
                 drained == SetCondition(tw.st, tw.obj.gen, "ClaimsDrained",
                                         "AllClaimsDeleted")
      <3>1. remain \in StatusSet(TenantConds) /\ drained \in StatusSet(TenantConds)
        BY <1>b, <2>2, SetConditionType
      <3> HIDE DEF remain
      <3>2. blocked \in StatusSet(TenantConds)
        BY <1>b, <2>2, <3>1, SetConditionType
      <3>3. \/ TenantDone(TRUE)
            \/ TenantGoto("patchBlocked", tw.obj, blocked, FALSE)
            \/ TenantGoto("patchDrained", tw.obj, drained, FALSE)
        BY <2>9 DEF TenantListClaims, remain
      <3> HIDE DEF blocked, drained
      <3>4. TenantWorkerTypeOK' /\ tenantQueue' \subseteq Teams
        BY <1>c, <2>1, <2>2, <3>1, <3>2, <3>3, TenantWorkerStep
      <3> QED BY <1>a, <2>9, <3>4, TenantSideType DEF TenantListClaims
    <2>10. CASE TenantPatchBlocked(out)
      <3>1. /\ tenantLog' \in [Teams -> Seq(TenantSet)]
            /\ \A d \in Teams : Len(tenantLog'[d]) >= 1
        BY <2>1, <2>2, <2>10, PatchTenantType DEF TenantPatchBlocked
      <3>2. TenantWorkerTypeOK' /\ tenantQueue' \subseteq Teams
        BY <1>c, <2>1, <2>2, <2>10, TenantWorkerStep DEF TenantPatchBlocked
      <3> QED BY <1>a, <2>10, <3>1, <3>2, TenantSideType DEF TenantPatchBlocked
    <2>11. CASE TenantPatchDrained(out)
      <3>1. /\ tenantLog' \in [Teams -> Seq(TenantSet)]
            /\ \A d \in Teams : Len(tenantLog'[d]) >= 1
            /\ TenantPatched(tw.st) \in TenantSet
            /\ TenantPatched(tw.st).status \in StatusSet(TenantConds)
        BY <2>1, <2>2, <2>11, PatchTenantType DEF TenantPatchDrained
      <3>2. \/ TenantDone(TRUE)
            \/ TenantGoto("deleteNamespace", TenantPatched(tw.st),
                          TenantPatched(tw.st).status, FALSE)
        BY <2>11 DEF TenantPatchDrained
      <3>3. TenantWorkerTypeOK' /\ tenantQueue' \subseteq Teams
        BY <1>c, <2>1, <2>2, <3>1, <3>2, TenantWorkerStep
      <3> QED BY <1>a, <2>11, <3>1, <3>3, TenantSideType DEF TenantPatchDrained
    <2>12. CASE TenantDeleteNamespace(out)
      <3> DEFINE v == [Child(tw.key, "Namespace") EXCEPT !.del = TRUE]
      <3>0. Child(tw.key, "Namespace") \in ChildSet
        BY <1>a, <1>b, <2>2, StoredTypes
      <3>1. v \in ChildSet
        BY <3>0 DEF ChildSet
      <3>2. UNCHANGED childLog \/ PutChild(tw.key, "Namespace", v)
        BY <2>12 DEF TenantDeleteNamespace
      <3> HIDE DEF v
      <3>3. /\ childLog' \in [Teams -> [Kinds -> Seq(ChildSet)]]
            /\ \A u \in Teams, j \in Kinds : Len(childLog'[u][j]) >= 1
        <4>1. CASE UNCHANGED childLog
          BY <1>a, <4>1
        <4>2. CASE PutChild(tw.key, "Namespace", v)
          BY <1>a, <1>b, <2>2, <3>1, <4>2, PutChildType
        <4> QED BY <3>2, <4>1, <4>2
      <3>4. TenantGoto("release", tw.obj, tw.st, FALSE) \/ TenantDone(TRUE)
        BY <2>12 DEF TenantDeleteNamespace
      <3>5. TenantWorkerTypeOK' /\ tenantQueue' \subseteq Teams
        BY <1>c, <2>1, <2>2, <3>4, TenantWorkerStep
      <3> QED BY <1>a, <2>12, <3>3, <3>5, TenantSideType
         DEF TenantDeleteNamespace
    <2>13. CASE TenantRelease(out)
      <3> DEFINE v == Unfinalized(tw.obj, AbsentTenant(tw.obj.uid))
      <3>1. v \in TenantSet
        BY <2>2, AbsentTypes DEF Unfinalized, TenantSet
      <3>2. UNCHANGED tenantLog \/ PutTenant(tw.key, v)
        BY <2>13 DEF TenantRelease
      <3>3. \E again \in BOOLEAN : TenantDone(again)
        BY <2>13, TenantDoneBool DEF TenantRelease
      <3> HIDE DEF v
      <3>4. /\ tenantLog' \in [Teams -> Seq(TenantSet)]
            /\ \A d \in Teams : Len(tenantLog'[d]) >= 1
        BY <1>a, <2>2, <3>1, <3>2, PutTenantType
      <3>5. TenantWorkerTypeOK' /\ tenantQueue' \subseteq Teams
        BY <1>c, <2>1, <2>2, <3>3, TenantWorkerStep
      <3> QED BY <1>a, <2>13, <3>4, <3>5, TenantSideType DEF TenantRelease
    <2> QED BY <1>2, <2>3, <2>4, <2>5, <2>6, <2>7, <2>8, <2>9, <2>10, <2>11,
       <2>12, <2>13 DEF TenantStep
  <1> QED BY <1>1, <1>2 DEF TenantNext

\* Watch events and resyncs.
LEMMA TypeWatch == TypeOK /\ WatchNext => TypeOK'
  <1> SUFFICES ASSUME TypeOK, WatchNext PROVE TypeOK'
    OBVIOUS
  <1>a. ClusterTypeOK
    BY DEF TypeOK
  <1>1. ASSUME NEW c \in Claims, DeliverClaim(c) PROVE TypeOK'
    <2>1. /\ claimLog[c] \in Seq(ClaimSet) /\ Len(claimLog[c]) > 1
          /\ claimLog' = [claimLog EXCEPT ![c] = Tail(claimLog[c])]
      BY <1>1, <1>a DEF DeliverClaim, ClusterTypeOK
    <2>2. Tail(claimLog[c]) \in Seq(ClaimSet) /\ Len(Tail(claimLog[c])) >= 1
      BY <2>1, LogTail
    <2>3. /\ claimLog' \in [Claims -> Seq(ClaimSet)]
          /\ \A d \in Claims : Len(claimLog'[d]) >= 1
      BY <1>a, <2>1, <2>2 DEF ClusterTypeOK
    <2>4. /\ tenantForClaim(claimLog[c][1]) \subseteq Teams
          /\ tenantForClaim(claimLog[c][2]) \subseteq Teams
      <3>1. claimLog[c][1] \in ClaimSet /\ claimLog[c][2] \in ClaimSet
        BY <2>1
      <3> QED BY <3>1 DEF tenantForClaim, ClaimSet
    <2>5. tenantQueue' \subseteq Teams /\ claimQueue' \subseteq Claims
      BY <1>1, <1>a, <2>4 DEF DeliverClaim, ClusterTypeOK
    <2> QED BY <1>1, <1>a, <2>3, <2>5 DEF DeliverClaim, TypeOK, ClusterTypeOK,
       ClaimWorkerTypeOK, TenantWorkerTypeOK, argo, workers
  <1>2. ASSUME NEW t \in Teams, NEW out, DeliverTenant(t, out) PROVE TypeOK'
    <2>1. /\ tenantLog[t] \in Seq(TenantSet) /\ Len(tenantLog[t]) > 1
          /\ tenantLog' = [tenantLog EXCEPT ![t] = Tail(tenantLog[t])]
      BY <1>2, <1>a DEF DeliverTenant, ClusterTypeOK
    <2>2. Tail(tenantLog[t]) \in Seq(TenantSet) /\ Len(Tail(tenantLog[t])) >= 1
      BY <2>1, LogTail
    <2>3. /\ tenantLog' \in [Teams -> Seq(TenantSet)]
          /\ \A u \in Teams : Len(tenantLog'[u]) >= 1
      BY <1>a, <2>1, <2>2 DEF ClusterTypeOK
    <2>4. tenantQueue' \subseteq Teams /\ claimQueue' \subseteq Claims
      BY <1>2, <1>a DEF DeliverTenant, claimsForTenant, CachedClaims,
         ClusterTypeOK
    <2> QED BY <1>2, <1>a, <2>3, <2>4 DEF DeliverTenant, TypeOK, ClusterTypeOK,
       ClaimWorkerTypeOK, TenantWorkerTypeOK, argo, workers
  <1>3. ASSUME NEW t \in Teams, NEW k \in Kinds, DeliverChild(t, k)
        PROVE  TypeOK'
    <2> DEFINE inner == [childLog[t] EXCEPT ![k] = Tail(childLog[t][k])]
    <2>1. /\ childLog[t][k] \in Seq(ChildSet) /\ Len(childLog[t][k]) > 1
          /\ childLog' = [childLog EXCEPT ![t] = inner]
      BY <1>3, <1>a DEF DeliverChild, ClusterTypeOK
    <2>2. Tail(childLog[t][k]) \in Seq(ChildSet) /\ Len(Tail(childLog[t][k])) >= 1
      BY <2>1, LogTail
    <2>3. inner \in [Kinds -> Seq(ChildSet)] /\ \A j \in Kinds : Len(inner[j]) >= 1
      BY <1>a, <2>2 DEF ClusterTypeOK
    <2> HIDE DEF inner
    <2>4. /\ childLog' \in [Teams -> [Kinds -> Seq(ChildSet)]]
          /\ \A u \in Teams, j \in Kinds : Len(childLog'[u][j]) >= 1
      BY <1>a, <2>1, <2>3 DEF ClusterTypeOK
    <2> QED BY <1>3, <1>a, <2>4 DEF DeliverChild, TypeOK, ClusterTypeOK,
       ClaimWorkerTypeOK, TenantWorkerTypeOK, argo, workers
  <1>4. ASSUME NEW c \in Claims, DeliverApp(c) \/ Resync(c) PROVE TypeOK'
    BY <1>4 DEF DeliverApp, Resync, TypeOK, ClusterTypeOK,
       ClaimWorkerTypeOK, TenantWorkerTypeOK, argo, workers
  <1> QED BY <1>1, <1>2, <1>3, <1>4 DEF WatchNext

\* ArgoCD and the namespace controller.
LEMMA TypeExternal == TypeOK /\ ExternalNext => TypeOK'
  <1> SUFFICES ASSUME TypeOK, ExternalNext PROVE TypeOK'
    OBVIOUS
  <1>a. ClusterTypeOK
    BY DEF TypeOK
  <1>1. ASSUME NEW c \in Claims, ArgoSync(c) PROVE TypeOK'
    <2>1. workload' \in [Claims -> Teams \cup {None}]
      BY <1>1, <1>a DEF ArgoSync, ClusterTypeOK, AppSet
    <2> QED BY <1>1, <2>1 DEF ArgoSync, TypeOK, ClusterTypeOK,
       ClaimWorkerTypeOK, TenantWorkerTypeOK, queues, workers
  <1>2. ASSUME NEW c \in Claims, ArgoPrune(c) PROVE TypeOK'
    <2>1. app' \in [Claims -> AppSet] /\ appEvents' \subseteq Claims
      BY <1>2, <1>a, AbsentTypes, PutAppType DEF ArgoPrune
    <2>2. workload' \in [Claims -> Teams \cup {None}]
      BY <1>2, <1>a DEF ArgoPrune, ClusterTypeOK
    <2> QED BY <1>2, <2>1, <2>2 DEF ArgoPrune, TypeOK, ClusterTypeOK,
       ClaimWorkerTypeOK, TenantWorkerTypeOK, queues, workers
  <1>3. ASSUME NEW t \in Teams, NamespaceFinalize(t) PROVE TypeOK'
    <2> DEFINE inner == [k \in Kinds |-> Written(childLog[t][k], AbsentChild)]
    <2>1. inner \in [Kinds -> Seq(ChildSet)] /\ \A k \in Kinds : Len(inner[k]) >= 1
      <3>1. ASSUME NEW k \in Kinds
            PROVE  /\ Written(childLog[t][k], AbsentChild) \in Seq(ChildSet)
                   /\ Len(Written(childLog[t][k], AbsentChild)) >= 1
        <4>1. childLog[t][k] \in Seq(ChildSet) /\ Len(childLog[t][k]) >= 1
          BY <1>a DEF ClusterTypeOK
        <4> QED BY <4>1, AbsentTypes, LogWritten
      <3> QED BY <3>1
    <2>2. childLog' = [childLog EXCEPT ![t] = inner]
      BY <1>3 DEF NamespaceFinalize
    <2> HIDE DEF inner
    <2>3. /\ childLog' \in [Teams -> [Kinds -> Seq(ChildSet)]]
          /\ \A u \in Teams, j \in Kinds : Len(childLog'[u][j]) >= 1
      BY <1>a, <2>1, <2>2 DEF ClusterTypeOK
    <2>4. workload' \in [Claims -> Teams \cup {None}]
      BY <1>3, <1>a DEF NamespaceFinalize, ClusterTypeOK
    <2> QED BY <1>3, <2>3, <2>4 DEF NamespaceFinalize, TypeOK, ClusterTypeOK,
       ClaimWorkerTypeOK, TenantWorkerTypeOK, queues, workers
  <1> QED BY <1>1, <1>2, <1>3 DEF ExternalNext

\* A restart.
LEMMA TypeCrash == TypeOK /\ Crash => TypeOK'
  <1> SUFFICES ASSUME TypeOK, Crash PROVE TypeOK'
    OBVIOUS
  <1>a. ClusterTypeOK
    BY DEF TypeOK
  <1>1. \A S : \A v \in S : <<v>> \in Seq(S) /\ Len(<<v>>) >= 1
    OBVIOUS
  <1>2. /\ claimLog' \in [Claims -> Seq(ClaimSet)]
        /\ \A c \in Claims : Len(claimLog'[c]) >= 1
    BY <1>a, <1>1, StoredTypes DEF Crash
  <1>3. /\ tenantLog' \in [Teams -> Seq(TenantSet)]
        /\ \A t \in Teams : Len(tenantLog'[t]) >= 1
    BY <1>a, <1>1, StoredTypes DEF Crash
  <1>4. /\ childLog' \in [Teams -> [Kinds -> Seq(ChildSet)]]
        /\ \A t \in Teams, k \in Kinds : Len(childLog'[t][k]) >= 1
    BY <1>a, <1>1, StoredTypes DEF Crash
  <1>5. crashes' \in 0..MaxCrashes
    BY <1>a, BoundsAssumption DEF Crash, ClusterTypeOK
  <1>6. ClaimWorkerTypeOK' /\ TenantWorkerTypeOK'
    BY AbsentTypes, NoStatusType, NoneAssumption DEF Crash, ClaimWorkerTypeOK,
       IdleClaimWorker, TenantWorkerTypeOK, IdleTenantWorker
  <1>7. /\ app' \in [Claims -> AppSet] /\ appEvents' \subseteq Claims
        /\ workload' \in [Claims -> Teams \cup {None}]
        /\ admitted' \in [Claims -> [team : Teams, img : Images] \cup {None}]
        /\ byHand' \in 0..MaxByHand
    BY <1>a DEF Crash, ClusterTypeOK
  <1>8. claimQueue' \subseteq Claims /\ tenantQueue' \subseteq Teams
    BY DEF Crash
  <1> QED BY <1>2, <1>3, <1>4, <1>5, <1>6, <1>7, <1>8 DEF TypeOK, ClusterTypeOK

LEMMA TypeStep == TypeOK /\ [Next]_vars => TypeOK'
  <1>1. TypeOK /\ UNCHANGED vars => TypeOK'
    BY DEF TypeOK, ClusterTypeOK, ClaimWorkerTypeOK, TenantWorkerTypeOK, vars
  <1> QED BY <1>1, TypeUser, TypeClaim, TypeTenant, TypeWatch, TypeExternal,
     TypeCrash DEF Next

\* Every variable of the platform keeps its type: no reconcile, patch against a
\* stale base, watch event or restart of the manager makes an object, a status
\* or a worker that the code's types do not allow.
THEOREM TypeCorrect == Spec => []TypeOK
  BY TypeInit, TypeStep, PTL DEF Spec

-----------------------------------------------------------------------------
(* Version logs and the teardown finalizer.  What a watched object's        *)
(* versions, from the cache to etcd, keep about the finalizer: ServiceClaims *)
(* and Tenants use it in the same way (finalizers.go), so the lemmas are     *)
(* about any set S of versions; AppGuardProofs and NamespaceGuardProofs      *)
(* apply them to the two kinds.                                              *)

\* The fields the argument is about, with their types.
Versions(S) ==
    \A o \in S : /\ o.uid \in Nat /\ o.live \in BOOLEAN /\ o.fin \in BOOLEAN
                 /\ o.del \in BOOLEAN

\* A write that leaves the finalizer to the controller: it adds none, and it
\* keeps an object that carries one.
Quiet(o, v) ==
    /\ o.uid <= v.uid
    /\ v.live /\ v.uid = o.uid => o.live /\ (o.del => v.del)
    /\ v.live /\ v.fin => o.live /\ o.fin /\ v.uid = o.uid
    /\ o.live /\ o.fin => v.live /\ v.fin /\ v.uid = o.uid

\* How a log changes while the controller's worker does nothing about the
\* finalizer.
Evolves(old, new) ==
    /\ LogInv(new)
    /\ Cached(old).uid <= Cached(new).uid
    /\ Stored(old).live /\ Stored(old).fin =>
          Stored(new).live /\ Stored(new).fin /\ Stored(new).uid = Stored(old).uid
    /\ Condemned(old) => Condemned(new)

LEMMA ClaimVersions == Versions(ClaimSet)
  BY DEF Versions, ClaimSet

LEMMA TenantVersions == Versions(TenantSet)
  BY DEF Versions, TenantSet

-----------------------------------------------------------------------------
(* Steps that do not touch the finalizer *)

LEMMA EvolvesSame ==
    ASSUME NEW S, Versions(S), NEW log \in Seq(S), Len(log) >= 1, LogInv(log)
    PROVE  Evolves(log, log)
  <1>1. Cached(log).uid \in Nat
    BY LogEnds DEF Versions
  <1> QED BY <1>1 DEF Evolves

\* The cache takes in the next version.
LEMMA EvolvesTail ==
    ASSUME NEW S, Versions(S), NEW log \in Seq(S), Len(log) > 1, LogInv(log)
    PROVE  Evolves(log, Tail(log))
  <1> DEFINE t == Tail(log)
  <1>1. /\ t \in Seq(S) /\ Len(t) \in Nat /\ Len(t) >= 1
        /\ Stored(t) = Stored(log) /\ Len(t) = Len(log) - 1
        /\ \A i \in 1..Len(t) : t[i] = log[i + 1] /\ i + 1 \in 1..Len(log)
    BY LogTail
  <1>2. /\ \A i \in 1..Len(log) : log[i] \in S /\ log[i].uid \in Nat
        /\ Len(log) \in Nat /\ 1 \in 1..Len(log) /\ 2 \in 1..Len(log)
    BY DEF Versions
  <1>3. Cached(t) = log[2] /\ Cached(log) = log[1]
    BY <1>1 DEF Cached
  <1> HIDE DEF t
  <1>4. VersionsInOrder(t)
    BY <1>1, <1>2 DEF VersionsInOrder, LogInv
  <1>5. FinalizersSeen(t)
    <2> SUFFICES ASSUME NEW i \in 1..Len(t), t[i].live, t[i].fin
                 PROVE  t[i].uid = Cached(t).uid
      BY DEF FinalizersSeen
    <2>1. t[i] = log[i + 1] /\ i + 1 \in 1..Len(log) /\ 2 <= i + 1
      BY <1>1
    <2>2. log[i + 1].uid = log[1].uid
      BY <2>1, <1>3 DEF LogInv, FinalizersSeen
    <2>3. log[1].uid <= log[2].uid /\ log[2].uid <= log[i + 1].uid
      BY <2>1, <1>2 DEF LogInv, VersionsInOrder, Follows
    <2> QED BY <2>1, <2>2, <2>3, <1>2, <1>3
  <1>6. StaleCopyGuarded(t)
    BY <1>1, <1>2 DEF StaleCopyGuarded, LogInv
  <1>7. Cached(log).uid <= Cached(t).uid
    BY <1>2, <1>3 DEF LogInv, VersionsInOrder, Follows
  <1>8. Condemned(log) => Condemned(t)
    BY <1>1 DEF Condemned
  <1> QED BY <1>1, <1>4, <1>5, <1>6, <1>7, <1>8 DEF Evolves, LogInv, t

\* The versions of a log after a write that keeps the order.
LEMMA WrittenInOrder ==
    ASSUME NEW S, Versions(S), NEW log \in Seq(S), Len(log) >= 1,
           VersionsInOrder(log), NEW v \in S,
           Stored(log).uid <= v.uid,
           v.live /\ v.uid = Stored(log).uid =>
              Stored(log).live /\ (Stored(log).del => v.del)
    PROVE  VersionsInOrder(Written(log, v))
  <1> DEFINE new == Append(log, v)
  <1>1. CASE v = Stored(log)
    BY <1>1 DEF Written
  <1>2. CASE v # Stored(log)
    <2>1. /\ Len(log) \in Nat /\ Len(new) = Len(log) + 1
          /\ new[Len(log) + 1] = v
          /\ \A i \in 1..Len(log) : new[i] = log[i] /\ log[i] \in S
      OBVIOUS
    <2>2. \A i \in 1..Len(log) : Follows(log[i], log[Len(log)])
      BY <2>1 DEF VersionsInOrder
    <2>3. \A i \in 1..Len(log) : Follows(log[i], v)
      <3> TAKE i \in 1..Len(log)
      <3>1. log[i].uid \in Nat /\ Stored(log).uid \in Nat /\ v.uid \in Nat
        BY <2>1, LogEnds DEF Versions
      <3>2. Follows(log[i], Stored(log))
        BY <2>2 DEF Stored
      <3> QED BY <3>1, <3>2 DEF Follows
    <2>4. Follows(v, v)
      BY DEF Follows, Versions
    <2> HIDE DEF new
    <2>5. VersionsInOrder(new)
      <3> SUFFICES ASSUME NEW i \in 1..Len(new), NEW j \in 1..Len(new), i <= j
                   PROVE  Follows(new[i], new[j])
        BY DEF VersionsInOrder
      <3>1. CASE j \in 1..Len(log)
        <4>1. i \in 1..Len(log)
          BY <2>1, <3>1
        <4> QED BY <2>1, <3>1, <4>1 DEF VersionsInOrder
      <3>2. CASE j = Len(log) + 1
        <4>1. CASE i \in 1..Len(log)
          BY <2>1, <2>3, <3>2, <4>1
        <4>2. CASE i = Len(log) + 1
          BY <2>1, <2>4, <3>2, <4>2
        <4> QED BY <2>1, <4>1, <4>2
      <3> QED BY <2>1, <3>1, <3>2
    <2> QED BY <1>2, <2>5 DEF Written, new
  <1> QED BY <1>1, <1>2

LEMMA EvolvesWritten ==
    ASSUME NEW S, Versions(S), NEW log \in Seq(S), Len(log) >= 1, LogInv(log),
           NEW v \in S, Quiet(Stored(log), v)
    PROVE  Evolves(log, Written(log, v))
  <1> DEFINE new == Written(log, v)
  <1>1. /\ Stored(new) = v /\ Cached(new) = Cached(log)
        /\ \A i \in 1..Len(new) :
              \/ i \in 1..Len(log) /\ new[i] = log[i]
              \/ new[i] = v
    BY LogWritten
  <1>2. VersionsInOrder(new)
    BY WrittenInOrder DEF LogInv, Quiet
  <1>3. Len(log) \in 1..Len(log) /\ Stored(log) = log[Len(log)]
        /\ Stored(log).uid \in Nat /\ v.uid \in Nat /\ Cached(log).uid \in Nat
    BY LogEnds DEF Stored, Versions
  <1> HIDE DEF new
  <1>4. FinalizersSeen(new)
    BY <1>1, <1>3 DEF LogInv, FinalizersSeen, Quiet
  <1>5. StaleCopyGuarded(new)
    <2> SUFFICES ASSUME NEW i \in 1..Len(new),
                        new[i].live, new[i].fin, ~new[i].del
                 PROVE  v.live /\ v.fin /\ v.uid = new[i].uid
      BY <1>1 DEF StaleCopyGuarded
    <2>1. CASE i \in 1..Len(log) /\ new[i] = log[i]
      BY <2>1, <1>3 DEF LogInv, StaleCopyGuarded, Quiet
    <2>2. CASE new[i] = v
      BY <2>2
    <2> QED BY <1>1, <2>1, <2>2
  <1>6. Condemned(log) => Condemned(new)
    BY <1>1, <1>3 DEF Condemned, Quiet
  <1> QED BY <1>1, <1>2, <1>3, <1>4, <1>5, <1>6
     DEF Evolves, LogInv, Quiet, new

-----------------------------------------------------------------------------
(* The log a reconcile starts from, and the two steps on the finalizer *)

\* A log of one version: the first state, and the one after a restart.
LEMMA FreshLog ==
    ASSUME NEW S, Versions(S), NEW o \in S, NEW log, log = <<o>>
    PROVE  LogInv(log) /\ Stored(log) = o /\ Cached(log) = o
  <1>1. Len(log) = 1 /\ log[1] = o /\ o.uid \in Nat
    BY DEF Versions
  <1>2. \A i \in 1..Len(log) : log[i] = o
    BY <1>1
  <1>3. Stored(log) = o /\ Cached(log) = o
    BY <1>1 DEF Stored, Cached
  <1> QED BY <1>1, <1>2, <1>3 DEF LogInv, VersionsInOrder, Follows,
     FinalizersSeen, StaleCopyGuarded

\* A cached object that is guarded and terminating was seen by the controller,
\* so every version on its way that carries the finalizer is terminating too.
LEMMA CachedCondemned ==
    ASSUME NEW S, Versions(S), NEW log \in Seq(S), Len(log) >= 1, LogInv(log),
           Cached(log).live, Cached(log).fin, Cached(log).del
    PROVE  Condemned(log)
  <1>1. 1 \in 1..Len(log) /\ Cached(log) = log[1] /\ Cached(log).uid \in Nat
    BY LogEnds DEF Cached, Versions
  <1> SUFFICES ASSUME NEW i \in 1..Len(log), log[i].live, log[i].fin
               PROVE  log[i].del
    BY DEF Condemned
  <1>2. log[i].uid = Cached(log).uid
    BY DEF LogInv, FinalizersSeen
  <1>3. Follows(log[1], log[i])
    BY <1>1 DEF LogInv, VersionsInOrder
  <1> QED BY <1>1, <1>2, <1>3 DEF Follows

\* A cached object that is guarded and not terminating is guarded in etcd.
LEMMA CachedGuarded ==
    ASSUME NEW S, Versions(S), NEW log \in Seq(S), Len(log) >= 1, LogInv(log),
           Cached(log).live, Cached(log).fin, ~Cached(log).del
    PROVE  /\ Stored(log).live /\ Stored(log).fin
           /\ Stored(log).uid = Cached(log).uid
  <1>1. 1 \in 1..Len(log) /\ Cached(log) = log[1]
    BY LogEnds DEF Cached
  <1> QED BY <1>1 DEF LogInv, StaleCopyGuarded

\* uids never decrease from the cache to etcd.
LEMMA CachedBehind ==
    ASSUME NEW S, Versions(S), NEW log \in Seq(S), Len(log) >= 1, LogInv(log)
    PROVE  Cached(log).uid <= Stored(log).uid
  <1>1. Len(log) \in Nat /\ 1 \in 1..Len(log) /\ Len(log) \in 1..Len(log)
        /\ 1 <= Len(log)
    BY LogEnds
  <1> QED BY <1>1 DEF LogInv, VersionsInOrder, Follows, Cached, Stored

\* A terminating object with the finalizer is what etcd holds, if it holds a
\* guarded one at all.
LEMMA CondemnedStored ==
    ASSUME NEW S, NEW log \in Seq(S), Len(log) >= 1, Condemned(log),
           Stored(log).live, Stored(log).fin
    PROVE  Stored(log).del
  <1>1. Len(log) \in 1..Len(log)
    BY LogEnds
  <1> QED BY <1>1 DEF Condemned, Stored

\* ensureFinalizer writes only if etcd still holds the copy o that was read, so
\* it finalizes an incarnation that the cache has seen.
LEMMA FinalizerAdded ==
    ASSUME NEW S, Versions(S), NEW log \in Seq(S), Len(log) >= 1, LogInv(log),
           NEW o \in S, NEW v \in S, Stored(log) = o,
           o.live, ~o.fin, o.uid <= Cached(log).uid,
           v.live, v.fin, v.uid = o.uid, v.del = o.del
    PROVE  LogInv(Written(log, v)) /\ Stored(Written(log, v)) = v
  <1> DEFINE new == Written(log, v)
  <1>1. /\ Stored(new) = v /\ Cached(new) = Cached(log)
        /\ \A i \in 1..Len(new) :
              \/ i \in 1..Len(log) /\ new[i] = log[i]
              \/ new[i] = v
    BY LogWritten
  <1>2. o.uid \in Nat /\ v.uid \in Nat /\ Cached(log).uid \in Nat
    BY LogEnds DEF Versions
  <1>3. o.uid = Cached(log).uid
    BY <1>2, CachedBehind
  <1>4. VersionsInOrder(new)
    BY <1>2, WrittenInOrder DEF LogInv
  <1> HIDE DEF new
  <1>5. FinalizersSeen(new)
    BY <1>1, <1>3 DEF LogInv, FinalizersSeen
  <1>6. StaleCopyGuarded(new)
    <2>1. \A i \in 1..Len(log) : ~(log[i].live /\ log[i].fin /\ ~log[i].del)
      BY DEF LogInv, StaleCopyGuarded
    <2> QED BY <1>1, <2>1 DEF StaleCopyGuarded
  <1> QED BY <1>1, <1>4, <1>5, <1>6 DEF LogInv, new

\* releaseFinalizer removes the object when no copy of it, in the cache or under
\* way to it, could still be acted on.
LEMMA FinalizerReleased ==
    ASSUME NEW S, Versions(S), NEW log \in Seq(S), Len(log) >= 1, LogInv(log),
           Condemned(log), NEW v \in S, ~v.live, v.uid = Stored(log).uid
    PROVE  LogInv(Written(log, v))
  <1> DEFINE new == Written(log, v)
  <1>1. /\ Stored(new) = v /\ Cached(new) = Cached(log)
        /\ \A i \in 1..Len(new) :
              \/ i \in 1..Len(log) /\ new[i] = log[i]
              \/ new[i] = v
    BY LogWritten
  <1>2. v.uid \in Nat
    BY DEF Versions
  <1>3. VersionsInOrder(new)
    BY <1>2, WrittenInOrder DEF LogInv
  <1> HIDE DEF new
  <1>4. FinalizersSeen(new)
    BY <1>1 DEF LogInv, FinalizersSeen
  <1>5. StaleCopyGuarded(new)
    BY <1>1 DEF Condemned, StaleCopyGuarded
  <1> QED BY <1>3, <1>4, <1>5 DEF LogInv, new
=============================================================================
