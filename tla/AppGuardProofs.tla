--------------------------- MODULE AppGuardProofs ---------------------------
(***************************************************************************)
(* AppGuarded for every instance of the platform, by the invariant         *)
(* AppGuardedInv, and what follows from it; ReadyMeansRendered where the   *)
(* claims' cache is fresh, by the invariant RenderedInv.                   *)
(***************************************************************************)
EXTENDS PlatformProofs

\* The fields the argument is about, with their types.
LEMMA VersionFields ==
    ASSUME NEW o \in ClaimSet
    PROVE  /\ o.uid \in Nat /\ o.live \in BOOLEAN /\ o.fin \in BOOLEAN
           /\ o.del \in BOOLEAN
  BY ClaimVersions DEF Versions

-----------------------------------------------------------------------------
(* Steps that do not touch the finalizer *)

LEMMA QuietWrites ==
    ASSUME NEW o \in ClaimSet
    PROVE  /\ \A t, img : ~o.live => Quiet(o, NewClaim(o.uid + 1, t, img))
           /\ \A t, img :
                 Quiet(o, [o EXCEPT !.team = t, !.img = img, !.gen = @ + 1])
           /\ Quiet(o, Deleted(o, AbsentClaim(o.uid)))
           /\ \A st : Quiet(o, [o EXCEPT !.status = st])
  <1>1. ASSUME NEW t, NEW img, ~o.live
        PROVE  Quiet(o, NewClaim(o.uid + 1, t, img))
    <2> DEFINE n == NewClaim(o.uid + 1, t, img)
    <2>1. n.uid = o.uid + 1 /\ n.live /\ ~n.fin
      BY DEF NewClaim, AbsentClaim
    <2> HIDE DEF n
    <2>2. Quiet(o, n)
      BY <1>1, <2>1, VersionFields DEF Quiet
    <2> QED BY <2>2 DEF n
  <1>2. ASSUME NEW t, NEW img
        PROVE  Quiet(o, [o EXCEPT !.team = t, !.img = img, !.gen = @ + 1])
    <2> DEFINE n == [o EXCEPT !.team = t, !.img = img, !.gen = @ + 1]
    <2>1. n.uid = o.uid /\ n.live = o.live /\ n.fin = o.fin /\ n.del = o.del
      BY DEF ClaimSet
    <2> HIDE DEF n
    <2>2. Quiet(o, n)
      BY <2>1, VersionFields DEF Quiet
    <2> QED BY <2>2 DEF n
  <1>3. Quiet(o, Deleted(o, AbsentClaim(o.uid)))
    <2>1. CASE o.fin
      <3> DEFINE n == [o EXCEPT !.del = TRUE, !.gen = @ + 1]
      <3>1. n.uid = o.uid /\ n.live = o.live /\ n.fin = o.fin /\ n.del
        BY DEF ClaimSet
      <3> HIDE DEF n
      <3>2. Quiet(o, n)
        BY <3>1, VersionFields DEF Quiet
      <3> QED BY <2>1, <3>2 DEF Deleted, n
    <2>2. CASE ~o.fin
      <3>1. AbsentClaim(o.uid).uid = o.uid /\ ~AbsentClaim(o.uid).live
        BY DEF AbsentClaim
      <3>2. Quiet(o, AbsentClaim(o.uid))
        BY <2>2, <3>1, VersionFields DEF Quiet
      <3> QED BY <2>2, <3>2 DEF Deleted
    <2> QED BY <2>1, <2>2
  <1>4. ASSUME NEW st PROVE Quiet(o, [o EXCEPT !.status = st])
    <2> DEFINE n == [o EXCEPT !.status = st]
    <2>1. n.uid = o.uid /\ n.live = o.live /\ n.fin = o.fin /\ n.del = o.del
      BY DEF ClaimSet
    <2> HIDE DEF n
    <2>2. Quiet(o, n)
      BY <2>1, VersionFields DEF Quiet
    <2> QED BY <2>2 DEF n
  <1> QED BY <1>1, <1>2, <1>3, <1>4

LEMMA UnchangedEvolves ==
    ASSUME TypeOK, AppGuardedInv, UNCHANGED claimLog
    PROVE  \A d \in Claims : Evolves(claimLog[d], claimLog'[d])
  BY EvolvesSame, ClaimVersions DEF TypeOK, ClusterTypeOK, AppGuardedInv

LEMMA PutEvolves ==
    ASSUME TypeOK, AppGuardedInv, NEW c \in Claims, NEW v \in ClaimSet,
           Quiet(Claim(c), v), PutClaim(c, v)
    PROVE  \A d \in Claims : Evolves(claimLog[d], claimLog'[d])
  <1> SUFFICES ASSUME NEW d \in Claims
               PROVE  Evolves(claimLog[d], claimLog'[d])
    OBVIOUS
  <1>1. /\ claimLog[d] \in Seq(ClaimSet) /\ Len(claimLog[d]) >= 1
        /\ LogInv(claimLog[d])
        /\ claimLog \in [Claims -> Seq(ClaimSet)]
    BY DEF TypeOK, ClusterTypeOK, AppGuardedInv
  <1>2. CASE d = c
    <2>1. claimLog'[d] = Written(claimLog[d], v)
      BY <1>1, <1>2 DEF PutClaim
    <2>2. Evolves(claimLog[d], Written(claimLog[d], v))
      BY <1>1, <1>2, EvolvesWritten, ClaimVersions DEF Claim
    <2> QED BY <2>1, <2>2
  <1>3. CASE d # c
    <2>1. claimLog'[d] = claimLog[d]
      BY <1>1, <1>3 DEF PutClaim
    <2> QED BY <1>1, <2>1, EvolvesSame, ClaimVersions
  <1> QED BY <1>2, <1>3

\* AppGuarded and the logs, whoever takes the step.
LEMMA ObjectsGuarded ==
    ASSUME TypeOK, AppGuardedInv,
           \A d \in Claims : Evolves(claimLog[d], claimLog'[d]),
           \A d \in Claims : app'[d].live =>
              app[d].live /\ app'[d].owner = app[d].owner
    PROVE  AppGuarded' /\ \A d \in Claims : LogInv(claimLog'[d])
  <1>1. \A d \in Claims : LogInv(claimLog'[d])
    BY DEF Evolves
  <1>2. ASSUME NEW d \in Claims, app'[d].live
        PROVE  /\ Stored(claimLog'[d]).live /\ Stored(claimLog'[d]).fin
               /\ Stored(claimLog'[d]).uid = app'[d].owner
    <2>1. /\ Stored(claimLog[d]).live /\ Stored(claimLog[d]).fin
          /\ Stored(claimLog[d]).uid = app'[d].owner
      BY <1>2 DEF AppGuardedInv, AppGuarded, Claim
    <2> QED BY <2>1 DEF Evolves
  <1> QED BY <1>1, <1>2 DEF AppGuarded, Claim

\* A step of anyone but the worker.
LEMMA Bystander ==
    ASSUME TypeOK, TypeOK', AppGuardedInv, cw' = cw,
           \A d \in Claims : Evolves(claimLog[d], claimLog'[d]),
           \A d \in Claims : app'[d].live =>
              app[d].live /\ app'[d].owner = app[d].owner
    PROVE  AppGuardedInv'
  <1>1. AppGuarded' /\ \A d \in Claims : LogInv(claimLog'[d])
    BY ObjectsGuarded
  <1>2. CASE cw.pc = "idle"
    BY <1>1, <1>2 DEF AppGuardedInv, ClaimWorkerInv
  <1>3. CASE cw.pc # "idle"
    <2> DEFINE old == claimLog[cw.key]
               new == claimLog'[cw.key]
    <2>1. cw.key \in Claims /\ cw.obj.uid \in Nat
      BY <1>3, ClaimWorkerTypes
    <2>2. Evolves(old, new)
      BY <2>1
    <2>3. Cached(old).uid \in Nat /\ Cached(new).uid \in Nat
      <3>1. /\ old \in Seq(ClaimSet) /\ Len(old) >= 1
            /\ new \in Seq(ClaimSet) /\ Len(new) >= 1
        BY <2>1 DEF TypeOK, ClusterTypeOK
      <3> QED BY <3>1, LogEnds, VersionFields
    <2> HIDE DEF old, new
    <2>4. /\ Stored(old).live /\ Stored(old).fin
             /\ Stored(old).uid = cw.obj.uid =>
                Stored(new).live /\ Stored(new).fin
                /\ Stored(new).uid = cw.obj.uid
          /\ cw.obj.uid <= Cached(old).uid => cw.obj.uid <= Cached(new).uid
          /\ Condemned(old) => Condemned(new)
      BY <2>1, <2>2, <2>3 DEF Evolves
    <2>5. ~app[cw.key].live => ~app'[cw.key].live
      BY <2>1
    <2>6. ClaimWorkerInv'
      BY <1>3, <2>4, <2>5 DEF AppGuardedInv, ClaimWorkerInv, old, new
    <2> QED BY <1>1, <2>6 DEF AppGuardedInv
  <1> QED BY <1>2, <1>3

\* Deleting an Application leaves it out or leaves it to its owner.
LEMMA DeletedAppKeeps ==
    ASSUME NEW a \in AppSet
    PROVE  DeletedApp(a).live => a.live /\ DeletedApp(a).owner = a.owner
  BY DEF DeletedApp, AppSet, AbsentApp

LEMMA Unaffected ==
    ASSUME AppGuardedInv, UNCHANGED <<claimLog, app, cw>>
    PROVE  AppGuardedInv'
  BY DEF AppGuardedInv, AppGuarded, ClaimWorkerInv, Claim

LEMMA GuardInit == Init => AppGuardedInv
  <1> SUFFICES ASSUME Init PROVE AppGuardedInv
    OBVIOUS
  <1>1. ~AbsentApp.live
    BY DEF AbsentApp
  <1>2. AppGuarded
    BY <1>1 DEF Init, ClusterInit, AppGuarded
  <1>3. ASSUME NEW c \in Claims PROVE LogInv(claimLog[c])
    <2>1. claimLog[c] = <<AbsentClaim(0)>> /\ AbsentClaim(0) \in ClaimSet
      BY AbsentTypes DEF Init, ClusterInit
    <2> QED BY <2>1, FreshLog, ClaimVersions
  <1>4. ClaimWorkerInv
    BY DEF Init, IdleClaimWorker, ClaimWorkerInv
  <1> QED BY <1>2, <1>3, <1>4 DEF AppGuardedInv

LEMMA GuardUser == TypeOK /\ TypeOK' /\ AppGuardedInv /\ UserNext => AppGuardedInv'
  <1> SUFFICES ASSUME TypeOK, TypeOK', AppGuardedInv, UserNext
               PROVE  AppGuardedInv'
    OBVIOUS
  <1>1. ASSUME NEW c \in Claims, NEW v \in ClaimSet, PutClaim(c, v),
               Quiet(Claim(c), v), UNCHANGED <<app, cw>>
        PROVE  AppGuardedInv'
    <2>1. \A d \in Claims : Evolves(claimLog[d], claimLog'[d])
      BY <1>1, PutEvolves
    <2> QED BY <1>1, <2>1, Bystander
  <1>2. ASSUME NEW c \in Claims PROVE Claim(c) \in ClaimSet /\ Claim(c).uid \in Nat
    BY StoredTypes, VersionFields DEF TypeOK
  <1>3. ASSUME NEW t \in Teams, NEW res,
               CreateTenant(t, res) \/ EditTenant(t, res) \/ DeleteTenant(t)
        PROVE  AppGuardedInv'
    BY <1>3, Unaffected DEF CreateTenant, EditTenant, DeleteTenant, argo, workers
  <1>4. ASSUME NEW c \in Claims, NEW t \in Teams, NEW img \in Images,
               CreateClaim(c, t, img)
        PROVE  AppGuardedInv'
    <2>1. NewClaim(Claim(c).uid + 1, t, img) \in ClaimSet
      BY <1>2, NewTypes
    <2>2. Quiet(Claim(c), NewClaim(Claim(c).uid + 1, t, img))
      BY <1>2, <1>4, QuietWrites DEF CreateClaim
    <2> QED BY <1>1, <1>4, <2>1, <2>2 DEF CreateClaim, argo, workers
  <1>5. ASSUME NEW c \in Claims, PersistClaim(c)
        PROVE  AppGuardedInv'
    <2> DEFINE v == NewClaim(Claim(c).uid + 1, admitted[c].team, admitted[c].img)
    <2>1. admitted[c].team \in Teams /\ admitted[c].img \in Images
      BY <1>5 DEF PersistClaim, TypeOK, ClusterTypeOK
    <2>2. v \in ClaimSet
      BY <1>2, <2>1, NewTypes
    <2>3. Quiet(Claim(c), v)
      BY <1>2, <1>5, QuietWrites DEF PersistClaim
    <2> QED BY <1>1, <1>5, <2>2, <2>3 DEF PersistClaim, argo, workers
  <1>6. ASSUME NEW c \in Claims, NEW t \in Teams, NEW img \in Images,
               EditClaim(c, t, img)
        PROVE  AppGuardedInv'
    <2> DEFINE v == [Claim(c) EXCEPT !.team = t, !.img = img, !.gen = @ + 1]
    <2>1. v \in ClaimSet /\ Quiet(Claim(c), v)
      BY <1>2, ClaimEditType, QuietWrites
    <2>2. PutClaim(c, v)
      BY <1>6 DEF EditClaim
    <2> HIDE DEF v
    <2> QED BY <1>1, <1>6, <2>1, <2>2 DEF EditClaim, argo, workers
  <1>7. ASSUME NEW c \in Claims, DeleteClaim(c)
        PROVE  AppGuardedInv'
    <2> DEFINE v == Deleted(Claim(c), AbsentClaim(Claim(c).uid))
    <2>1. v \in ClaimSet /\ Quiet(Claim(c), v)
      BY <1>2, ClaimDeleteType, QuietWrites
    <2>2. PutClaim(c, v)
      BY <1>7 DEF DeleteClaim
    <2> HIDE DEF v
    <2> QED BY <1>1, <1>7, <2>1, <2>2 DEF DeleteClaim, argo, workers
  <1>8. ASSUME NEW c \in Claims, NEW t \in Teams, NEW img \in Images,
               AdmitClaim(c, t, img)
        PROVE  AppGuardedInv'
    BY <1>8, Unaffected DEF AdmitClaim, argo, workers
  <1>9. ASSUME NEW c \in Claims, DeleteAppByHand(c)
        PROVE  AppGuardedInv'
    <2>1. \A d \in Claims : Evolves(claimLog[d], claimLog'[d])
      BY <1>9, UnchangedEvolves DEF DeleteAppByHand
    <2>2. \A d \in Claims : app'[d].live =>
             app[d].live /\ app'[d].owner = app[d].owner
      BY <1>9, DeletedAppKeeps DEF DeleteAppByHand, PutApp, TypeOK, ClusterTypeOK
    <2> QED BY <1>9, <2>1, <2>2, Bystander DEF DeleteAppByHand
  <1>10. ASSUME NEW t \in Teams, NEW k \in Kinds, DeleteChildByHand(t, k)
         PROVE  AppGuardedInv'
    BY <1>10, Unaffected DEF DeleteChildByHand, argo
  <1> QED BY <1>3, <1>4, <1>5, <1>6, <1>7, <1>8, <1>9, <1>10 DEF UserNext

LEMMA GuardTenant == AppGuardedInv /\ TenantNext => AppGuardedInv'
  <1> SUFFICES ASSUME AppGuardedInv, TenantNext PROVE AppGuardedInv'
    OBVIOUS
  <1>1. ASSUME NEW t \in Teams, TenantReconcile(t)
        PROVE  UNCHANGED <<claimLog, app, cw>>
    BY <1>1 DEF TenantReconcile, argo
  <1>2. ASSUME NEW out \in Outcomes, TenantStep(out)
        PROVE  UNCHANGED <<claimLog, app, cw>>
    BY <1>2 DEF TenantStep, TenantEnsureFinalizer, TenantEnsureNamespace,
       TenantEnsureRoleBinding, TenantEnsureQuota, TenantRemoveQuota,
       TenantPatchStatus, TenantListClaims, TenantPatchBlocked,
       TenantPatchDrained, TenantDeleteNamespace, TenantRelease, argo
  <1> QED BY <1>1, <1>2, Unaffected DEF TenantNext

LEMMA GuardWatch == TypeOK /\ TypeOK' /\ AppGuardedInv /\ WatchNext => AppGuardedInv'
  <1> SUFFICES ASSUME TypeOK, TypeOK', AppGuardedInv, WatchNext
               PROVE  AppGuardedInv'
    OBVIOUS
  <1>1. ASSUME NEW c \in Claims, DeliverClaim(c)
        PROVE  AppGuardedInv'
    <2>1. ASSUME NEW d \in Claims PROVE Evolves(claimLog[d], claimLog'[d])
      <3>1. /\ claimLog[d] \in Seq(ClaimSet) /\ Len(claimLog[d]) >= 1
            /\ LogInv(claimLog[d])
            /\ claimLog \in [Claims -> Seq(ClaimSet)]
        BY DEF TypeOK, ClusterTypeOK, AppGuardedInv
      <3>2. CASE d = c
        <4>1. claimLog'[d] = Tail(claimLog[d]) /\ Len(claimLog[d]) > 1
          BY <1>1, <3>1, <3>2 DEF DeliverClaim
        <4> QED BY <3>1, <4>1, EvolvesTail, ClaimVersions
      <3>3. CASE d # c
        <4>1. claimLog'[d] = claimLog[d]
          BY <1>1, <3>1, <3>3 DEF DeliverClaim
        <4> QED BY <3>1, <4>1, EvolvesSame, ClaimVersions
      <3> QED BY <3>2, <3>3
    <2> QED BY <1>1, <2>1, Bystander DEF DeliverClaim, argo, workers
  <1>2. ASSUME NEW c \in Claims, DeliverApp(c) \/ Resync(c)
        PROVE  AppGuardedInv'
    BY <1>2, Unaffected DEF DeliverApp, Resync, argo, workers
  <1>3. ASSUME NEW t \in Teams, NEW out, DeliverTenant(t, out)
        PROVE  AppGuardedInv'
    BY <1>3, Unaffected DEF DeliverTenant, argo, workers
  <1>4. ASSUME NEW t \in Teams, NEW k \in Kinds, DeliverChild(t, k)
        PROVE  AppGuardedInv'
    BY <1>4, Unaffected DEF DeliverChild, argo, workers
  <1> QED BY <1>1, <1>2, <1>3, <1>4 DEF WatchNext

LEMMA GuardExternal ==
    TypeOK /\ TypeOK' /\ AppGuardedInv /\ ExternalNext => AppGuardedInv'
  <1> SUFFICES ASSUME TypeOK, TypeOK', AppGuardedInv, ExternalNext
               PROVE  AppGuardedInv'
    OBVIOUS
  <1>1. ASSUME NEW c \in Claims, ArgoSync(c) PROVE AppGuardedInv'
    BY <1>1, Unaffected DEF ArgoSync, workers
  <1>2. ASSUME NEW t \in Teams, NamespaceFinalize(t) PROVE AppGuardedInv'
    BY <1>2, Unaffected DEF NamespaceFinalize, workers
  <1>3. ASSUME NEW c \in Claims, ArgoPrune(c) PROVE AppGuardedInv'
    <2>1. \A d \in Claims : Evolves(claimLog[d], claimLog'[d])
      BY <1>3, UnchangedEvolves DEF ArgoPrune
    <2>2. ~AbsentApp.live
      BY DEF AbsentApp
    <2>3. \A d \in Claims : app'[d].live =>
             app[d].live /\ app'[d].owner = app[d].owner
      BY <1>3, <2>2 DEF ArgoPrune, PutApp, TypeOK, ClusterTypeOK
    <2> QED BY <1>3, <2>1, <2>3, Bystander DEF ArgoPrune, workers
  <1> QED BY <1>1, <1>2, <1>3 DEF ExternalNext

LEMMA GuardCrash == TypeOK /\ AppGuardedInv /\ Crash => AppGuardedInv'
  <1> SUFFICES ASSUME TypeOK, AppGuardedInv, Crash PROVE AppGuardedInv'
    OBVIOUS
  <1>1. ASSUME NEW c \in Claims
        PROVE  LogInv(claimLog'[c]) /\ Stored(claimLog'[c]) = Claim(c)
    <2>1. Claim(c) \in ClaimSet /\ claimLog'[c] = <<Claim(c)>>
      BY StoredTypes DEF Crash, TypeOK
    <2> QED BY <2>1, FreshLog, ClaimVersions
  <1>2. AppGuarded'
    BY <1>1 DEF Crash, AppGuardedInv, AppGuarded, Claim
  <1>3. ClaimWorkerInv'
    BY DEF Crash, IdleClaimWorker, ClaimWorkerInv
  <1> QED BY <1>1, <1>2, <1>3 DEF AppGuardedInv

-----------------------------------------------------------------------------
(* Steps of the worker *)

\* A reconcile ends, and the finalizer was left alone.
LEMMA WorkerEnds ==
    ASSUME TypeOK, AppGuardedInv, NEW again, ClaimDone(again),
           \A d \in Claims : Evolves(claimLog[d], claimLog'[d]),
           \A d \in Claims : app'[d].live =>
              app[d].live /\ app'[d].owner = app[d].owner
    PROVE  AppGuardedInv'
  <1>1. ClaimWorkerInv'
    BY DEF ClaimDone, IdleClaimWorker, ClaimWorkerInv
  <1> QED BY <1>1, ObjectsGuarded DEF AppGuardedInv

\* A status patch leaves the finalizer alone.
LEMMA PatchEvolves ==
    ASSUME TypeOK, AppGuardedInv, cw.pc # "idle", NEW out,
           NEW st \in StatusSet(ClaimConds), PatchClaim(out, st)
    PROVE  \A d \in Claims : Evolves(claimLog[d], claimLog'[d])
  <1>1. CASE UNCHANGED claimLog
    BY <1>1, UnchangedEvolves
  <1>2. CASE PutClaim(cw.key, ClaimPatched(st))
    <2>1. cw.key \in Claims /\ ClaimPatched(st) \in ClaimSet
      BY ClaimWorkerTypes, PatchClaimType
    <2>2. Claim(cw.key) \in ClaimSet
      BY <2>1, StoredTypes DEF TypeOK
    <2>3. Quiet(Claim(cw.key), ClaimPatched(st))
      BY <2>2, QuietWrites DEF ClaimPatched
    <2> QED BY <1>2, <2>1, <2>3, PutEvolves
  <1> QED BY <1>1, <1>2 DEF PatchClaim

\* The next reconcile starts from whatever the cache holds.
LEMMA GuardReconcile ==
    ASSUME TypeOK, AppGuardedInv, NEW c \in Claims, ClaimReconcile(c)
    PROVE  AppGuardedInv'
  <1> DEFINE log == claimLog[c]
             claim == Cached(log)
  <1>1. /\ log \in Seq(ClaimSet) /\ Len(log) \in Nat /\ Len(log) >= 1
        /\ LogInv(log) /\ claim \in ClaimSet /\ claim.uid \in Nat
        /\ claim = log[1] /\ 1 \in 1..Len(log)
    BY LogEnds, VersionFields DEF TypeOK, ClusterTypeOK, AppGuardedInv, Cached
  <1>2. UNCHANGED <<claimLog, app>>
    BY DEF ClaimReconcile, argo
  <1>3. AppGuarded' /\ \A d \in Claims : LogInv(claimLog'[d])
    BY <1>2 DEF AppGuardedInv, AppGuarded, Claim
  <1>4. \/ cw' = cw
        \/ claim.live /\ claim.del /\ claim.fin /\ cw'.pc = "getApp"
           /\ cw'.key = c
        \/ claim.live /\ ~claim.del /\ claim.fin /\ cw'.pc = "gate"
           /\ cw'.key = c /\ cw'.obj = claim
        \/ claim.live /\ ~claim.del /\ ~claim.fin /\ cw'.pc = "finalizer"
           /\ cw'.key = c /\ cw'.obj = claim
    BY DEF ClaimReconcile, ClaimFirstStep
  <1> HIDE DEF claim, log
  <1>5. CASE cw' = cw
    BY <1>2, <1>5, Unaffected
  <1>6. CASE claim.live /\ claim.del /\ claim.fin /\ cw'.pc = "getApp"
             /\ cw'.key = c
    <2>1. Condemned(log)
      BY <1>1, <1>6, CachedCondemned, ClaimVersions DEF claim
    <2>2. ClaimWorkerInv'
      BY <1>2, <1>6, <2>1 DEF ClaimWorkerInv, ClaimDeletePcs, log
    <2> QED BY <1>3, <2>2 DEF AppGuardedInv
  <1>7. CASE claim.live /\ ~claim.del /\ claim.fin /\ cw'.pc = "gate"
             /\ cw'.key = c /\ cw'.obj = claim
    <2>1. Stored(log).live /\ Stored(log).fin /\ Stored(log).uid = claim.uid
      BY <1>1, <1>7, CachedGuarded, ClaimVersions DEF claim
    <2>2. ClaimWorkerInv'
      BY <1>2, <1>7, <2>1 DEF ClaimWorkerInv, ClaimDeletePcs, log
    <2> QED BY <1>3, <2>2 DEF AppGuardedInv
  <1>8. CASE claim.live /\ ~claim.del /\ ~claim.fin /\ cw'.pc = "finalizer"
             /\ cw'.key = c /\ cw'.obj = claim
    <2>1. claim.uid <= claim.uid
      BY <1>1
    <2>2. ClaimWorkerInv'
      BY <1>2, <1>8, <2>1 DEF ClaimWorkerInv, ClaimDeletePcs, log, claim
    <2> QED BY <1>3, <2>2 DEF AppGuardedInv
  <1> QED BY <1>4, <1>5, <1>6, <1>7, <1>8

\* ensureFinalizer writes only if etcd still holds the copy that was read, so
\* it finalizes the incarnation the cache has seen.
LEMMA GuardFinalizer ==
    ASSUME TypeOK, AppGuardedInv, NEW out, ClaimEnsureFinalizer(out)
    PROVE  AppGuardedInv'
  <1> DEFINE c == cw.key
             log == claimLog[c]
             v == [cw.obj EXCEPT !.fin = TRUE]
  <1>0. cw.pc = "finalizer" /\ cw.pc # "idle"
    BY DEF ClaimEnsureFinalizer
  <1>1. /\ c \in Claims /\ cw.obj \in ClaimSet /\ v \in ClaimSet
        /\ log \in Seq(ClaimSet) /\ Len(log) >= 1 /\ LogInv(log)
        /\ cw.obj.uid \in Nat /\ Cached(log).uid \in Nat
        /\ cw.obj.live /\ ~cw.obj.fin /\ cw.obj.uid <= Cached(log).uid
    <2>1. c \in Claims /\ cw.obj \in ClaimSet
      BY <1>0, ClaimWorkerTypes
    <2>2. v \in ClaimSet
      BY <2>1 DEF ClaimSet
    <2>3. log \in Seq(ClaimSet) /\ Len(log) >= 1 /\ LogInv(log)
      BY <2>1 DEF TypeOK, ClusterTypeOK, AppGuardedInv
    <2>4. cw.obj.uid \in Nat /\ Cached(log).uid \in Nat
      BY <2>1, <2>3, LogEnds, VersionFields
    <2>5. cw.obj.live /\ ~cw.obj.fin /\ cw.obj.uid <= Cached(log).uid
      BY <1>0 DEF AppGuardedInv, ClaimWorkerInv
    <2> QED BY <2>1, <2>2, <2>3, <2>4, <2>5
  <1>2. UNCHANGED app
    BY DEF ClaimEnsureFinalizer, argo
  <1>3. CASE UNCHANGED claimLog /\ ClaimDone(TRUE)
    BY <1>2, <1>3, UnchangedEvolves, WorkerEnds
  <1>4. CASE /\ Claim(c) = cw.obj /\ PutClaim(c, v)
             /\ ClaimDone(TRUE) \/ ClaimGoto("gate", v, v.status, FALSE)
    <2> DEFINE new == Written(log, v)
    <2>1. v.live /\ v.fin /\ v.uid = cw.obj.uid /\ v.del = cw.obj.del
      BY <1>1 DEF ClaimSet
    <2>2. Stored(log) = cw.obj
      BY <1>4 DEF Claim
    <2> HIDE DEF v, log
    <2>3. LogInv(new) /\ Stored(new) = v
      BY <1>1, <2>1, <2>2, FinalizerAdded, ClaimVersions
    <2> HIDE DEF new
    <2>4. /\ claimLog'[c] = new
          /\ \A d \in Claims : d # c => claimLog'[d] = claimLog[d]
      BY <1>1, <1>4 DEF PutClaim, TypeOK, ClusterTypeOK, new, log
    <2>5. \A d \in Claims : LogInv(claimLog'[d])
      BY <2>3, <2>4 DEF AppGuardedInv
    <2>6. ~app[c].live
      BY <1>1, <2>2 DEF AppGuardedInv, AppGuarded, Claim, log
    <2>7. AppGuarded'
      BY <1>2, <2>4, <2>6 DEF AppGuardedInv, AppGuarded, Claim
    <2>8. CASE ClaimDone(TRUE)
      <3>1. ClaimWorkerInv'
        BY <2>8 DEF ClaimDone, IdleClaimWorker, ClaimWorkerInv
      <3> QED BY <2>5, <2>7, <3>1 DEF AppGuardedInv
    <2>9. CASE ClaimGoto("gate", v, v.status, FALSE)
      <3>1. cw'.pc = "gate" /\ cw'.key = c /\ cw'.obj = v
        BY <2>9 DEF ClaimGoto, TypeOK, ClaimWorkerTypeOK
      <3> HIDE DEF c
      <3>2. ClaimWorkerInv'
        BY <2>1, <2>3, <2>4, <3>1 DEF ClaimWorkerInv, ClaimDeletePcs
      <3> QED BY <2>5, <2>7, <3>2 DEF AppGuardedInv
    <2> QED BY <1>4, <2>8, <2>9
  <1> QED BY <1>3, <1>4 DEF ClaimEnsureFinalizer, Conflict

LEMMA GotoFields ==
    ASSUME TypeOK, NEW pc, NEW obj, NEW st, NEW err, ClaimGoto(pc, obj, st, err)
    PROVE  cw'.pc = pc /\ cw'.key = cw.key /\ cw'.obj = obj
  BY DEF ClaimGoto, TypeOK, ClaimWorkerTypeOK

\* The gate sends a guarded copy on.
LEMMA GuardGate ==
    ASSUME TypeOK, AppGuardedInv, NEW out, ClaimGate(out)
    PROVE  AppGuardedInv'
  <1>1. UNCHANGED <<claimLog, app>> /\ cw.pc = "gate"
    BY DEF ClaimGate, argo
  <1>2. /\ cw'.pc \in {"status", "app"} /\ cw'.key = cw.key
        /\ cw'.obj = cw.obj
    BY GotoFields DEF ClaimGate
  <1>3. ClaimWorkerInv'
    BY <1>1, <1>2 DEF AppGuardedInv, ClaimWorkerInv, ClaimDeletePcs
  <1>4. AppGuarded' /\ \A d \in Claims : LogInv(claimLog'[d])
    BY <1>1 DEF AppGuardedInv, AppGuarded, Claim
  <1> QED BY <1>3, <1>4 DEF AppGuardedInv

\* The Application is rendered for the incarnation that etcd guards.
LEMMA GuardRender ==
    ASSUME TypeOK, AppGuardedInv, NEW out, ClaimEnsureArgoApplication(out)
    PROVE  AppGuardedInv'
  <1>1. UNCHANGED claimLog /\ cw.pc = "app"
    BY DEF ClaimEnsureArgoApplication
  <1>2. cw'.pc = "status"
    BY GotoFields DEF ClaimEnsureArgoApplication
  <1>3. ClaimWorkerInv'
    BY <1>2 DEF ClaimWorkerInv, ClaimDeletePcs
  <1>4. cw.key \in Claims /\ app[cw.key] \in AppSet /\ app \in [Claims -> AppSet]
    BY <1>1, ClaimWorkerTypes DEF TypeOK, ClusterTypeOK
  <1>5. RenderedApp(app[cw.key], cw.obj).owner = cw.obj.uid
    BY <1>4 DEF RenderedApp, AppSet
  <1>6. /\ Claim(cw.key).live /\ Claim(cw.key).fin
        /\ Claim(cw.key).uid = cw.obj.uid
    BY <1>1 DEF AppGuardedInv, ClaimWorkerInv, Claim
  <1>7. \A d \in Claims : \/ app'[d] = app[d]
                         \/ /\ d = cw.key
                            /\ app'[d].owner = cw.obj.uid
    BY <1>4, <1>5 DEF ClaimEnsureArgoApplication, PutApp
  <1>8. AppGuarded'
    BY <1>1, <1>6, <1>7 DEF AppGuardedInv, AppGuarded, Claim
  <1> QED BY <1>1, <1>3, <1>8 DEF AppGuardedInv

LEMMA GuardStatus ==
    ASSUME TypeOK, AppGuardedInv, NEW out,
           ClaimPatchStatus(out) \/ ClaimPatchDeleting(out)
    PROVE  AppGuardedInv'
  <1>1. cw.pc # "idle" /\ UNCHANGED app /\ \E again : ClaimDone(again)
    BY DEF ClaimPatchStatus, ClaimPatchDeleting, argo
  <1>2. /\ cw.st \in StatusSet(ClaimConds)
        /\ ClaimAggregateReady(cw.st, cw.obj.gen) \in StatusSet(ClaimConds)
    BY <1>1, ClaimWorkerTypes, ClaimAggregateType
  <1>3. \A d \in Claims : Evolves(claimLog[d], claimLog'[d])
    BY <1>1, <1>2, PatchEvolves DEF ClaimPatchStatus, ClaimPatchDeleting
  <1> QED BY <1>1, <1>3, WorkerEnds

LEMMA GuardGetApp ==
    ASSUME TypeOK, AppGuardedInv, NEW out, ClaimGetApp(out)
    PROVE  AppGuardedInv'
  <1>1. UNCHANGED <<claimLog, app>> /\ cw.pc = "getApp"
    BY DEF ClaimGetApp, argo
  <1>2. AppGuarded' /\ \A d \in Claims : LogInv(claimLog'[d])
    BY <1>1 DEF AppGuardedInv, AppGuarded, Claim
  <1>3. CASE ClaimDone(TRUE)
    BY <1>1, <1>3, UnchangedEvolves, WorkerEnds
  <1>4. CASE \E pc \in {"deleteApp", "patchDeleting"} : \E st :
                ClaimGoto(pc, cw.obj, st, FALSE)
    <2>1. cw'.pc \in {"deleteApp", "patchDeleting"} /\ cw'.key = cw.key
      BY <1>4, GotoFields
    <2>2. ClaimWorkerInv'
      BY <1>1, <2>1 DEF AppGuardedInv, ClaimWorkerInv, ClaimDeletePcs
    <2> QED BY <1>2, <2>2 DEF AppGuardedInv
  <1>5. CASE ~app[cw.key].live
             /\ \E st : ClaimGoto("patchDrained", cw.obj, st, FALSE)
    <2>1. cw'.pc = "patchDrained" /\ cw'.key = cw.key
      BY <1>5, GotoFields
    <2>2. ClaimWorkerInv'
      BY <1>1, <1>5, <2>1 DEF AppGuardedInv, ClaimWorkerInv, ClaimDeletePcs
    <2> QED BY <1>2, <2>2 DEF AppGuardedInv
  <1> QED BY <1>3, <1>4, <1>5 DEF ClaimGetApp, DrainStep

LEMMA GuardDeleteApp ==
    ASSUME TypeOK, AppGuardedInv, NEW out, ClaimDeleteApp(out)
    PROVE  AppGuardedInv'
  <1>1. UNCHANGED claimLog /\ cw.pc = "deleteApp" /\ cw.pc # "idle"
    BY DEF ClaimDeleteApp
  <1>2. \A d \in Claims : Evolves(claimLog[d], claimLog'[d])
    BY <1>1, UnchangedEvolves
  <1>3. \A d \in Claims : app'[d].live =>
           app[d].live /\ app'[d].owner = app[d].owner
    <2>1. cw.key \in Claims /\ app \in [Claims -> AppSet]
      BY <1>1, ClaimWorkerTypes DEF TypeOK, ClusterTypeOK
    <2>2. \A d \in Claims : app'[d] = app[d] \/ app'[d] = DeletedApp(app[d])
      BY <2>1 DEF ClaimDeleteApp, PutApp
    <2> QED BY <2>1, <2>2, DeletedAppKeeps
  <1>4. CASE \E again : ClaimDone(again)
    BY <1>2, <1>3, <1>4, WorkerEnds
  <1>5. CASE \E st : ClaimGoto("patchDeleting", cw.obj, st, FALSE)
    <2>1. cw'.pc = "patchDeleting" /\ cw'.key = cw.key
      BY <1>5, GotoFields
    <2>2. ClaimWorkerInv'
      BY <1>1, <2>1 DEF AppGuardedInv, ClaimWorkerInv, ClaimDeletePcs
    <2> QED BY <1>2, <1>3, <2>2, ObjectsGuarded DEF AppGuardedInv
  <1> QED BY <1>4, <1>5 DEF ClaimDeleteApp

LEMMA GuardPatchDrained ==
    ASSUME TypeOK, AppGuardedInv, NEW out, ClaimPatchDrained(out)
    PROVE  AppGuardedInv'
  <1>1. cw.pc = "patchDrained" /\ cw.pc # "idle" /\ UNCHANGED app
    BY DEF ClaimPatchDrained, argo
  <1>2. cw.key \in Claims /\ cw.st \in StatusSet(ClaimConds)
    BY <1>1, ClaimWorkerTypes
  <1>3. \A d \in Claims : Evolves(claimLog[d], claimLog'[d])
    BY <1>1, <1>2, PatchEvolves DEF ClaimPatchDrained
  <1>4. CASE \E again : ClaimDone(again)
    BY <1>1, <1>3, <1>4, WorkerEnds
  <1>5. CASE /\ Claim(cw.key).live
             /\ ClaimGoto("release", ClaimPatched(cw.st),
                          ClaimPatched(cw.st).status, FALSE)
    <2>1. /\ cw'.pc = "release" /\ cw'.key = cw.key
          /\ cw'.obj = ClaimPatched(cw.st)
      BY <1>5, GotoFields
    <2>2. Claim(cw.key) \in ClaimSet
      BY <1>2, StoredTypes DEF TypeOK
    <2>3. cw'.obj.live
      BY <1>5, <2>1, <2>2 DEF ClaimPatched, ClaimSet
    <2>4. Condemned(claimLog'[cw.key]) /\ ~app'[cw.key].live
      BY <1>1, <1>2, <1>3 DEF AppGuardedInv, ClaimWorkerInv, ClaimDeletePcs,
         Evolves
    <2>5. ClaimWorkerInv'
      BY <2>1, <2>3, <2>4 DEF ClaimWorkerInv
    <2> QED BY <1>1, <1>3, <2>5, ObjectsGuarded DEF AppGuardedInv
  <1> QED BY <1>4, <1>5 DEF ClaimPatchDrained

\* The finalizer is released when no copy of the claim, in the cache or under
\* way to it, could still be rendered.
LEMMA GuardRelease ==
    ASSUME TypeOK, AppGuardedInv, NEW out, ClaimRelease(out)
    PROVE  AppGuardedInv'
  <1> DEFINE c == cw.key
             log == claimLog[c]
             v == AbsentClaim(cw.obj.uid)
             new == Written(log, v)
  <1>1. /\ cw.pc = "release" /\ cw.pc # "idle" /\ UNCHANGED app
        /\ \E again : ClaimDone(again)
    BY DEF ClaimRelease, argo
  <1>2. /\ c \in Claims /\ cw.obj \in ClaimSet /\ cw.obj.uid \in Nat
        /\ log \in Seq(ClaimSet) /\ Len(log) >= 1 /\ LogInv(log)
    BY <1>1, ClaimWorkerTypes DEF TypeOK, ClusterTypeOK, AppGuardedInv
  <1>3. Condemned(log) /\ ~app[c].live /\ cw.obj.live
    BY <1>1 DEF AppGuardedInv, ClaimWorkerInv, ClaimDeletePcs
  <1>4. CASE UNCHANGED claimLog
    BY <1>1, <1>4, UnchangedEvolves, WorkerEnds
  <1>5. CASE /\ cw.obj.fin /\ Claim(c) = cw.obj
             /\ PutClaim(c, Unfinalized(cw.obj, AbsentClaim(cw.obj.uid)))
    <2>1. Stored(log) = cw.obj
      BY <1>5 DEF Claim
    <2>2. cw.obj.del
      BY <1>2, <1>3, <1>5, <2>1, CondemnedStored
    <2>3. PutClaim(c, v)
      BY <1>5, <2>2 DEF Unfinalized
    <2>4. v \in ClaimSet /\ ~v.live /\ v.uid = cw.obj.uid
      BY <1>2, AbsentTypes DEF AbsentClaim
    <2> HIDE DEF v, log
    <2>5. LogInv(new)
      BY <1>2, <1>3, <2>1, <2>4, FinalizerReleased, ClaimVersions
    <2>6. /\ claimLog'[c] = new
          /\ \A d \in Claims : d # c => claimLog'[d] = claimLog[d]
      BY <1>2, <2>3 DEF PutClaim, TypeOK, ClusterTypeOK, log
    <2> HIDE DEF new
    <2>7. \A d \in Claims : LogInv(claimLog'[d])
      BY <2>5, <2>6 DEF AppGuardedInv
    <2>8. AppGuarded'
      BY <1>1, <1>3, <2>6 DEF AppGuardedInv, AppGuarded, Claim
    <2>9. ClaimWorkerInv'
      BY <1>1 DEF ClaimDone, IdleClaimWorker, ClaimWorkerInv
    <2> QED BY <2>7, <2>8, <2>9 DEF AppGuardedInv
  <1> QED BY <1>4, <1>5 DEF ClaimRelease, Conflict

LEMMA GuardClaim == TypeOK /\ AppGuardedInv /\ ClaimNext => AppGuardedInv'
  BY GuardReconcile, GuardFinalizer, GuardGate, GuardRender, GuardStatus,
     GuardGetApp, GuardDeleteApp, GuardPatchDrained, GuardRelease
  DEF ClaimNext, ClaimStep

LEMMA GuardStep ==
    TypeOK /\ TypeOK' /\ AppGuardedInv /\ [Next]_vars => AppGuardedInv'
  <1>1. AppGuardedInv /\ UNCHANGED vars => AppGuardedInv'
    BY Unaffected DEF vars
  <1> QED BY <1>1, GuardUser, GuardClaim, GuardTenant, GuardWatch,
     GuardExternal, GuardCrash DEF Next

\* What every version of a claim between cache and etcd, and every copy that
\* the reconciler of serviceclaim_controller.go works on, can be relied on for,
\* in every reachable state: the finalizer is on no incarnation the cache has
\* not seen, a copy that may be rendered is guarded in etcd, and a teardown
\* under way means that no such copy is left.
THEOREM GuardInvariant == Spec => []AppGuardedInv
  <1>1. Spec => [](TypeOK /\ AppGuardedInv)
    BY TypeInit, TypeStep, GuardInit, GuardStep, PTL DEF Spec
  <1> QED BY <1>1, PTL

\* An Application always has its claim behind it, stored and carrying the
\* teardown finalizer, however stale the caches, however often the manager
\* restarts, and whichever calls fail: ensureFinalizer before any side effect
\* and releaseFinalizer after the last one are enough.
THEOREM AppAlwaysGuarded == Spec => []AppGuarded
  <1>1. AppGuardedInv => AppGuarded
    BY DEF AppGuardedInv
  <1> QED BY <1>1, GuardInvariant, PTL

-----------------------------------------------------------------------------
(* Consequences *)

\* Who changes an Application, and how.
LEMMA AppChanges ==
    ASSUME TypeOK, [Next]_vars, NEW c \in Claims
    PROVE  \/ app'[c] = app[c]
           \/ "app_delete" \in Env /\ app'[c] = DeletedApp(app[c])
           \/ /\ cw.pc = "deleteApp" /\ cw.key = c
              /\ app[c].live /\ app'[c] = DeletedApp(app[c])
           \/ cw.pc = "app" /\ app'[c] = RenderedApp(app[c], cw.obj)
           \/ app[c].del /\ app'[c] = AbsentApp /\ workload'[c] = None
  <1>a. app \in [Claims -> AppSet] /\ workload \in [Claims -> Teams \cup {None}]
    BY DEF TypeOK, ClusterTypeOK
  <1>1. CASE UNCHANGED vars
    BY <1>1 DEF vars
  <1>2. CASE UserNext
    BY <1>2, <1>a DEF UserNext, CreateTenant, EditTenant, DeleteTenant,
       CreateClaim, AdmitClaim, PersistClaim, EditClaim, DeleteClaim,
       DeleteAppByHand, DeleteChildByHand, PutApp, argo
  <1>3. CASE ClaimNext
    <2>1. ASSUME NEW d \in Claims, ClaimReconcile(d) PROVE app' = app
      BY <2>1 DEF ClaimReconcile, argo
    <2>2. ASSUME NEW out \in Outcomes, ClaimEnsureArgoApplication(out)
          PROVE  \/ app'[c] = app[c]
                 \/ cw.pc = "app" /\ app'[c] = RenderedApp(app[c], cw.obj)
      BY <2>2, <1>a DEF ClaimEnsureArgoApplication, PutApp
    <2>3. ASSUME NEW out \in Outcomes, ClaimDeleteApp(out)
          PROVE  \/ app'[c] = app[c]
                 \/ /\ cw.pc = "deleteApp" /\ cw.key = c
                    /\ app[c].live /\ app'[c] = DeletedApp(app[c])
      BY <2>3, <1>a DEF ClaimDeleteApp, PutApp
    <2>4. ASSUME NEW out \in Outcomes, ClaimStep(out),
                 ~ClaimEnsureArgoApplication(out), ~ClaimDeleteApp(out)
          PROVE  app' = app
      BY <2>4 DEF ClaimStep, ClaimEnsureFinalizer, ClaimGate, ClaimPatchStatus,
         ClaimGetApp, ClaimPatchDeleting, ClaimPatchDrained, ClaimRelease, argo
    <2> QED BY <1>3, <2>1, <2>2, <2>3, <2>4 DEF ClaimNext
  <1>4. CASE TenantNext
    BY <1>4 DEF TenantNext, TenantReconcile, TenantStep, TenantEnsureFinalizer,
       TenantEnsureNamespace, TenantEnsureRoleBinding, TenantEnsureQuota,
       TenantRemoveQuota, TenantPatchStatus, TenantListClaims,
       TenantPatchBlocked, TenantPatchDrained, TenantDeleteNamespace,
       TenantRelease, argo
  <1>5. CASE WatchNext
    BY <1>5 DEF WatchNext, DeliverClaim, DeliverTenant, DeliverChild,
       DeliverApp, Resync, argo
  <1>6. CASE ExternalNext
    BY <1>6, <1>a DEF ExternalNext, ArgoSync, ArgoPrune, NamespaceFinalize,
       PutApp
  <1>7. CASE Crash
    BY <1>7 DEF Crash
  <1> QED BY <1>1, <1>2, <1>3, <1>4, <1>5, <1>6, <1>7 DEF Next

\* Only ArgoCD starts a workload, and for an Application that exists.
LEMMA WorkloadChanges ==
    ASSUME TypeOK, [Next]_vars, NEW c \in Claims, workload'[c] # None
    PROVE  workload[c] # None \/ app[c].live
  <1>a. workload \in [Claims -> Teams \cup {None}]
    BY DEF TypeOK, ClusterTypeOK
  <1>1. CASE ExternalNext
    BY <1>1, <1>a DEF ExternalNext, ArgoSync, ArgoPrune, NamespaceFinalize
  <1>2. CASE UserNext
    BY <1>2 DEF UserNext, CreateTenant, EditTenant, DeleteTenant,
       CreateClaim, AdmitClaim, PersistClaim, EditClaim, DeleteClaim,
       DeleteAppByHand, DeleteChildByHand, argo
  <1>3. CASE ClaimNext
    BY <1>3 DEF ClaimNext, ClaimReconcile, ClaimStep, ClaimEnsureFinalizer,
       ClaimGate, ClaimEnsureArgoApplication, ClaimPatchStatus, ClaimGetApp,
       ClaimDeleteApp, ClaimPatchDeleting, ClaimPatchDrained, ClaimRelease, argo
  <1>4. CASE TenantNext
    BY <1>4 DEF TenantNext, TenantReconcile, TenantStep, TenantEnsureFinalizer,
       TenantEnsureNamespace, TenantEnsureRoleBinding, TenantEnsureQuota,
       TenantRemoveQuota, TenantPatchStatus, TenantListClaims,
       TenantPatchBlocked, TenantPatchDrained, TenantDeleteNamespace,
       TenantRelease, argo
  <1>5. CASE WatchNext \/ Crash \/ UNCHANGED vars
    BY <1>5 DEF WatchNext, DeliverClaim, DeliverTenant, DeliverChild,
       DeliverApp, Resync, Crash, argo, vars
  <1> QED BY <1>1, <1>2, <1>3, <1>4, <1>5 DEF Next

\* If nobody deletes Applications by hand, a service is torn down only for the
\* claim that owns it and only once that claim is being deleted: the copy
\* reconcileDelete works on may be old, and of an earlier incarnation, but then
\* there is no Application to delete.
THEOREM TornDownOnRequest ==
    ASSUME "app_delete" \notin Env
    PROVE  Spec => ServiceTornDownOnRequest
  <1>1. TypeOK /\ AppGuardedInv /\ [Next]_vars =>
           [\A c \in Claims :
              (app[c].live /\ ~app[c].del /\ (app'[c].del \/ ~app'[c].live)) =>
                 /\ Claim(c).live /\ Claim(c).del
                 /\ Claim(c).uid = app[c].owner]_vars
    <2> SUFFICES ASSUME TypeOK, AppGuardedInv, [Next]_vars, NEW c \in Claims,
                        app[c].live, ~app[c].del, app'[c].del \/ ~app'[c].live
                 PROVE  /\ Claim(c).live /\ Claim(c).del
                        /\ Claim(c).uid = app[c].owner
      OBVIOUS
    <2>1. app[c] \in AppSet
      BY DEF TypeOK, ClusterTypeOK
    <2>2. RenderedApp(app[c], cw.obj).live
          /\ RenderedApp(app[c], cw.obj).del = app[c].del
      BY <2>1 DEF RenderedApp, AppSet
    <2>3. cw.pc = "deleteApp" /\ cw.key = c
      BY <2>2, AppChanges
    <2>4. Condemned(claimLog[c])
      BY <2>3 DEF AppGuardedInv, ClaimWorkerInv, ClaimDeletePcs
    <2>5. Claim(c).live /\ Claim(c).fin /\ Claim(c).uid = app[c].owner
      BY DEF AppGuardedInv, AppGuarded
    <2>6. Len(claimLog[c]) \in 1..Len(claimLog[c])
      BY DEF TypeOK, ClusterTypeOK
    <2> QED BY <2>4, <2>5, <2>6 DEF Condemned, Claim, Stored
  <1>2. Spec => [](TypeOK /\ AppGuardedInv)
    BY TypeInit, TypeStep, GuardInit, GuardStep, PTL DEF Spec
  <1>3. Spec => [][Next]_vars
    BY PTL DEF Spec
  <1> QED BY <1>1, <1>2, <1>3, PTL DEF ServiceTornDownOnRequest

\* Every Application the controller renders carries ArgoCD's finalizer.
Cascades == \A c \in Claims : app[c].live => app[c].cascade

\* Running pods always have an Application that prunes them when it goes: the
\* cascade finalizer that ensureArgoApplication renders is never missing while
\* ArgoCD has deployed something.
THEOREM NeverOrphaned == Spec => []WorkloadNotOrphaned
  <1> DEFINE I == Cascades /\ WorkloadNotOrphaned
  <1>1. Init => I
    BY DEF Init, ClusterInit, Cascades, WorkloadNotOrphaned, AbsentApp
  <1>2. TypeOK /\ I /\ [Next]_vars => I'
    <2> SUFFICES ASSUME TypeOK, I, [Next]_vars PROVE I'
      OBVIOUS
    <2>a. /\ app \in [Claims -> AppSet]
          /\ workload \in [Claims -> Teams \cup {None}]
      BY DEF TypeOK, ClusterTypeOK
    <2>1. ASSUME NEW c \in Claims
          PROVE  /\ app'[c].live => app'[c].cascade
                 /\ app[c].live => \/ app'[c].live
                                   \/ workload'[c] = None
      <3>1. app[c] \in AppSet /\ (app[c].live => app[c].cascade)
        BY <2>a DEF Cascades
      <3>2. /\ RenderedApp(app[c], cw.obj).live
            /\ RenderedApp(app[c], cw.obj).cascade
            /\ ~AbsentApp.live
        BY <3>1 DEF RenderedApp, AppSet, AbsentApp
      <3>3. /\ DeletedApp(app[c]).live => app[c].live /\ DeletedApp(app[c]).cascade
            /\ app[c].live => DeletedApp(app[c]).live
        BY <3>1 DEF DeletedApp, AppSet, AbsentApp
      <3> QED BY <3>1, <3>2, <3>3, AppChanges
    <2>2. ASSUME NEW c \in Claims, workload'[c] # None PROVE app'[c].live
      <3>1. workload[c] # None => app[c].live
        BY DEF WorkloadNotOrphaned
      <3>2. workload[c] # None \/ app[c].live
        BY <2>a, <2>2, WorkloadChanges
      <3> QED BY <2>1, <2>2, <3>1, <3>2
    <2> QED BY <2>1, <2>2 DEF Cascades, WorkloadNotOrphaned
  <1> QED BY <1>1, <1>2, TypeInit, TypeStep, PTL DEF Spec

-----------------------------------------------------------------------------
(* ReadyMeansRendered, by the invariant RenderedInv *)

\* What RenderedInv says of one claim, stored as o, and its Application a.
ClaimRendered(o, a) ==
    /\ o.live /\ ~o.del /\ IsStatusConditionTrue(o.status, "Ready")
       /\ o.status.og = o.gen => a.live /\ a = RenderedApp(a, o)
    /\ o.live /\ ~o.del => o.status.og <= o.gen
    /\ a.del => a.live /\ o.live /\ o.del

\* What it says of a reconcile w of that claim.
WorkerRendered(w, o, a) ==
    /\ w.pc \in ClaimMainPcs => ~a.del /\ w.obj.status.og <= w.obj.gen
    /\ w.pc \in {"gate", "app", "status"} =>
          /\ o.live /\ o.fin /\ o.uid = w.obj.uid
          /\ o.status = w.obj.status
          /\ w.obj.gen <= o.gen
          /\ w.obj.gen = o.gen => o.team = w.obj.team /\ o.img = w.obj.img
    /\ /\ w.pc = "status"
       /\ IsStatusConditionTrue(w.st, "TenantReady")
       /\ IsStatusConditionTrue(w.st, "ArgoAppCreated")
       => a.live /\ a = RenderedApp(a, w.obj)
    /\ w.pc \in ClaimDeletePcs => o.live /\ o.del

LEMMA RenderedParts ==
    RenderedInv <=> /\ \A c \in Claims : ClaimRendered(Claim(c), app[c])
                    /\ cw.pc # "idle" =>
                          WorkerRendered(cw, Claim(cw.key), app[cw.key])
  BY Zenon DEF RenderedInv, ReadyMeansRendered, RenderWorkerInv, ClaimRendered,
     WorkerRendered

\* The same after a step.
LEMMA RenderedPartsNext ==
    ASSUME \A c \in Claims : ClaimRendered(Claim(c)', app'[c]),
           cw'.pc # "idle" =>
              \E c \in Claims : /\ c = cw'.key
                                /\ WorkerRendered(cw', Claim(c)', app'[c])
    PROVE  RenderedInv'
  BY DEF RenderedInv, ReadyMeansRendered, RenderWorkerInv, ClaimRendered,
     WorkerRendered, IsStatusConditionTrue, RenderedApp, ClaimMainPcs,
     ClaimDeletePcs, Claim

\* The fields the argument is about, with their types.
LEMMA SpecFields ==
    ASSUME NEW o \in ClaimSet
    PROVE  /\ o.gen \in Nat /\ o.status.og \in Nat
           /\ o.status \in StatusSet(ClaimConds)
  BY DEF ClaimSet, StatusSet

\* RenderedApp depends on the claim's identity and spec.
LEMMA RenderedAppSame ==
    ASSUME NEW a, NEW o, NEW n, o.uid = n.uid, o.team = n.team, o.img = n.img
    PROVE  RenderedApp(a, o) = RenderedApp(a, n)
  BY DEF RenderedApp

LEMMA RenderedAppFields ==
    ASSUME NEW a \in AppSet, NEW o
    PROVE  /\ RenderedApp(a, o).live /\ RenderedApp(a, o).del = a.del
           /\ RenderedApp(RenderedApp(a, o), o) = RenderedApp(a, o)
  BY DEF RenderedApp, AppSet

-----------------------------------------------------------------------------
(* What users do to a claim, for the claim and for a reconcile of it *)

LEMMA NewRendered ==
    ASSUME NEW o \in ClaimSet, NEW a, NEW w, NEW n, NEW u, NEW t, NEW img,
           ~o.live, a.live => o.live, n = NewClaim(u, t, img),
           ClaimRendered(o, a)
    PROVE  /\ ClaimRendered(n, a)
           /\ WorkerRendered(w, o, a) => WorkerRendered(w, n, a)
  <1>1. ~IsStatusConditionTrue(n.status, "Ready") /\ n.status.og = 0
    BY DEF NewClaim, AbsentClaim, NoStatus, IsStatusConditionTrue, TrueReasons,
       ClaimConds
  <1>2. n.gen = 1
    BY DEF NewClaim, AbsentClaim
  <1>3. ClaimRendered(n, a)
    BY <1>1, <1>2 DEF ClaimRendered
  <1>4. WorkerRendered(w, o, a) => WorkerRendered(w, n, a)
    BY DEF WorkerRendered
  <1> QED BY <1>3, <1>4

LEMMA EditRendered ==
    ASSUME NEW o \in ClaimSet, NEW a, NEW w, NEW n, NEW t, NEW img,
           n = [o EXCEPT !.team = t, !.img = img, !.gen = @ + 1],
           ClaimRendered(o, a), w.obj.gen \in Nat
    PROVE  /\ ClaimRendered(n, a)
           /\ WorkerRendered(w, o, a) => WorkerRendered(w, n, a)
  <1>1. /\ n.live = o.live /\ n.del = o.del /\ n.fin = o.fin /\ n.uid = o.uid
        /\ n.status = o.status /\ n.gen = o.gen + 1
    BY DEF ClaimSet
  <1>2. o.gen \in Nat /\ o.status.og \in Nat
    BY SpecFields
  <1>3. ClaimRendered(n, a)
    BY <1>1, <1>2 DEF ClaimRendered
  <1>4. WorkerRendered(w, o, a) => WorkerRendered(w, n, a)
    BY <1>1, <1>2 DEF WorkerRendered
  <1> QED BY <1>3, <1>4

LEMMA DeleteRendered ==
    ASSUME NEW o \in ClaimSet, NEW a, NEW w, NEW n,
           n = Deleted(o, AbsentClaim(o.uid)), o.live, ~o.del,
           a.live => o.fin, ClaimRendered(o, a), w.obj.gen \in Nat
    PROVE  /\ ClaimRendered(n, a)
           /\ WorkerRendered(w, o, a) => WorkerRendered(w, n, a)
  <1>1. CASE o.fin
    <2>1. /\ n.live = o.live /\ n.del /\ n.fin = o.fin /\ n.uid = o.uid
          /\ n.status = o.status /\ n.gen = o.gen + 1
      BY <1>1 DEF Deleted, ClaimSet
    <2>2. o.gen \in Nat
      BY SpecFields
    <2>3. ClaimRendered(n, a)
      BY <2>1 DEF ClaimRendered
    <2>4. WorkerRendered(w, o, a) => WorkerRendered(w, n, a)
      BY <2>1, <2>2 DEF WorkerRendered
    <2> QED BY <2>3, <2>4
  <1>2. CASE ~o.fin
    <2>1. ~n.live
      BY <1>2 DEF Deleted, AbsentClaim
    <2>2. ClaimRendered(n, a)
      BY <1>2, <2>1 DEF ClaimRendered
    <2>3. WorkerRendered(w, o, a) => WorkerRendered(w, n, a)
      BY <1>2, <2>1 DEF WorkerRendered
    <2> QED BY <2>2, <2>3
  <1> QED BY <1>1, <1>2

-----------------------------------------------------------------------------
(* Steps of anyone but the worker *)

\* One claim or its Application changes.
LEMMA OneRendered ==
    ASSUME TypeOK, RenderedInv, NEW c \in Claims, cw' = cw,
           \A d \in Claims : d # c => Claim(d)' = Claim(d) /\ app'[d] = app[d],
           ClaimRendered(Claim(c)', app'[c]),
           cw.pc # "idle" /\ cw.key = c =>
              WorkerRendered(cw, Claim(c)', app'[c])
    PROVE  RenderedInv'
  <1>1. \A d \in Claims : ClaimRendered(Claim(d)', app'[d])
    BY RenderedParts
  <1>2. ASSUME cw'.pc # "idle"
        PROVE  \E d \in Claims : /\ d = cw'.key
                                 /\ WorkerRendered(cw', Claim(d)', app'[d])
    <2>1. cw.pc # "idle" /\ cw.key \in Claims
      BY <1>2, ClaimWorkerTypes
    <2>2. PICK d \in Claims : d = cw.key
      BY <2>1
    <2>3. WorkerRendered(cw, Claim(d), app[d])
      BY <2>1, <2>2, RenderedParts
    <2>4. WorkerRendered(cw, Claim(d)', app'[d])
      BY <2>1, <2>2, <2>3
    <2> QED BY <2>2, <2>4
  <1> QED BY <1>1, <1>2, RenderedPartsNext

LEMMA SameRendered ==
    ASSUME TypeOK, RenderedInv, UNCHANGED <<app, cw>>,
           \A d \in Claims : Claim(d)' = Claim(d)
    PROVE  RenderedInv'
  <1>1. \A d \in Claims : ClaimRendered(Claim(d)', app'[d])
    BY RenderedParts
  <1>2. ASSUME cw'.pc # "idle"
        PROVE  \E d \in Claims : /\ d = cw'.key
                                 /\ WorkerRendered(cw', Claim(d)', app'[d])
    <2>1. cw.pc # "idle" /\ cw.key \in Claims
      BY <1>2, ClaimWorkerTypes
    <2>2. PICK d \in Claims : d = cw.key
      BY <2>1
    <2>3. WorkerRendered(cw, Claim(d), app[d])
      BY <2>1, <2>2, RenderedParts
    <2> QED BY <2>2, <2>3
  <1> QED BY <1>1, <1>2, RenderedPartsNext

\* What a write leaves in etcd.
LEMMA PutStored ==
    ASSUME TypeOK, NEW c \in Claims, NEW v \in ClaimSet, PutClaim(c, v)
    PROVE  Claim(c)' = v /\ \A d \in Claims : d # c => Claim(d)' = Claim(d)
  <1>1. /\ claimLog \in [Claims -> Seq(ClaimSet)]
        /\ claimLog[c] \in Seq(ClaimSet) /\ Len(claimLog[c]) >= 1
    BY DEF TypeOK, ClusterTypeOK
  <1>2. /\ claimLog'[c] = Written(claimLog[c], v)
        /\ \A d \in Claims : d # c => claimLog'[d] = claimLog[d]
    BY <1>1 DEF PutClaim
  <1>3. Stored(Written(claimLog[c], v)) = v
    BY <1>1, LogWritten
  <1> QED BY <1>2, <1>3 DEF Claim

\* A user's write to a claim.
LEMMA PutRendered ==
    ASSUME TypeOK, RenderedInv, NEW c \in Claims, NEW v \in ClaimSet,
           PutClaim(c, v), UNCHANGED <<app, cw>>,
           ClaimRendered(v, app[c]),
           WorkerRendered(cw, Claim(c), app[c]) => WorkerRendered(cw, v, app[c])
    PROVE  RenderedInv'
  <1>1. Claim(c)' = v /\ \A d \in Claims : d # c => Claim(d)' = Claim(d)
    BY PutStored
  <1>2. cw.pc # "idle" /\ cw.key = c => WorkerRendered(cw, Claim(c), app[c])
    BY RenderedParts
  <1>3. ClaimRendered(Claim(c)', app'[c])
    BY <1>1
  <1>4. cw.pc # "idle" /\ cw.key = c => WorkerRendered(cw, Claim(c)', app'[c])
    BY <1>1, <1>2
  <1> QED BY <1>1, <1>3, <1>4, OneRendered

LEMMA RenderedInit == Init => RenderedInv
  <1> SUFFICES ASSUME Init PROVE RenderedInv
    OBVIOUS
  <1>1. ASSUME NEW c \in Claims PROVE ~Claim(c).live /\ ~app[c].del
    BY DEF Init, ClusterInit, Claim, Stored, AbsentClaim, AbsentApp
  <1>2. cw.pc = "idle"
    BY DEF Init, IdleClaimWorker
  <1>3. \A c \in Claims : ClaimRendered(Claim(c), app[c])
    BY <1>1 DEF ClaimRendered
  <1> QED BY <1>2, <1>3, RenderedParts

LEMMA RenderedUser ==
    ASSUME TypeOK, AppGuardedInv, RenderedInv, "app_delete" \notin Env, UserNext
    PROVE  RenderedInv'
  <1>1. ASSUME NEW c \in Claims
        PROVE  /\ Claim(c) \in ClaimSet /\ Claim(c).uid \in Nat
               /\ ClaimRendered(Claim(c), app[c])
               /\ app[c].live => Claim(c).live /\ Claim(c).fin
               /\ cw.obj.gen \in Nat
    <2>1. Claim(c) \in ClaimSet /\ Claim(c).uid \in Nat
      BY StoredTypes, VersionFields DEF TypeOK
    <2>2. cw.obj \in ClaimSet
      BY DEF TypeOK, ClaimWorkerTypeOK
    <2>3. cw.obj.gen \in Nat
      BY <2>2, SpecFields
    <2> QED BY <2>1, <2>3, RenderedParts DEF AppGuardedInv, AppGuarded
  <1>2. ASSUME UNCHANGED <<claimLog, app, cw>> PROVE RenderedInv'
    BY <1>2, SameRendered DEF Claim
  <1>3. ASSUME NEW t \in Teams, NEW res,
               CreateTenant(t, res) \/ EditTenant(t, res) \/ DeleteTenant(t)
        PROVE  RenderedInv'
    BY <1>2, <1>3 DEF CreateTenant, EditTenant, DeleteTenant, argo, workers
  <1>4. ASSUME NEW c \in Claims, NEW t \in Teams, NEW img \in Images,
               CreateClaim(c, t, img)
        PROVE  RenderedInv'
    <2> DEFINE v == NewClaim(Claim(c).uid + 1, t, img)
    <2>1. v \in ClaimSet
      BY <1>1, NewTypes
    <2>2. ~Claim(c).live /\ PutClaim(c, v) /\ UNCHANGED <<app, cw>>
      BY <1>4 DEF CreateClaim, argo, workers
    <2>3. /\ ClaimRendered(v, app[c])
          /\ WorkerRendered(cw, Claim(c), app[c]) => WorkerRendered(cw, v, app[c])
      BY <1>1, <2>2, NewRendered
    <2> HIDE DEF v
    <2> QED BY <2>1, <2>2, <2>3, PutRendered
  <1>5. ASSUME NEW c \in Claims, PersistClaim(c)
        PROVE  RenderedInv'
    <2> DEFINE v == NewClaim(Claim(c).uid + 1, admitted[c].team, admitted[c].img)
    <2>1. admitted[c].team \in Teams /\ admitted[c].img \in Images
      BY <1>5 DEF PersistClaim, TypeOK, ClusterTypeOK
    <2>a. Claim(c).uid + 1 \in Nat
      BY <1>1
    <2>2. v \in ClaimSet
      BY <2>1, <2>a, NewTypes
    <2>3. ~Claim(c).live /\ PutClaim(c, v) /\ UNCHANGED <<app, cw>>
      BY <1>5 DEF PersistClaim, argo, workers
    <2>4. /\ ClaimRendered(v, app[c])
          /\ WorkerRendered(cw, Claim(c), app[c]) => WorkerRendered(cw, v, app[c])
      BY <1>1, <2>3, NewRendered
    <2> HIDE DEF v
    <2> QED BY <2>2, <2>3, <2>4, PutRendered
  <1>6. ASSUME NEW c \in Claims, NEW t \in Teams, NEW img \in Images,
               EditClaim(c, t, img)
        PROVE  RenderedInv'
    <2> DEFINE v == [Claim(c) EXCEPT !.team = t, !.img = img, !.gen = @ + 1]
    <2>1. v \in ClaimSet
      BY <1>1, ClaimEditType
    <2>2. PutClaim(c, v) /\ UNCHANGED <<app, cw>>
      BY <1>6 DEF EditClaim, argo, workers
    <2>3. /\ ClaimRendered(v, app[c])
          /\ WorkerRendered(cw, Claim(c), app[c]) => WorkerRendered(cw, v, app[c])
      BY <1>1, EditRendered
    <2> HIDE DEF v
    <2> QED BY <2>1, <2>2, <2>3, PutRendered
  <1>7. ASSUME NEW c \in Claims, DeleteClaim(c)
        PROVE  RenderedInv'
    <2> DEFINE v == Deleted(Claim(c), AbsentClaim(Claim(c).uid))
    <2>1. v \in ClaimSet
      BY <1>1, ClaimDeleteType
    <2>2. /\ PutClaim(c, v) /\ UNCHANGED <<app, cw>>
          /\ Claim(c).live /\ ~Claim(c).del
      BY <1>7 DEF DeleteClaim, argo, workers
    <2>3. /\ ClaimRendered(v, app[c])
          /\ WorkerRendered(cw, Claim(c), app[c]) => WorkerRendered(cw, v, app[c])
      BY <1>1, <2>2, DeleteRendered
    <2> HIDE DEF v
    <2> QED BY <2>1, <2>2, <2>3, PutRendered
  <1>8. ASSUME NEW c \in Claims, NEW t \in Teams, NEW img \in Images,
               AdmitClaim(c, t, img)
        PROVE  RenderedInv'
    BY <1>2, <1>8 DEF AdmitClaim, argo, workers
  <1>9. ASSUME NEW t \in Teams, NEW k \in Kinds, DeleteChildByHand(t, k)
        PROVE  RenderedInv'
    BY <1>2, <1>9 DEF DeleteChildByHand, argo
  <1> QED BY <1>3, <1>4, <1>5, <1>6, <1>7, <1>8, <1>9
      DEF UserNext, DeleteAppByHand

LEMMA RenderedTenant ==
    ASSUME TypeOK, RenderedInv, TenantNext
    PROVE  RenderedInv'
  <1>1. ASSUME NEW t \in Teams, TenantReconcile(t)
        PROVE  UNCHANGED <<claimLog, app, cw>>
    BY <1>1 DEF TenantReconcile, argo
  <1>2. ASSUME NEW out \in Outcomes, TenantStep(out)
        PROVE  UNCHANGED <<claimLog, app, cw>>
    BY <1>2 DEF TenantStep, TenantEnsureFinalizer, TenantEnsureNamespace,
       TenantEnsureRoleBinding, TenantEnsureQuota, TenantRemoveQuota,
       TenantPatchStatus, TenantListClaims, TenantPatchBlocked,
       TenantPatchDrained, TenantDeleteNamespace, TenantRelease, argo
  <1> QED BY <1>1, <1>2, SameRendered DEF TenantNext, Claim

LEMMA RenderedWatch ==
    ASSUME TypeOK, RenderedInv, WatchNext
    PROVE  RenderedInv'
  <1>1. ASSUME NEW c \in Claims, DeliverClaim(c)
        PROVE  RenderedInv'
    <2>1. ASSUME NEW d \in Claims PROVE Claim(d)' = Claim(d)
      <3>1. /\ claimLog \in [Claims -> Seq(ClaimSet)]
            /\ claimLog[d] \in Seq(ClaimSet)
        BY DEF TypeOK, ClusterTypeOK
      <3>2. \/ claimLog'[d] = claimLog[d]
            \/ claimLog'[d] = Tail(claimLog[d]) /\ Len(claimLog[d]) > 1
        BY <1>1, <3>1 DEF DeliverClaim
      <3>3. Len(claimLog[d]) > 1 => Stored(Tail(claimLog[d])) = Stored(claimLog[d])
        BY <3>1, LogTail
      <3> QED BY <3>2, <3>3 DEF Claim
    <2> QED BY <1>1, <2>1, SameRendered DEF DeliverClaim, argo, workers
  <1>2. ASSUME NEW c \in Claims, DeliverApp(c) \/ Resync(c)
        PROVE  UNCHANGED <<claimLog, app, cw>>
    BY <1>2 DEF DeliverApp, Resync, argo, workers
  <1>3. ASSUME NEW t \in Teams, NEW out, DeliverTenant(t, out)
        PROVE  UNCHANGED <<claimLog, app, cw>>
    BY <1>3 DEF DeliverTenant, argo, workers
  <1>4. ASSUME NEW t \in Teams, NEW k \in Kinds, DeliverChild(t, k)
        PROVE  UNCHANGED <<claimLog, app, cw>>
    BY <1>4 DEF DeliverChild, argo, workers
  <1> QED BY <1>1, <1>2, <1>3, <1>4, SameRendered DEF WatchNext, Claim

\* ArgoCD takes an Application away only once its claim is being deleted, and
\* then no reconcile is about to report it.
LEMMA RenderedExternal ==
    ASSUME TypeOK, RenderedInv, ExternalNext
    PROVE  RenderedInv'
  <1>1. ASSUME NEW c \in Claims, ArgoSync(c)
        PROVE  UNCHANGED <<claimLog, app, cw>>
    BY <1>1 DEF ArgoSync, workers
  <1>2. ASSUME NEW t \in Teams, NamespaceFinalize(t)
        PROVE  UNCHANGED <<claimLog, app, cw>>
    BY <1>2 DEF NamespaceFinalize, workers
  <1>3. ASSUME NEW c \in Claims, ArgoPrune(c)
        PROVE  RenderedInv'
    <2>1. /\ app[c].del /\ app'[c] = AbsentApp /\ cw' = cw
          /\ \A d \in Claims : Claim(d)' = Claim(d)
          /\ \A d \in Claims : d # c => app'[d] = app[d]
      BY <1>3 DEF ArgoPrune, PutApp, TypeOK, ClusterTypeOK, workers, Claim
    <2>2. ~AbsentApp.del
      BY DEF AbsentApp
    <2>3. Claim(c).del
      BY <2>1 DEF RenderedInv
    <2>4. ClaimRendered(Claim(c)', app'[c])
      BY <2>1, <2>2, <2>3 DEF ClaimRendered
    <2>5. ASSUME cw.pc # "idle", cw.key = c
          PROVE  WorkerRendered(cw, Claim(c)', app'[c])
      <3>1. WorkerRendered(cw, Claim(c), app[c])
        BY <2>5, RenderedParts
      <3> QED BY <2>1, <2>2, <3>1 DEF WorkerRendered, ClaimMainPcs
    <2> QED BY <2>1, <2>4, <2>5, OneRendered
  <1> QED BY <1>1, <1>2, <1>3, SameRendered DEF ExternalNext, Claim

LEMMA RenderedCrash ==
    ASSUME TypeOK, RenderedInv, Crash
    PROVE  RenderedInv'
  <1>1. ASSUME NEW c \in Claims PROVE Claim(c)' = Claim(c)
    BY DEF Crash, Claim, Stored
  <1>2. app' = app /\ cw'.pc = "idle"
    BY DEF Crash, IdleClaimWorker
  <1>3. \A c \in Claims : ClaimRendered(Claim(c)', app'[c])
    BY <1>1, <1>2, RenderedParts
  <1> QED BY <1>2, <1>3, RenderedPartsNext

-----------------------------------------------------------------------------
(* Steps of the worker *)

\* A step of the worker at its key.
LEMMA WorkerStepRendered ==
    ASSUME TypeOK, RenderedInv, NEW c \in Claims,
           \A d \in Claims : d # c => Claim(d)' = Claim(d) /\ app'[d] = app[d],
           ClaimRendered(Claim(c)', app'[c]),
           \/ cw'.pc = "idle"
           \/ cw'.key = c /\ WorkerRendered(cw', Claim(c)', app'[c])
    PROVE  RenderedInv'
  <1>1. \A d \in Claims : ClaimRendered(Claim(d)', app'[d])
    BY RenderedParts
  <1> QED BY <1>1, RenderedPartsNext

\* A fresh cache: the reconcile starts from what etcd holds.
LEMMA RenderedReconcile ==
    ASSUME TypeOK, RenderedInv, "ServiceClaim" \notin Lagging,
           NEW c \in Claims, ClaimReconcile(c)
    PROVE  RenderedInv'
  <1> DEFINE claim == Claim(c)
  <1>1. UNCHANGED <<claimLog, app>>
    BY DEF ClaimReconcile, argo
  <1>2. Cached(claimLog[c]) = claim
    BY DEF ClaimReconcile, Settled, Cached, Claim, Stored
  <1>3. claim \in ClaimSet /\ claim.gen \in Nat /\ ClaimRendered(claim, app[c])
    BY StoredTypes, SpecFields, RenderedParts DEF TypeOK
  <1>4. \/ cw' = cw
        \/ claim.live /\ claim.del /\ cw'.pc = "getApp" /\ cw'.key = c
        \/ /\ claim.live /\ ~claim.del /\ cw'.key = c /\ cw'.obj = claim
           /\ \/ cw'.pc = "finalizer"
              \/ cw'.pc = "gate" /\ claim.fin
    <2> DEFINE copy == Cached(claimLog[c])
    <2>1. \/ cw' = cw
          \/ copy.live /\ copy.del /\ copy.fin /\ cw'.pc = "getApp"
             /\ cw'.key = c
          \/ copy.live /\ ~copy.del /\ copy.fin /\ cw'.pc = "gate"
             /\ cw'.key = c /\ cw'.obj = copy
          \/ copy.live /\ ~copy.del /\ ~copy.fin /\ cw'.pc = "finalizer"
             /\ cw'.key = c /\ cw'.obj = copy
      BY DEF ClaimReconcile, ClaimFirstStep
    <2> HIDE DEF claim, copy
    <2>2. copy = claim
      BY <1>2 DEF copy
    <2> QED BY <2>1, <2>2
  <1> HIDE DEF claim
  <1>5. \A d \in Claims : Claim(d)' = Claim(d) /\ app'[d] = app[d]
    BY <1>1 DEF Claim
  <1>6. CASE cw' = cw
    BY <1>1, <1>5, <1>6, SameRendered
  <1>7. CASE claim.live /\ claim.del /\ cw'.pc = "getApp" /\ cw'.key = c
    <2>1. WorkerRendered(cw', claim, app[c])
      BY <1>7 DEF WorkerRendered, ClaimMainPcs
    <2>2. WorkerRendered(cw', Claim(c)', app'[c]) /\ ClaimRendered(Claim(c)', app'[c])
      BY <1>3, <1>5, <2>1 DEF claim
    <2> QED BY <1>5, <1>7, <2>2, WorkerStepRendered
  <1>8. CASE /\ claim.live /\ ~claim.del /\ cw'.key = c /\ cw'.obj = claim
             /\ \/ cw'.pc = "finalizer"
                \/ cw'.pc = "gate" /\ claim.fin
    <2>1. ~app[c].del /\ claim.status.og <= claim.gen
      BY <1>3, <1>8 DEF ClaimRendered
    <2>2. WorkerRendered(cw', claim, app[c])
      BY <1>3, <1>8, <2>1 DEF WorkerRendered, ClaimDeletePcs
    <2>3. WorkerRendered(cw', Claim(c)', app'[c]) /\ ClaimRendered(Claim(c)', app'[c])
      BY <1>3, <1>5, <2>2 DEF claim
    <2> QED BY <1>5, <1>8, <2>3, WorkerStepRendered
  <1> QED BY <1>4, <1>6, <1>7, <1>8

\* ensureFinalizer: the copy is what etcd holds, or nothing is written.
LEMMA RenderedFinalizer ==
    ASSUME TypeOK, AppGuardedInv, RenderedInv, NEW out, ClaimEnsureFinalizer(out)
    PROVE  RenderedInv'
  <1>0. cw.pc = "finalizer" /\ cw.pc # "idle" /\ app' = app
    BY DEF ClaimEnsureFinalizer, argo
  <1>1. PICK c \in Claims : c = cw.key
    BY <1>0, ClaimWorkerTypes
  <1>2. PICK v : v = [cw.obj EXCEPT !.fin = TRUE]
    OBVIOUS
  <1>3. cw.obj \in ClaimSet /\ v \in ClaimSet /\ cw.obj.live
    <2>1. cw.obj \in ClaimSet /\ cw.obj.live
      BY <1>0, ClaimWorkerTypes DEF AppGuardedInv, ClaimWorkerInv
    <2> QED BY <1>2, <2>1 DEF ClaimSet
  <1>4. ClaimRendered(Claim(c), app[c]) /\ WorkerRendered(cw, Claim(c), app[c])
    BY <1>0, <1>1, RenderedParts
  <1>5. CASE UNCHANGED claimLog /\ ClaimDone(TRUE)
    <2>1. \A d \in Claims : Claim(d)' = Claim(d) /\ app'[d] = app[d]
      BY <1>0, <1>5 DEF Claim
    <2>2. cw'.pc = "idle"
      BY <1>5 DEF ClaimDone, IdleClaimWorker
    <2> QED BY <1>4, <2>1, <2>2, WorkerStepRendered
  <1>6. CASE /\ Claim(c) = cw.obj /\ PutClaim(c, v)
             /\ ClaimDone(TRUE) \/ ClaimGoto("gate", v, v.status, FALSE)
    <2>1. Claim(c)' = v /\ \A d \in Claims : d # c => Claim(d)' = Claim(d)
      BY <1>3, <1>6, PutStored
    <2>2. PICK o \in ClaimSet : o = Claim(c)
      BY <1>3, <1>6
    <2>3. /\ v.live = o.live /\ v.del = o.del /\ v.fin /\ v.uid = o.uid
          /\ v.status = o.status /\ v.gen = o.gen /\ v.team = o.team
          /\ v.img = o.img /\ v.gen \in Nat /\ o.live
      BY <1>2, <1>3, <1>6, <2>2 DEF ClaimSet
    <2>4. ClaimRendered(v, app[c])
      BY <1>4, <2>2, <2>3, RenderedAppSame DEF ClaimRendered
    <2>5. CASE ClaimDone(TRUE)
      <3>1. cw'.pc = "idle"
        BY <2>5 DEF ClaimDone, IdleClaimWorker
      <3> QED BY <1>0, <2>1, <2>4, <3>1, WorkerStepRendered
    <2>6. CASE ClaimGoto("gate", v, v.status, FALSE)
      <3>1. cw'.pc = "gate" /\ cw'.key = c /\ cw'.obj = v
        BY <1>1, <2>6, GotoFields
      <3>2. ~app[c].del /\ v.status.og <= v.gen
        BY <1>0, <1>4, <1>6, <2>2, <2>3 DEF WorkerRendered, ClaimMainPcs
      <3>3. WorkerRendered(cw', v, app[c])
        BY <2>3, <3>1, <3>2 DEF WorkerRendered, ClaimDeletePcs
      <3> QED BY <1>0, <2>1, <2>4, <3>1, <3>3, WorkerStepRendered
    <2> QED BY <1>6, <2>5, <2>6
  <1>7. \/ UNCHANGED claimLog /\ ClaimDone(TRUE)
        \/ /\ Claim(cw.key) = cw.obj
           /\ PutClaim(cw.key, [cw.obj EXCEPT !.fin = TRUE])
           /\ \/ ClaimDone(TRUE)
              \/ ClaimGoto("gate", [cw.obj EXCEPT !.fin = TRUE],
                           [cw.obj EXCEPT !.fin = TRUE].status, FALSE)
    BY DEF ClaimEnsureFinalizer, Conflict
  <1> QED BY <1>1, <1>2, <1>5, <1>6, <1>7

\* The conditions that are true of a status after one of them was set.
LEMMA ConditionSet ==
    ASSUME NEW st \in StatusSet(ClaimConds), NEW gen, NEW type \in ClaimConds,
           NEW reason, NEW k \in ClaimConds
    PROVE  IsStatusConditionTrue(SetCondition(st, gen, type, reason), k) <=>
              IF k = type THEN reason \in TrueReasons
              ELSE IsStatusConditionTrue(st, k)
  BY DEF SetCondition, IsStatusConditionTrue, StatusSet

LEMMA GotoStatus ==
    ASSUME TypeOK, NEW pc, NEW obj, NEW st, NEW err, ClaimGoto(pc, obj, st, err)
    PROVE  cw'.st = st
  BY DEF ClaimGoto, TypeOK, ClaimWorkerTypeOK

\* The gate goes past the Application only with TenantReady false.
LEMMA RenderedGate ==
    ASSUME TypeOK, RenderedInv, NEW out, ClaimGate(out)
    PROVE  RenderedInv'
  <1>1. UNCHANGED <<claimLog, app>> /\ cw.pc = "gate" /\ cw.pc # "idle"
    BY DEF ClaimGate, argo
  <1>2. PICK c \in Claims : c = cw.key
    BY <1>1, ClaimWorkerTypes
  <1>3. cw.st \in StatusSet(ClaimConds)
    BY <1>1, ClaimWorkerTypes
  <1>4. ClaimRendered(Claim(c), app[c]) /\ WorkerRendered(cw, Claim(c), app[c])
    BY <1>1, <1>2, RenderedParts
  <1>5. /\ cw'.key = c /\ cw'.obj = cw.obj
        /\ \/ cw'.pc = "app"
           \/ /\ cw'.pc = "status"
              /\ \E reason \in {"TenantError", "TenantNotFound", "TenantNotReady"} :
                    cw'.st = SetCondition(cw.st, cw.obj.gen, "TenantReady", reason)
    BY <1>2, GotoFields, GotoStatus DEF ClaimGate
  <1>6. cw'.pc = "status" => ~IsStatusConditionTrue(cw'.st, "TenantReady")
    <2>1. "TenantReady" \in ClaimConds
      BY DEF ClaimConds
    <2>2. \A reason \in {"TenantError", "TenantNotFound", "TenantNotReady"} :
             reason \notin TrueReasons
      BY DEF TrueReasons
    <2> QED BY <1>3, <1>5, <2>1, <2>2, ConditionSet
  <1>7. \A d \in Claims : Claim(d)' = Claim(d) /\ app'[d] = app[d]
    BY <1>1 DEF Claim
  <1>8. WorkerRendered(cw', Claim(c), app[c])
    BY <1>1, <1>4, <1>5, <1>6 DEF WorkerRendered, ClaimMainPcs, ClaimDeletePcs
  <1>9. WorkerRendered(cw', Claim(c)', app'[c]) /\ ClaimRendered(Claim(c)', app'[c])
    BY <1>4, <1>7, <1>8
  <1> QED BY <1>5, <1>7, <1>9, WorkerStepRendered

\* The Application is rendered from the present spec, or from one that the
\* status is not about any more.
LEMMA RenderedRender ==
    ASSUME TypeOK, RenderedInv, NEW out, ClaimEnsureArgoApplication(out)
    PROVE  RenderedInv'
  <1>1. UNCHANGED claimLog /\ cw.pc = "app" /\ cw.pc # "idle"
    BY DEF ClaimEnsureArgoApplication
  <1>2. PICK c \in Claims : c = cw.key
    BY <1>1, ClaimWorkerTypes
  <1>3. PICK a \in AppSet : a = app[c]
    BY DEF TypeOK, ClusterTypeOK
  <1>4. PICK o \in ClaimSet : o = Claim(c)
    BY StoredTypes DEF TypeOK
  <1>5. PICK w : w = cw
    OBVIOUS
  <1>6. /\ w.st \in StatusSet(ClaimConds) /\ w.obj.gen \in Nat
        /\ w.obj.status \in StatusSet(ClaimConds)
    BY <1>1, <1>5, ClaimWorkerTypes
  <1>7. ClaimRendered(o, a) /\ WorkerRendered(w, o, a) /\ w.pc = "app"
    BY <1>1, <1>2, <1>3, <1>4, <1>5, RenderedParts
  <1>8. /\ cw'.pc = "status" /\ cw'.key = c /\ cw'.obj = w.obj
        /\ \/ /\ out = "ok"
              /\ cw'.st = SetCondition(w.st, w.obj.gen, "ArgoAppCreated",
                                       "ApplicationApplied")
           \/ cw'.st = SetCondition(w.st, w.obj.gen, "ArgoAppCreated",
                                    "ArgoAppError")
    BY <1>2, <1>5, GotoFields, GotoStatus DEF ClaimEnsureArgoApplication
  <1>9. out # "ok" => ~IsStatusConditionTrue(cw'.st, "ArgoAppCreated")
    <2>1. /\ "ArgoAppCreated" \in ClaimConds
          /\ "ArgoAppError" \notin TrueReasons
      BY DEF ClaimConds, TrueReasons
    <2> QED BY <1>6, <1>8, <2>1, ConditionSet
  <1>10. /\ \A d \in Claims : Claim(d)' = Claim(d)
         /\ \A d \in Claims : d # c => app'[d] = app[d]
         /\ \/ app'[c] = a /\ out # "ok"
            \/ app'[c] = RenderedApp(a, w.obj)
    BY <1>1, <1>2, <1>3, <1>5
       DEF ClaimEnsureArgoApplication, PutApp, TypeOK, ClusterTypeOK, Claim
  <1>11. /\ ~a.del /\ o.live /\ o.fin /\ o.uid = w.obj.uid
         /\ o.status = w.obj.status /\ w.obj.gen <= o.gen
         /\ w.obj.status.og <= w.obj.gen
         /\ w.obj.gen = o.gen => o.team = w.obj.team /\ o.img = w.obj.img
    BY <1>7 DEF WorkerRendered, ClaimMainPcs
  <1>12. /\ RenderedApp(a, w.obj).live /\ ~RenderedApp(a, w.obj).del
         /\ RenderedApp(RenderedApp(a, w.obj), w.obj) = RenderedApp(a, w.obj)
    BY <1>11, RenderedAppFields
  <1>13. CASE app'[c] = a /\ out # "ok"
    <2>1. WorkerRendered(cw', o, a)
      BY <1>8, <1>9, <1>11, <1>13
         DEF WorkerRendered, ClaimMainPcs, ClaimDeletePcs
    <2>2. /\ ClaimRendered(Claim(c)', app'[c])
          /\ WorkerRendered(cw', Claim(c)', app'[c])
      BY <1>4, <1>7, <1>10, <1>13, <2>1
    <2> QED BY <1>8, <1>10, <2>2, WorkerStepRendered
  <1>14. CASE app'[c] = RenderedApp(a, w.obj)
    <2>1. PICK n : n = RenderedApp(a, w.obj)
      OBVIOUS
    <2>2. n.live /\ ~n.del /\ RenderedApp(n, w.obj) = n
      BY <1>12, <2>1
    <2>3. WorkerRendered(cw', o, n)
      BY <1>8, <1>11, <2>2 DEF WorkerRendered, ClaimMainPcs, ClaimDeletePcs
    <2>4. o.status.og = o.gen => RenderedApp(n, o) = n
      <3>1. o.gen \in Nat /\ o.status.og \in Nat
        BY SpecFields
      <3>2. o.status.og = o.gen => w.obj.gen = o.gen
        BY <1>6, <1>11, <3>1
      <3> QED BY <1>11, <2>2, <3>2, RenderedAppSame
    <2>5. ClaimRendered(o, n)
      BY <1>7, <2>2, <2>4 DEF ClaimRendered
    <2>6. /\ ClaimRendered(Claim(c)', app'[c])
          /\ WorkerRendered(cw', Claim(c)', app'[c])
      BY <1>4, <1>10, <1>14, <2>1, <2>3, <2>5
    <2> QED BY <1>8, <1>10, <2>6, WorkerStepRendered
  <1> QED BY <1>10, <1>13, <1>14

\* A patch against the stored status replaces it.
LEMMA MergeFresh ==
    ASSUME NEW T, NEW b \in StatusSet(T), NEW n \in StatusSet(T)
    PROVE  MergePatch(b, b, n) = n
  <1>1. PICK m : m = MergePatch(b, b, n)
    OBVIOUS
  <1>2. m \in StatusSet(T)
    BY <1>1, MergePatchType
  <1>3. m.phase = n.phase /\ m.og = n.og /\ m.cgen = n.cgen /\ m.conds = n.conds
    BY <1>1 DEF MergePatch
  <1> QED BY <1>1, <1>2, <1>3 DEF StatusSet

LEMMA AggregateFields ==
    ASSUME NEW st \in StatusSet(ClaimConds), NEW gen \in Nat
    PROVE  /\ ClaimAggregateReady(st, gen).og = gen
           /\ IsStatusConditionTrue(ClaimAggregateReady(st, gen), "Ready") =>
                 /\ IsStatusConditionTrue(st, "TenantReady")
                 /\ IsStatusConditionTrue(st, "ArgoAppCreated")
  BY DEF ClaimAggregateReady, SetCondition, IsStatusConditionTrue, StatusSet,
     ClaimConds, TrueReasons

\* A status patch: what it leaves of the claim.
LEMMA PatchedFields ==
    ASSUME TypeOK, cw.pc # "idle", NEW out, NEW st \in StatusSet(ClaimConds),
           PatchClaim(out, st), NEW c \in Claims, c = cw.key
    PROVE  /\ \A d \in Claims : d # c => Claim(d)' = Claim(d)
           /\ \/ Claim(c)' = Claim(c)
              \/ /\ Claim(c).live /\ Claim(c)' = ClaimPatched(st)
                 /\ Claim(c)' = [Claim(c) EXCEPT !.status =
                                   MergePatch(Claim(c).status, cw.obj.status, st)]
  <1>1. CASE UNCHANGED claimLog
    BY <1>1 DEF Claim
  <1>2. CASE Claim(cw.key).live /\ PutClaim(cw.key, ClaimPatched(st))
    <2>1. ClaimPatched(st) \in ClaimSet
      BY PatchClaimType
    <2>2. PICK v \in ClaimSet : v = ClaimPatched(st)
      BY <2>1
    <2>3. PutClaim(c, v)
      BY <1>2, <2>2
    <2>4. Claim(c)' = v /\ \A d \in Claims : d # c => Claim(d)' = Claim(d)
      BY <2>3, PutStored
    <2> QED BY <1>2, <2>2, <2>4 DEF ClaimPatched
  <1> QED BY <1>1, <1>2 DEF PatchClaim

\* The status that is written is of the generation that was rendered.
LEMMA RenderedStatus ==
    ASSUME TypeOK, RenderedInv, NEW out, ClaimPatchStatus(out)
    PROVE  RenderedInv'
  <1>1. cw.pc = "status" /\ cw.pc # "idle" /\ app' = app /\ cw'.pc = "idle"
    BY DEF ClaimPatchStatus, argo, ClaimDone, IdleClaimWorker
  <1>2. PICK c \in Claims : c = cw.key
    BY <1>1, ClaimWorkerTypes
  <1>3. PICK o \in ClaimSet : o = Claim(c)
    BY StoredTypes DEF TypeOK
  <1>4. PICK w : w = cw
    OBVIOUS
  <1>5. PICK st : st = ClaimAggregateReady(cw.st, cw.obj.gen)
    OBVIOUS
  <1>6. /\ st \in StatusSet(ClaimConds) /\ w.obj.gen \in Nat
        /\ w.obj.status \in StatusSet(ClaimConds)
        /\ st.og = w.obj.gen
        /\ IsStatusConditionTrue(st, "Ready") =>
              /\ IsStatusConditionTrue(w.st, "TenantReady")
              /\ IsStatusConditionTrue(w.st, "ArgoAppCreated")
    BY <1>1, <1>4, <1>5, ClaimWorkerTypes, ClaimAggregateType, AggregateFields
  <1>7. ClaimRendered(o, app[c]) /\ WorkerRendered(w, o, app[c])
    BY <1>1, <1>2, <1>3, <1>4, RenderedParts
  <1>8. /\ \A d \in Claims : d # c => Claim(d)' = Claim(d)
        /\ \/ Claim(c)' = o
           \/ Claim(c)' = [o EXCEPT !.status =
                                MergePatch(o.status, w.obj.status, st)]
    <2>1. PatchClaim(out, st)
      BY <1>5 DEF ClaimPatchStatus
    <2> QED BY <1>1, <1>2, <1>3, <1>4, <1>6, <2>1, PatchedFields
  <1>9. o.status = w.obj.status
    BY <1>1, <1>4, <1>7 DEF WorkerRendered
  <1>10. MergePatch(o.status, w.obj.status, st) = st
    BY <1>6, <1>9, MergeFresh
  <1>11. PICK v : v = [o EXCEPT !.status = st]
    OBVIOUS
  <1>12. /\ v.live = o.live /\ v.del = o.del /\ v.gen = o.gen /\ v.uid = o.uid
         /\ v.team = o.team /\ v.img = o.img /\ v.status = st /\ o.gen \in Nat
    BY <1>11 DEF ClaimSet
  <1>13. ClaimRendered(v, app[c])
    <2>1. /\ o.uid = w.obj.uid /\ w.obj.gen <= o.gen
          /\ w.obj.gen = o.gen => o.team = w.obj.team /\ o.img = w.obj.img
          /\ /\ IsStatusConditionTrue(w.st, "TenantReady")
             /\ IsStatusConditionTrue(w.st, "ArgoAppCreated")
             => app[c].live /\ app[c] = RenderedApp(app[c], w.obj)
      BY <1>1, <1>4, <1>7 DEF WorkerRendered
    <2>2. w.obj.gen = o.gen => RenderedApp(app[c], w.obj) = RenderedApp(app[c], v)
      BY <1>12, <2>1, RenderedAppSame
    <2> QED BY <1>6, <1>7, <1>12, <2>1, <2>2 DEF ClaimRendered
  <1>14. ClaimRendered(Claim(c)', app'[c])
    BY <1>1, <1>7, <1>8, <1>10, <1>11, <1>13
  <1> QED BY <1>1, <1>8, <1>14, WorkerStepRendered

-----------------------------------------------------------------------------
(* The reconcile of a claim that is being deleted *)

LEMMA DoneIdle ==
    ASSUME NEW again, ClaimDone(again)
    PROVE  cw'.pc = "idle"
  BY DEF ClaimDone, IdleClaimWorker

LEMMA RenderedGetApp ==
    ASSUME TypeOK, RenderedInv, NEW out, ClaimGetApp(out)
    PROVE  RenderedInv'
  <1>1. UNCHANGED <<claimLog, app>> /\ cw.pc = "getApp" /\ cw.pc # "idle"
    BY DEF ClaimGetApp, argo
  <1>2. PICK c \in Claims : c = cw.key
    BY <1>1, ClaimWorkerTypes
  <1>3. ClaimRendered(Claim(c), app[c]) /\ Claim(c).live /\ Claim(c).del
    BY <1>1, <1>2, RenderedParts DEF WorkerRendered, ClaimDeletePcs
  <1>4. \A d \in Claims : Claim(d)' = Claim(d) /\ app'[d] = app[d]
    BY <1>1 DEF Claim
  <1>5. \/ cw'.pc = "idle"
        \/ /\ cw'.key = c
           /\ cw'.pc \in {"patchDrained", "deleteApp", "patchDeleting"}
    BY <1>2, GotoFields, DoneIdle DEF ClaimGetApp
  <1>6. \/ cw'.pc = "idle"
        \/ cw'.key = c /\ WorkerRendered(cw', Claim(c), app[c])
    BY <1>3, <1>5 DEF WorkerRendered, ClaimMainPcs
  <1>7. /\ ClaimRendered(Claim(c)', app'[c])
        /\ \/ cw'.pc = "idle"
           \/ cw'.key = c /\ WorkerRendered(cw', Claim(c)', app'[c])
    BY <1>3, <1>4, <1>6
  <1> QED BY <1>4, <1>7, WorkerStepRendered

LEMMA RenderedDeleteApp ==
    ASSUME TypeOK, RenderedInv, NEW out, ClaimDeleteApp(out)
    PROVE  RenderedInv'
  <1>1. UNCHANGED claimLog /\ cw.pc = "deleteApp" /\ cw.pc # "idle"
    BY DEF ClaimDeleteApp
  <1>2. PICK c \in Claims : c = cw.key
    BY <1>1, ClaimWorkerTypes
  <1>3. ClaimRendered(Claim(c), app[c]) /\ Claim(c).live /\ Claim(c).del
    BY <1>1, <1>2, RenderedParts DEF WorkerRendered, ClaimDeletePcs
  <1>4. /\ \A d \in Claims : Claim(d)' = Claim(d)
        /\ \A d \in Claims : d # c => app'[d] = app[d]
        /\ \/ app'[c] = app[c]
           \/ app[c].live /\ app'[c] = DeletedApp(app[c])
    BY <1>1, <1>2 DEF ClaimDeleteApp, PutApp, TypeOK, ClusterTypeOK, Claim
  <1>5. app'[c].del => app'[c].live
    <2>1. app[c] \in AppSet
      BY DEF TypeOK, ClusterTypeOK
    <2>2. DeletedApp(app[c]).del /\ app[c].live => DeletedApp(app[c]).live
      BY <2>1 DEF DeletedApp, AppSet, AbsentApp
    <2> QED BY <1>3, <1>4, <2>2 DEF ClaimRendered
  <1>6. ClaimRendered(Claim(c), app'[c])
    BY <1>3, <1>5 DEF ClaimRendered
  <1>7. \/ cw'.pc = "idle"
        \/ cw'.key = c /\ cw'.pc = "patchDeleting"
    BY <1>2, GotoFields, DoneIdle DEF ClaimDeleteApp
  <1>8. \/ cw'.pc = "idle"
        \/ cw'.key = c /\ WorkerRendered(cw', Claim(c), app'[c])
    BY <1>3, <1>7 DEF WorkerRendered, ClaimMainPcs
  <1>9. /\ ClaimRendered(Claim(c)', app'[c])
        /\ \/ cw'.pc = "idle"
           \/ cw'.key = c /\ WorkerRendered(cw', Claim(c)', app'[c])
    BY <1>4, <1>6, <1>8
  <1> QED BY <1>4, <1>9, WorkerStepRendered

LEMMA RenderedPatchDelete ==
    ASSUME TypeOK, RenderedInv, NEW out,
           ClaimPatchDeleting(out) \/ ClaimPatchDrained(out)
    PROVE  RenderedInv'
  <1>1. /\ cw.pc \in ClaimDeletePcs /\ cw.pc # "idle" /\ app' = app
        /\ PatchClaim(out, cw.st)
    BY DEF ClaimPatchDeleting, ClaimPatchDrained, argo, ClaimDeletePcs
  <1>2. PICK c \in Claims : c = cw.key
    BY <1>1, ClaimWorkerTypes
  <1>3. PICK o \in ClaimSet : o = Claim(c)
    BY StoredTypes DEF TypeOK
  <1>4. ClaimRendered(o, app[c]) /\ o.live /\ o.del
    BY <1>1, <1>2, <1>3, RenderedParts DEF WorkerRendered
  <1>5. /\ \A d \in Claims : d # c => Claim(d)' = Claim(d)
        /\ \/ Claim(c)' = o
           \/ Claim(c)' = [o EXCEPT !.status =
                                MergePatch(o.status, cw.obj.status, cw.st)]
    BY <1>1, <1>2, <1>3, ClaimWorkerTypes, PatchedFields
  <1>6. Claim(c)'.live /\ Claim(c)'.del
    BY <1>4, <1>5 DEF ClaimSet
  <1>7. ClaimRendered(Claim(c)', app'[c])
    BY <1>1, <1>4, <1>6 DEF ClaimRendered
  <1>8. \/ cw'.pc = "idle"
        \/ cw'.key = c /\ cw'.pc = "release"
    BY <1>2, GotoFields, DoneIdle DEF ClaimPatchDeleting, ClaimPatchDrained
  <1>9. \/ cw'.pc = "idle"
        \/ cw'.key = c /\ WorkerRendered(cw', Claim(c)', app'[c])
    BY <1>6, <1>8 DEF WorkerRendered, ClaimMainPcs
  <1> QED BY <1>1, <1>5, <1>7, <1>9, WorkerStepRendered

LEMMA RenderedRelease ==
    ASSUME TypeOK, AppGuardedInv, RenderedInv, NEW out, ClaimRelease(out)
    PROVE  RenderedInv'
  <1>1. cw.pc = "release" /\ cw.pc # "idle" /\ app' = app /\ cw'.pc = "idle"
    BY DEF ClaimRelease, argo, ClaimDone, IdleClaimWorker
  <1>2. PICK c \in Claims : c = cw.key
    BY <1>1, ClaimWorkerTypes
  <1>3. /\ ClaimRendered(Claim(c), app[c]) /\ Claim(c).del
        /\ ~app[c].live /\ cw.obj.uid \in Nat
    BY <1>1, <1>2, RenderedParts, ClaimWorkerTypes
       DEF WorkerRendered, ClaimDeletePcs, AppGuardedInv, ClaimWorkerInv
  <1>4. CASE UNCHANGED claimLog
    <2>1. \A d \in Claims : Claim(d)' = Claim(d) /\ app'[d] = app[d]
      BY <1>1, <1>4 DEF Claim
    <2> QED BY <1>1, <1>3, <2>1, WorkerStepRendered
  <1>5. CASE /\ Claim(c) = cw.obj
             /\ PutClaim(c, Unfinalized(cw.obj, AbsentClaim(cw.obj.uid)))
    <2>1. PutClaim(c, AbsentClaim(cw.obj.uid))
      BY <1>3, <1>5 DEF Unfinalized
    <2>2. PICK v \in ClaimSet : v = AbsentClaim(cw.obj.uid)
      BY <1>3, AbsentTypes
    <2>3. Claim(c)' = v /\ \A d \in Claims : d # c => Claim(d)' = Claim(d)
      BY <2>1, <2>2, PutStored
    <2>4. ~v.live
      BY <2>2 DEF AbsentClaim
    <2>5. ClaimRendered(v, app[c])
      BY <1>3, <2>4 DEF ClaimRendered
    <2>6. ClaimRendered(Claim(c)', app'[c])
      BY <1>1, <2>3, <2>5
    <2> QED BY <1>1, <2>3, <2>6, WorkerStepRendered
  <1> QED BY <1>2, <1>4, <1>5 DEF ClaimRelease, Conflict

LEMMA RenderedStep ==
    ASSUME "ServiceClaim" \notin Lagging, "app_delete" \notin Env,
           TypeOK, AppGuardedInv, RenderedInv, [Next]_vars
    PROVE  RenderedInv'
  <1>1. CASE ClaimNext
    BY <1>1, RenderedReconcile, RenderedFinalizer, RenderedGate, RenderedRender,
       RenderedStatus, RenderedGetApp, RenderedDeleteApp, RenderedPatchDelete,
       RenderedRelease DEF ClaimNext, ClaimStep
  <1>2. CASE UNCHANGED vars
    BY <1>2, SameRendered DEF vars, Claim
  <1> QED BY <1>1, <1>2, RenderedUser, RenderedTenant, RenderedWatch,
     RenderedExternal, RenderedCrash DEF Next

\* Where the claims' cache is fresh and nobody deletes Applications by hand,
\* what ReadyMeansRendered needs holds in every reachable state, with any
\* number of teams and claims, edits at any point of a reconcile, restarts and
\* failed or lost calls: the reconcile's status patch is taken against the
\* status etcd still holds, and the generation it reports is the one whose spec
\* ensureArgoApplication rendered.
THEOREM RenderedInvariant ==
    ASSUME "ServiceClaim" \notin Lagging, "app_delete" \notin Env
    PROVE  Spec => []RenderedInv
  <1>1. TypeOK /\ AppGuardedInv /\ RenderedInv /\ [Next]_vars => RenderedInv'
    BY RenderedStep
  <1> QED BY <1>1, RenderedInit, TypeCorrect, GuardInvariant, PTL DEF Spec

\* A claim that reports Ready for its present generation has an Application
\* rendered from its present spec: an edit between two steps of Reconcile can
\* not make aggregateReady report the new generation for the old rendering.
\* The two assumptions are needed: run torn_status shows what a status patch
\* against a stale base does, and an Application that was deleted by hand is
\* missing until the next reconcile.
THEOREM ReadyIsRendered ==
    ASSUME "ServiceClaim" \notin Lagging, "app_delete" \notin Env
    PROVE  Spec => []ReadyMeansRendered
  <1>1. RenderedInv => ReadyMeansRendered
    BY DEF RenderedInv
  <1> QED BY <1>1, RenderedInvariant, PTL
=============================================================================
