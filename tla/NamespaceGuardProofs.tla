------------------------ MODULE NamespaceGuardProofs ------------------------
(***************************************************************************)
(* NamespaceGuarded for every instance of the platform, by the invariant   *)
(* NamespaceGuardedInv, and what follows from it about the deletion of     *)
(* namespaces.                                                             *)
(***************************************************************************)
EXTENDS PlatformProofs

\* A step does not open the namespace of team u or hand it to another owner.
NamespaceKept(u) ==
    NamespaceUsable(u)' =>
       /\ NamespaceUsable(u)
       /\ Child(u, "Namespace").owner' = Child(u, "Namespace").owner

-----------------------------------------------------------------------------
(* The objects in a namespace *)

LEMMA ChildPut ==
    ASSUME TypeOK, NEW t \in Teams, NEW k \in Kinds, NEW v \in ChildSet,
           PutChild(t, k, v)
    PROVE  /\ Stored(childLog'[t][k]) = v
           /\ \A u \in Teams, j \in Kinds :
                 u # t \/ j # k => childLog'[u][j] = childLog[u][j]
  <1>1. /\ childLog \in [Teams -> [Kinds -> Seq(ChildSet)]]
        /\ childLog[t][k] \in Seq(ChildSet) /\ Len(childLog[t][k]) >= 1
    BY DEF TypeOK, ClusterTypeOK
  <1>2. Stored(Written(childLog[t][k], v)) = v
    BY <1>1, LogWritten
  <1>3. childLog'[t][k] = Written(childLog[t][k], v)
    BY <1>1 DEF PutChild
  <1>4. \A u \in Teams, j \in Kinds :
           u # t \/ j # k => childLog'[u][j] = childLog[u][j]
    BY <1>1 DEF PutChild
  <1> QED BY <1>2, <1>3, <1>4

\* A write to another object of the namespace, or one that marks the namespace.
LEMMA PutKeepsNamespace ==
    ASSUME TypeOK, NEW t \in Teams, NEW k \in Kinds, NEW v \in ChildSet,
           PutChild(t, k, v), k # "Namespace" \/ ~v.live \/ v.del
    PROVE  \A u \in Teams : NamespaceKept(u)
  <1>1. "Namespace" \in Kinds
    BY DEF Kinds
  <1> QED BY <1>1, ChildPut DEF NamespaceKept, NamespaceUsable, Child

LEMMA SameNamespaces ==
    ASSUME UNCHANGED childLog
    PROVE  \A u \in Teams : NamespaceKept(u)
  BY DEF NamespaceKept, NamespaceUsable, Child

-----------------------------------------------------------------------------
(* Steps of anyone but the worker *)

LEMMA TenantQuietWrites ==
    ASSUME NEW o \in TenantSet
    PROVE  /\ \A res : ~o.live => Quiet(o, NewTenant(o.uid + 1, res))
           /\ \A res : Quiet(o, [o EXCEPT !.res = res, !.gen = @ + 1])
           /\ Quiet(o, Deleted(o, AbsentTenant(o.uid)))
           /\ \A st : Quiet(o, [o EXCEPT !.status = st])
  <1>a. /\ o.uid \in Nat /\ o.live \in BOOLEAN /\ o.fin \in BOOLEAN
        /\ o.del \in BOOLEAN
    BY DEF TenantSet
  <1>b. ASSUME NEW n, n.uid = o.uid, n.live = o.live, n.fin = o.fin,
               o.del => n.del
        PROVE  Quiet(o, n)
    BY <1>a, <1>b DEF Quiet
  <1>1. ASSUME NEW res, ~o.live PROVE Quiet(o, NewTenant(o.uid + 1, res))
    <2> DEFINE n == NewTenant(o.uid + 1, res)
    <2>1. n.uid = o.uid + 1 /\ n.live /\ ~n.fin
      BY DEF NewTenant, AbsentTenant
    <2> HIDE DEF n
    <2>2. Quiet(o, n)
      BY <1>a, <1>1, <2>1 DEF Quiet
    <2> QED BY <2>2 DEF n
  <1>2. ASSUME NEW res PROVE Quiet(o, [o EXCEPT !.res = res, !.gen = @ + 1])
    <2> DEFINE n == [o EXCEPT !.res = res, !.gen = @ + 1]
    <2>1. n.uid = o.uid /\ n.live = o.live /\ n.fin = o.fin /\ n.del = o.del
      BY DEF TenantSet
    <2> HIDE DEF n
    <2>2. Quiet(o, n)
      BY <1>b, <2>1
    <2> QED BY <2>2 DEF n
  <1>3. Quiet(o, Deleted(o, AbsentTenant(o.uid)))
    <2>1. CASE o.fin
      <3> DEFINE n == [o EXCEPT !.del = TRUE, !.gen = @ + 1]
      <3>1. n.uid = o.uid /\ n.live = o.live /\ n.fin = o.fin /\ n.del
        BY DEF TenantSet
      <3> HIDE DEF n
      <3>2. Quiet(o, n)
        BY <1>b, <3>1
      <3> QED BY <2>1, <3>2 DEF Deleted, n
    <2>2. CASE ~o.fin
      <3>1. AbsentTenant(o.uid).uid = o.uid /\ ~AbsentTenant(o.uid).live
        BY DEF AbsentTenant
      <3>2. Quiet(o, AbsentTenant(o.uid))
        BY <1>a, <2>2, <3>1 DEF Quiet
      <3> QED BY <2>2, <3>2 DEF Deleted
    <2> QED BY <2>1, <2>2
  <1>4. ASSUME NEW st PROVE Quiet(o, [o EXCEPT !.status = st])
    <2> DEFINE n == [o EXCEPT !.status = st]
    <2>1. n.uid = o.uid /\ n.live = o.live /\ n.fin = o.fin /\ n.del = o.del
      BY DEF TenantSet
    <2> HIDE DEF n
    <2>2. Quiet(o, n)
      BY <1>b, <2>1
    <2> QED BY <2>2 DEF n
  <1> QED BY <1>1, <1>2, <1>3, <1>4

LEMMA TenantSameEvolves ==
    ASSUME TypeOK, NamespaceGuardedInv, UNCHANGED tenantLog
    PROVE  \A u \in Teams : Evolves(tenantLog[u], tenantLog'[u])
  BY EvolvesSame, TenantVersions DEF TypeOK, ClusterTypeOK, NamespaceGuardedInv

LEMMA TenantPutEvolves ==
    ASSUME TypeOK, NamespaceGuardedInv, NEW t \in Teams, NEW v \in TenantSet,
           Quiet(Tenant(t), v), PutTenant(t, v)
    PROVE  \A u \in Teams : Evolves(tenantLog[u], tenantLog'[u])
  <1> SUFFICES ASSUME NEW u \in Teams
               PROVE  Evolves(tenantLog[u], tenantLog'[u])
    OBVIOUS
  <1>1. /\ tenantLog[u] \in Seq(TenantSet) /\ Len(tenantLog[u]) >= 1
        /\ LogInv(tenantLog[u])
        /\ tenantLog \in [Teams -> Seq(TenantSet)]
    BY DEF TypeOK, ClusterTypeOK, NamespaceGuardedInv
  <1>2. CASE u = t
    <2>1. tenantLog'[u] = Written(tenantLog[u], v)
      BY <1>1, <1>2 DEF PutTenant
    <2>2. Evolves(tenantLog[u], Written(tenantLog[u], v))
      BY <1>1, <1>2, EvolvesWritten, TenantVersions DEF Tenant
    <2> QED BY <2>1, <2>2
  <1>3. CASE u # t
    <2>1. tenantLog'[u] = tenantLog[u]
      BY <1>1, <1>3 DEF PutTenant
    <2> QED BY <1>1, <2>1, EvolvesSame, TenantVersions
  <1> QED BY <1>2, <1>3

\* NamespaceGuarded and the logs, whoever takes the step.
LEMMA NamespacesGuarded ==
    ASSUME TypeOK, NamespaceGuardedInv,
           \A u \in Teams : Evolves(tenantLog[u], tenantLog'[u]),
           \A u \in Teams : NamespaceKept(u)
    PROVE  NamespaceGuarded' /\ \A u \in Teams : LogInv(tenantLog'[u])
  <1>1. \A u \in Teams : LogInv(tenantLog'[u])
    BY DEF Evolves
  <1>2. ASSUME NEW u \in Teams, NamespaceUsable(u)'
        PROVE  /\ Tenant(u)'.live /\ Tenant(u)'.fin
               /\ Tenant(u)'.uid = Child(u, "Namespace")'.owner
    <2>1. /\ NamespaceUsable(u)
          /\ Child(u, "Namespace")'.owner = Child(u, "Namespace").owner
      BY <1>2 DEF NamespaceKept
    <2>2. /\ Tenant(u).live /\ Tenant(u).fin
          /\ Tenant(u).uid = Child(u, "Namespace").owner
      BY <2>1 DEF NamespaceGuardedInv, NamespaceGuarded
    <2> QED BY <2>1, <2>2 DEF Evolves, Tenant
  <1> QED BY <1>1, <1>2 DEF NamespaceGuarded

\* A step of anyone but the worker.
LEMMA TenantBystander ==
    ASSUME TypeOK, TypeOK', NamespaceGuardedInv, tw' = tw,
           \A u \in Teams : Evolves(tenantLog[u], tenantLog'[u]),
           \A u \in Teams : NamespaceKept(u)
    PROVE  NamespaceGuardedInv'
  <1>1. NamespaceGuarded' /\ \A u \in Teams : LogInv(tenantLog'[u])
    BY NamespacesGuarded
  <1>2. CASE tw.pc = "idle"
    BY <1>1, <1>2 DEF NamespaceGuardedInv, TenantWorkerInv
  <1>3. CASE tw.pc # "idle"
    <2> DEFINE old == tenantLog[tw.key]
               new == tenantLog'[tw.key]
    <2>1. tw.key \in Teams /\ tw.obj.uid \in Nat
      BY <1>3, TenantWorkerTypes
    <2>2. Evolves(old, new)
      BY <2>1
    <2>3. Cached(old).uid \in Nat /\ Cached(new).uid \in Nat
      <3>1. /\ old \in Seq(TenantSet) /\ Len(old) >= 1
            /\ new \in Seq(TenantSet) /\ Len(new) >= 1
        BY <2>1 DEF TypeOK, ClusterTypeOK
      <3> QED BY <3>1, LogEnds, TenantVersions DEF Versions
    <2> HIDE DEF old, new
    <2>4. /\ Stored(old).live /\ Stored(old).fin
             /\ Stored(old).uid = tw.obj.uid =>
                Stored(new).live /\ Stored(new).fin
                /\ Stored(new).uid = tw.obj.uid
          /\ tw.obj.uid <= Cached(old).uid => tw.obj.uid <= Cached(new).uid
          /\ Condemned(old) => Condemned(new)
      BY <2>1, <2>2, <2>3 DEF Evolves
    <2>5. ~NamespaceUsable(tw.key) => ~NamespaceUsable(tw.key)'
      BY <2>1 DEF NamespaceKept
    <2>6. TenantWorkerInv'
      BY <1>3, <2>4, <2>5 DEF NamespaceGuardedInv, TenantWorkerInv, old, new
    <2> QED BY <1>1, <2>6 DEF NamespaceGuardedInv
  <1> QED BY <1>2, <1>3

LEMMA TenantUnaffected ==
    ASSUME NamespaceGuardedInv, UNCHANGED <<tenantLog, childLog, tw>>
    PROVE  NamespaceGuardedInv'
  BY DEF NamespaceGuardedInv, NamespaceGuarded, TenantWorkerInv, Tenant, Child,
     NamespaceUsable

LEMMA NsGuardInit == Init => NamespaceGuardedInv
  <1> SUFFICES ASSUME Init PROVE NamespaceGuardedInv
    OBVIOUS
  <1>1. NamespaceGuarded
    <2>1. "Namespace" \in Kinds /\ ~AbsentChild.live /\ AbsentChild \in ChildSet
      BY AbsentTypes DEF Kinds, AbsentChild
    <2>2. ASSUME NEW t \in Teams PROVE ~NamespaceUsable(t)
      <3>1. childLog[t]["Namespace"] = <<AbsentChild>>
        BY <2>1 DEF Init, ClusterInit
      <3> QED BY <2>1, <3>1 DEF NamespaceUsable, Child, Stored
    <2> QED BY <2>2 DEF NamespaceGuarded
  <1>2. ASSUME NEW t \in Teams PROVE LogInv(tenantLog[t])
    <2>1. tenantLog[t] = <<AbsentTenant(0)>> /\ AbsentTenant(0) \in TenantSet
      BY AbsentTypes DEF Init, ClusterInit
    <2> QED BY <2>1, FreshLog, TenantVersions
  <1>3. TenantWorkerInv
    BY DEF Init, IdleTenantWorker, TenantWorkerInv
  <1> QED BY <1>1, <1>2, <1>3 DEF NamespaceGuardedInv

LEMMA NsGuardUser ==
    TypeOK /\ TypeOK' /\ NamespaceGuardedInv /\ UserNext => NamespaceGuardedInv'
  <1> SUFFICES ASSUME TypeOK, TypeOK', NamespaceGuardedInv, UserNext
               PROVE  NamespaceGuardedInv'
    OBVIOUS
  <1>1. ASSUME NEW t \in Teams, NEW v \in TenantSet, PutTenant(t, v),
               Quiet(Tenant(t), v), UNCHANGED <<childLog, tw>>
        PROVE  NamespaceGuardedInv'
    <2>1. \A u \in Teams : Evolves(tenantLog[u], tenantLog'[u])
      BY <1>1, TenantPutEvolves
    <2> QED BY <1>1, <2>1, SameNamespaces, TenantBystander
  <1>2. ASSUME NEW t \in Teams
        PROVE  Tenant(t) \in TenantSet /\ Tenant(t).uid \in Nat
    BY StoredTypes, TenantVersions DEF TypeOK, Versions
  <1>3. ASSUME NEW t \in Teams, NEW res \in Resources, CreateTenant(t, res)
        PROVE  NamespaceGuardedInv'
    <2>1. NewTenant(Tenant(t).uid + 1, res) \in TenantSet
      BY <1>2, NewTypes
    <2>2. Quiet(Tenant(t), NewTenant(Tenant(t).uid + 1, res))
      BY <1>2, <1>3, TenantQuietWrites DEF CreateTenant
    <2> QED BY <1>1, <1>3, <2>1, <2>2 DEF CreateTenant, workers
  <1>4. ASSUME NEW t \in Teams, NEW res \in Resources, EditTenant(t, res)
        PROVE  NamespaceGuardedInv'
    <2> DEFINE v == [Tenant(t) EXCEPT !.res = res, !.gen = @ + 1]
    <2>1. v \in TenantSet /\ Quiet(Tenant(t), v)
      BY <1>2, TenantEditType, TenantQuietWrites
    <2>2. PutTenant(t, v)
      BY <1>4 DEF EditTenant
    <2> HIDE DEF v
    <2> QED BY <1>1, <1>4, <2>1, <2>2 DEF EditTenant, workers
  <1>5. ASSUME NEW t \in Teams, DeleteTenant(t)
        PROVE  NamespaceGuardedInv'
    <2> DEFINE v == Deleted(Tenant(t), AbsentTenant(Tenant(t).uid))
    <2>1. v \in TenantSet /\ Quiet(Tenant(t), v)
      BY <1>2, TenantDeleteType, TenantQuietWrites
    <2>2. PutTenant(t, v)
      BY <1>5 DEF DeleteTenant
    <2> HIDE DEF v
    <2> QED BY <1>1, <1>5, <2>1, <2>2 DEF DeleteTenant, workers
  <1>6. ASSUME NEW t \in Teams, NEW k \in Kinds, DeleteChildByHand(t, k)
        PROVE  NamespaceGuardedInv'
    <2> DEFINE v == IF k = "Namespace" THEN [Child(t, k) EXCEPT !.del = TRUE]
                                       ELSE AbsentChild
    <2>1. v \in ChildSet /\ (k # "Namespace" \/ v.del)
      BY StoredTypes, AbsentTypes DEF TypeOK, ChildSet
    <2>2. PutChild(t, k, v)
      BY <1>6 DEF DeleteChildByHand
    <2> HIDE DEF v
    <2>3. \A u \in Teams : NamespaceKept(u)
      BY <2>1, <2>2, PutKeepsNamespace
    <2>4. UNCHANGED <<tenantLog, tw>>
      BY <1>6 DEF DeleteChildByHand
    <2> QED BY <2>3, <2>4, TenantSameEvolves, TenantBystander
  <1>7. ASSUME NEW c \in Claims, NEW t \in Teams, NEW img \in Images,
               \/ CreateClaim(c, t, img) \/ AdmitClaim(c, t, img)
               \/ EditClaim(c, t, img)
        PROVE  NamespaceGuardedInv'
    BY <1>7, TenantUnaffected DEF CreateClaim, AdmitClaim, EditClaim, workers
  <1>8. ASSUME NEW c \in Claims,
               PersistClaim(c) \/ DeleteClaim(c) \/ DeleteAppByHand(c)
        PROVE  NamespaceGuardedInv'
    BY <1>8, TenantUnaffected DEF PersistClaim, DeleteClaim, DeleteAppByHand,
       workers
  <1> QED BY <1>3, <1>4, <1>5, <1>6, <1>7, <1>8 DEF UserNext

LEMMA NsGuardClaim == NamespaceGuardedInv /\ ClaimNext => NamespaceGuardedInv'
  <1> SUFFICES ASSUME NamespaceGuardedInv, ClaimNext PROVE NamespaceGuardedInv'
    OBVIOUS
  <1>1. UNCHANGED <<tenantLog, childLog, tw>>
    BY DEF ClaimNext, ClaimReconcile, ClaimStep, ClaimEnsureFinalizer,
       ClaimGate, ClaimEnsureArgoApplication, ClaimPatchStatus, ClaimGetApp,
       ClaimDeleteApp, ClaimPatchDeleting, ClaimPatchDrained, ClaimRelease
  <1> QED BY <1>1, TenantUnaffected

LEMMA NsGuardWatch ==
    TypeOK /\ TypeOK' /\ NamespaceGuardedInv /\ WatchNext => NamespaceGuardedInv'
  <1> SUFFICES ASSUME TypeOK, TypeOK', NamespaceGuardedInv, WatchNext
               PROVE  NamespaceGuardedInv'
    OBVIOUS
  <1>1. ASSUME NEW t \in Teams, NEW out, DeliverTenant(t, out)
        PROVE  NamespaceGuardedInv'
    <2>1. ASSUME NEW u \in Teams PROVE Evolves(tenantLog[u], tenantLog'[u])
      <3>1. /\ tenantLog[u] \in Seq(TenantSet) /\ Len(tenantLog[u]) >= 1
            /\ LogInv(tenantLog[u])
            /\ tenantLog \in [Teams -> Seq(TenantSet)]
        BY DEF TypeOK, ClusterTypeOK, NamespaceGuardedInv
      <3>2. CASE u = t
        <4>1. tenantLog'[u] = Tail(tenantLog[u]) /\ Len(tenantLog[u]) > 1
          BY <1>1, <3>1, <3>2 DEF DeliverTenant
        <4> QED BY <3>1, <4>1, EvolvesTail, TenantVersions
      <3>3. CASE u # t
        <4>1. tenantLog'[u] = tenantLog[u]
          BY <1>1, <3>1, <3>3 DEF DeliverTenant
        <4> QED BY <3>1, <4>1, EvolvesSame, TenantVersions
      <3> QED BY <3>2, <3>3
    <2>2. UNCHANGED <<childLog, tw>>
      BY <1>1 DEF DeliverTenant, workers
    <2> QED BY <2>1, <2>2, SameNamespaces, TenantBystander
  <1>2. ASSUME NEW t \in Teams, NEW k \in Kinds, DeliverChild(t, k)
        PROVE  NamespaceGuardedInv'
    <2>1. ASSUME NEW u \in Teams PROVE NamespaceKept(u)
      <3>1. /\ childLog \in [Teams -> [Kinds -> Seq(ChildSet)]]
            /\ childLog[t][k] \in Seq(ChildSet) /\ Len(childLog[t][k]) > 1
            /\ "Namespace" \in Kinds
        BY <1>2 DEF TypeOK, ClusterTypeOK, DeliverChild, Kinds
      <3>2. Stored(Tail(childLog[t][k])) = Stored(childLog[t][k])
        BY <3>1, LogTail
      <3>3. Stored(childLog'[u]["Namespace"]) = Stored(childLog[u]["Namespace"])
        BY <1>2, <3>1, <3>2 DEF DeliverChild
      <3> QED BY <3>3 DEF NamespaceKept, NamespaceUsable, Child
    <2>2. UNCHANGED <<tenantLog, tw>>
      BY <1>2 DEF DeliverChild, workers
    <2> QED BY <2>1, <2>2, TenantSameEvolves, TenantBystander
  <1>3. ASSUME NEW c \in Claims, DeliverClaim(c) \/ DeliverApp(c) \/ Resync(c)
        PROVE  NamespaceGuardedInv'
    BY <1>3, TenantUnaffected DEF DeliverClaim, DeliverApp, Resync, workers
  <1> QED BY <1>1, <1>2, <1>3 DEF WatchNext

LEMMA NsGuardExternal ==
    TypeOK /\ TypeOK' /\ NamespaceGuardedInv /\ ExternalNext
       => NamespaceGuardedInv'
  <1> SUFFICES ASSUME TypeOK, TypeOK', NamespaceGuardedInv, ExternalNext
               PROVE  NamespaceGuardedInv'
    OBVIOUS
  <1>1. ASSUME NEW c \in Claims, ArgoSync(c) \/ ArgoPrune(c)
        PROVE  NamespaceGuardedInv'
    BY <1>1, TenantUnaffected DEF ArgoSync, ArgoPrune, workers
  <1>2. ASSUME NEW t \in Teams, NamespaceFinalize(t)
        PROVE  NamespaceGuardedInv'
    <2>1. ASSUME NEW u \in Teams PROVE NamespaceKept(u)
      <3>1. /\ childLog \in [Teams -> [Kinds -> Seq(ChildSet)]]
            /\ childLog[t]["Namespace"] \in Seq(ChildSet)
            /\ Len(childLog[t]["Namespace"]) >= 1
            /\ "Namespace" \in Kinds
        BY DEF TypeOK, ClusterTypeOK, Kinds
      <3>2. AbsentChild \in ChildSet /\ ~AbsentChild.live
        BY AbsentTypes DEF AbsentChild
      <3>3. Stored(Written(childLog[t]["Namespace"], AbsentChild)) = AbsentChild
        BY <3>1, <3>2, LogWritten
      <3>4. CASE u = t
        <4>1. childLog'[u]["Namespace"]
                 = Written(childLog[t]["Namespace"], AbsentChild)
          BY <1>2, <3>1, <3>4 DEF NamespaceFinalize
        <4> QED BY <3>2, <3>3, <4>1 DEF NamespaceKept, NamespaceUsable, Child
      <3>5. CASE u # t
        <4>1. childLog'[u] = childLog[u]
          BY <1>2, <3>1, <3>5 DEF NamespaceFinalize
        <4> QED BY <4>1 DEF NamespaceKept, NamespaceUsable, Child
      <3> QED BY <3>4, <3>5
    <2>2. UNCHANGED <<tenantLog, tw>>
      BY <1>2 DEF NamespaceFinalize, workers
    <2> QED BY <2>1, <2>2, TenantSameEvolves, TenantBystander
  <1> QED BY <1>1, <1>2 DEF ExternalNext

LEMMA NsGuardCrash == TypeOK /\ NamespaceGuardedInv /\ Crash => NamespaceGuardedInv'
  <1> SUFFICES ASSUME TypeOK, NamespaceGuardedInv, Crash
               PROVE  NamespaceGuardedInv'
    OBVIOUS
  <1>1. ASSUME NEW t \in Teams
        PROVE  LogInv(tenantLog'[t]) /\ Stored(tenantLog'[t]) = Tenant(t)
    <2>1. Tenant(t) \in TenantSet /\ tenantLog'[t] = <<Tenant(t)>>
      BY StoredTypes DEF Crash, TypeOK
    <2> QED BY <2>1, FreshLog, TenantVersions
  <1>2. ASSUME NEW t \in Teams
        PROVE  Stored(childLog'[t]["Namespace"]) = Child(t, "Namespace")
    <2>1. childLog'[t]["Namespace"] = <<Child(t, "Namespace")>>
      BY DEF Crash, Kinds
    <2> QED BY <2>1 DEF Stored
  <1>3. NamespaceGuarded'
    BY <1>1, <1>2 DEF NamespaceGuardedInv, NamespaceGuarded, NamespaceUsable,
       Tenant, Child
  <1>4. TenantWorkerInv'
    BY DEF Crash, IdleTenantWorker, TenantWorkerInv
  <1> QED BY <1>1, <1>3, <1>4 DEF NamespaceGuardedInv

-----------------------------------------------------------------------------
(* Steps of the worker *)

LEMMA TenantGotoFields ==
    ASSUME TypeOK, NEW pc, NEW obj, NEW st, NEW err, TenantGoto(pc, obj, st, err)
    PROVE  tw'.pc = pc /\ tw'.key = tw.key /\ tw'.obj = obj
  BY DEF TenantGoto, TypeOK, TenantWorkerTypeOK

\* A reconcile ends, or goes on with a step that relies on nothing.
LEMMA TenantWorkerFree ==
    ASSUME TypeOK, NamespaceGuardedInv,
           \/ \E again : TenantDone(again)
           \/ tw'.pc \in {"rolebinding", "quota", "status"},
           \A u \in Teams : Evolves(tenantLog[u], tenantLog'[u]),
           \A u \in Teams : NamespaceKept(u)
    PROVE  NamespaceGuardedInv'
  <1>1. tw'.pc \in {"idle", "rolebinding", "quota", "status"}
    BY DEF TenantDone, IdleTenantWorker
  <1>2. TenantWorkerInv'
    BY <1>1 DEF TenantWorkerInv, TenantDeletePcs
  <1> QED BY <1>2, NamespacesGuarded DEF NamespaceGuardedInv

\* A teardown goes on, and the versions that condemn the Tenant stay.
LEMMA TenantTeardownGoesOn ==
    ASSUME TypeOK, NamespaceGuardedInv, tw.pc \in TenantDeletePcs,
           tw'.pc \in TenantDeletePcs \ {"release"}, tw'.key = tw.key,
           tw'.pc = "deleteNamespace" => tw'.obj.live,
           \A u \in Teams : Evolves(tenantLog[u], tenantLog'[u]),
           \A u \in Teams : NamespaceKept(u)
    PROVE  NamespaceGuardedInv'
  <1>1. tw.pc # "idle" /\ tw.key \in Teams
    BY TenantWorkerTypes DEF TenantDeletePcs
  <1>2. Condemned(tenantLog'[tw.key])
    BY <1>1 DEF NamespaceGuardedInv, TenantWorkerInv, Evolves
  <1>3. TenantWorkerInv'
    BY <1>2 DEF TenantWorkerInv, TenantDeletePcs
  <1> QED BY <1>3, NamespacesGuarded DEF NamespaceGuardedInv

\* A status patch leaves the finalizer alone.
LEMMA TenantPatchEvolves ==
    ASSUME TypeOK, NamespaceGuardedInv, tw.pc # "idle", NEW out,
           NEW st \in StatusSet(TenantConds), PatchTenant(out, st)
    PROVE  \A u \in Teams : Evolves(tenantLog[u], tenantLog'[u])
  <1>1. CASE UNCHANGED tenantLog
    BY <1>1, TenantSameEvolves
  <1>2. CASE PutTenant(tw.key, TenantPatched(st))
    <2>1. tw.key \in Teams /\ TenantPatched(st) \in TenantSet
      BY TenantWorkerTypes, PatchTenantType
    <2>2. Tenant(tw.key) \in TenantSet
      BY <2>1, StoredTypes DEF TypeOK
    <2>3. Quiet(Tenant(tw.key), TenantPatched(st))
      BY <2>2, TenantQuietWrites DEF TenantPatched
    <2> QED BY <1>2, <2>1, <2>3, TenantPutEvolves
  <1> QED BY <1>1, <1>2 DEF PatchTenant

\* The next reconcile starts from whatever the cache holds.
LEMMA NsGuardReconcile ==
    ASSUME TypeOK, NamespaceGuardedInv, NEW t \in Teams, TenantReconcile(t)
    PROVE  NamespaceGuardedInv'
  <1> DEFINE log == tenantLog[t]
             tenant == Cached(log)
  <1>1. /\ log \in Seq(TenantSet) /\ Len(log) >= 1 /\ LogInv(log)
        /\ tenant \in TenantSet /\ tenant.uid \in Nat
    BY LogEnds, TenantVersions DEF TypeOK, ClusterTypeOK, NamespaceGuardedInv,
       Versions
  <1>2. UNCHANGED <<tenantLog, childLog>>
    BY DEF TenantReconcile
  <1>3. NamespaceGuarded' /\ \A u \in Teams : LogInv(tenantLog'[u])
    BY <1>2 DEF NamespaceGuardedInv, NamespaceGuarded, NamespaceUsable, Tenant,
       Child
  <1>4. \/ tw' = tw
        \/ tenant.live /\ tenant.del /\ tenant.fin /\ tw'.pc = "list"
           /\ tw'.key = t
        \/ tenant.live /\ ~tenant.del /\ tenant.fin /\ tw'.pc = "namespace"
           /\ tw'.key = t /\ tw'.obj = tenant
        \/ tenant.live /\ ~tenant.del /\ ~tenant.fin /\ tw'.pc = "finalizer"
           /\ tw'.key = t /\ tw'.obj = tenant
    BY DEF TenantReconcile, TenantFirstStep
  <1> HIDE DEF tenant, log
  <1>5. CASE tw' = tw
    BY <1>2, <1>5, TenantUnaffected
  <1>6. CASE tenant.live /\ tenant.del /\ tenant.fin /\ tw'.pc = "list"
             /\ tw'.key = t
    <2>1. Condemned(log)
      BY <1>1, <1>6, CachedCondemned, TenantVersions DEF tenant
    <2>2. TenantWorkerInv'
      BY <1>2, <1>6, <2>1 DEF TenantWorkerInv, TenantDeletePcs, log
    <2> QED BY <1>3, <2>2 DEF NamespaceGuardedInv
  <1>7. CASE tenant.live /\ ~tenant.del /\ tenant.fin /\ tw'.pc = "namespace"
             /\ tw'.key = t /\ tw'.obj = tenant
    <2>1. Stored(log).live /\ Stored(log).fin /\ Stored(log).uid = tenant.uid
      BY <1>1, <1>7, CachedGuarded, TenantVersions DEF tenant
    <2>2. TenantWorkerInv'
      BY <1>2, <1>7, <2>1 DEF TenantWorkerInv, TenantDeletePcs, log
    <2> QED BY <1>3, <2>2 DEF NamespaceGuardedInv
  <1>8. CASE tenant.live /\ ~tenant.del /\ ~tenant.fin /\ tw'.pc = "finalizer"
             /\ tw'.key = t /\ tw'.obj = tenant
    <2>1. tenant.uid <= tenant.uid
      BY <1>1
    <2>2. TenantWorkerInv'
      BY <1>2, <1>8, <2>1 DEF TenantWorkerInv, TenantDeletePcs, log, tenant
    <2> QED BY <1>3, <2>2 DEF NamespaceGuardedInv
  <1> QED BY <1>4, <1>5, <1>6, <1>7, <1>8

\* The finalizer goes on a Tenant that had no usable namespace before.
LEMMA NsGuardFinalizer ==
    ASSUME TypeOK, NamespaceGuardedInv, NEW out, TenantEnsureFinalizer(out)
    PROVE  NamespaceGuardedInv'
  <1> DEFINE t == tw.key
             log == tenantLog[t]
             v == [tw.obj EXCEPT !.fin = TRUE]
             new == Written(log, v)
  <1>1. /\ tw.pc = "finalizer" /\ tw.pc # "idle" /\ UNCHANGED childLog
    BY DEF TenantEnsureFinalizer
  <1>2. /\ t \in Teams /\ tw.obj \in TenantSet
        /\ log \in Seq(TenantSet) /\ Len(log) >= 1 /\ LogInv(log)
    BY <1>1, TenantWorkerTypes DEF TypeOK, ClusterTypeOK, NamespaceGuardedInv
  <1>3. tw.obj.live /\ ~tw.obj.fin /\ tw.obj.uid <= Cached(log).uid
    BY <1>1 DEF NamespaceGuardedInv, TenantWorkerInv
  <1>4. /\ v \in TenantSet
        /\ v.live /\ v.fin /\ v.uid = tw.obj.uid /\ v.del = tw.obj.del
    BY <1>2, <1>3 DEF TenantSet
  <1>5. CASE UNCHANGED tenantLog /\ TenantDone(TRUE)
    BY <1>1, <1>5, TenantSameEvolves, SameNamespaces, TenantWorkerFree
  <1>6. CASE /\ Tenant(t) = tw.obj /\ PutTenant(t, v)
             /\ \/ TenantDone(TRUE)
                \/ TenantGoto("namespace", v, v.status, FALSE)
    <2>1. Stored(log) = tw.obj
      BY <1>6 DEF Tenant
    <2> HIDE DEF v, log
    <2>2. LogInv(new) /\ Stored(new) = v
      BY <1>2, <1>3, <1>4, <2>1, FinalizerAdded, TenantVersions
    <2>3. /\ tenantLog'[t] = new
          /\ \A u \in Teams : u # t => tenantLog'[u] = tenantLog[u]
      BY <1>2, <1>6 DEF PutTenant, TypeOK, ClusterTypeOK, log
    <2> HIDE DEF new
    <2>4. \A u \in Teams : LogInv(tenantLog'[u])
      BY <2>2, <2>3 DEF NamespaceGuardedInv
    <2>5. ~NamespaceUsable(t)
      BY <1>2, <1>3, <2>1 DEF NamespaceGuardedInv, NamespaceGuarded, Tenant, log
    <2>6. NamespaceGuarded'
      BY <1>1, <2>3, <2>5 DEF NamespaceGuardedInv, NamespaceGuarded,
         NamespaceUsable, Tenant, Child
    <2>7. CASE TenantDone(TRUE)
      <3>1. TenantWorkerInv'
        BY <2>7 DEF TenantDone, IdleTenantWorker, TenantWorkerInv
      <3> QED BY <2>4, <2>6, <3>1 DEF NamespaceGuardedInv
    <2>8. CASE TenantGoto("namespace", v, v.status, FALSE)
      <3>1. tw'.pc = "namespace" /\ tw'.key = t /\ tw'.obj = v
        BY <2>8, TenantGotoFields
      <3> HIDE DEF t
      <3>2. TenantWorkerInv'
        BY <1>4, <2>2, <2>3, <3>1 DEF TenantWorkerInv, TenantDeletePcs
      <3> QED BY <2>4, <2>6, <3>2 DEF NamespaceGuardedInv
    <2> QED BY <1>6, <2>7, <2>8
  <1> QED BY <1>5, <1>6 DEF TenantEnsureFinalizer, Conflict

\* A namespace is created, or adopted, for the incarnation that etcd guards.
LEMMA NsGuardNamespace ==
    ASSUME TypeOK, NamespaceGuardedInv, NEW out, TenantEnsureNamespace(out)
    PROVE  NamespaceGuardedInv'
  <1> DEFINE t == tw.key
             o == Cached(childLog[t]["Namespace"])
             v == Mutated(o, NoHard)
  <1>1. tw.pc = "namespace" /\ tw.pc # "idle" /\ UNCHANGED tenantLog
    BY DEF TenantEnsureNamespace
  <1>2. t \in Teams /\ "Namespace" \in Kinds /\ o \in ChildSet
        /\ tw.obj.uid \in Nat
    BY <1>1, TenantWorkerTypes, StoredTypes DEF TypeOK, Kinds
  <1>3. v \in ChildSet /\ v.owner = tw.obj.uid
    BY <1>2 DEF Mutated, ChildSet, Hards
  <1>4. tw'.pc \in {"rolebinding", "status"}
    BY TenantGotoFields DEF TenantEnsureNamespace, EnsureChild
  <1>5. CASE UNCHANGED childLog
    BY <1>1, <1>4, <1>5, TenantSameEvolves, SameNamespaces, TenantWorkerFree
  <1>6. CASE PutChild(t, "Namespace", v)
    <2>1. /\ Tenant(t).live /\ Tenant(t).fin /\ Tenant(t).uid = tw.obj.uid
      BY <1>1 DEF NamespaceGuardedInv, TenantWorkerInv, Tenant
    <2> HIDE DEF v
    <2>2. /\ Stored(childLog'[t]["Namespace"]) = v
          /\ \A u \in Teams : u # t =>
                childLog'[u]["Namespace"] = childLog[u]["Namespace"]
      BY <1>2, <1>3, <1>6, ChildPut
    <2>3. NamespaceGuarded'
      <3> SUFFICES ASSUME NEW u \in Teams, NamespaceUsable(u)'
                   PROVE  /\ Tenant(u)'.live /\ Tenant(u)'.fin
                          /\ Tenant(u)'.uid = Child(u, "Namespace")'.owner
        BY DEF NamespaceGuarded
      <3>1. Tenant(u)' = Tenant(u)
        BY <1>1 DEF Tenant
      <3>2. CASE u = t
        BY <1>3, <2>1, <2>2, <3>1, <3>2 DEF Child
      <3>3. CASE u # t
        <4>1. Child(u, "Namespace")' = Child(u, "Namespace")
          BY <2>2, <3>3 DEF Child
        <4> QED BY <3>1, <4>1 DEF NamespaceGuardedInv, NamespaceGuarded,
           NamespaceUsable
      <3> QED BY <3>2, <3>3
    <2>4. TenantWorkerInv'
      BY <1>4 DEF TenantWorkerInv, TenantDeletePcs
    <2> QED BY <1>1, <2>3, <2>4 DEF NamespaceGuardedInv
  <1> QED BY <1>5, <1>6 DEF TenantEnsureNamespace, EnsureChild,
     CreateOrUpdateEffect

\* The other objects do not matter.
LEMMA NsGuardContents ==
    ASSUME TypeOK, NamespaceGuardedInv, NEW out,
           \/ TenantEnsureRoleBinding(out) \/ TenantEnsureQuota(out)
           \/ TenantRemoveQuota(out)
    PROVE  NamespaceGuardedInv'
  <1>1. tw.pc # "idle" /\ UNCHANGED tenantLog
    BY DEF TenantEnsureRoleBinding, TenantEnsureQuota, TenantRemoveQuota
  <1>2. /\ tw.key \in Teams /\ tw.obj.uid \in Nat
        /\ quotaHard(tw.obj.res) \in Hards /\ NoHard \in Hards
        /\ {"RoleBinding", "ResourceQuota"} \subseteq Kinds
    BY <1>1, TenantWorkerTypes, HardType DEF Kinds, Hards
  <1>3. tw'.pc \in {"quota", "status"}
    BY TenantGotoFields DEF TenantEnsureRoleBinding, TenantEnsureQuota,
       TenantRemoveQuota, EnsureChild
  <1>4. ASSUME NEW k \in {"RoleBinding", "ResourceQuota"}, NEW hard \in Hards,
               PutChild(tw.key, k, Mutated(Cached(childLog[tw.key][k]), hard))
        PROVE  \A u \in Teams : NamespaceKept(u)
    <2>1. Cached(childLog[tw.key][k]) \in ChildSet
      BY <1>2, StoredTypes DEF TypeOK
    <2>2. Mutated(Cached(childLog[tw.key][k]), hard) \in ChildSet
      BY <1>2, <2>1 DEF Mutated, ChildSet
    <2> QED BY <1>2, <1>4, <2>2, PutKeepsNamespace
  <1>5. ASSUME PutChild(tw.key, "ResourceQuota", AbsentChild)
        PROVE  \A u \in Teams : NamespaceKept(u)
    BY <1>2, <1>5, AbsentTypes, PutKeepsNamespace
  <1>6. \A u \in Teams : NamespaceKept(u)
    BY <1>2, <1>4, <1>5, SameNamespaces DEF TenantEnsureRoleBinding,
       TenantEnsureQuota, TenantRemoveQuota, EnsureChild, CreateOrUpdateEffect
  <1> QED BY <1>1, <1>3, <1>6, TenantSameEvolves, TenantWorkerFree

LEMMA NsGuardStatus ==
    ASSUME TypeOK, NamespaceGuardedInv, NEW out,
           TenantPatchStatus(out) \/ TenantPatchBlocked(out)
    PROVE  NamespaceGuardedInv'
  <1>1. tw.pc # "idle" /\ UNCHANGED childLog /\ \E again : TenantDone(again)
    BY DEF TenantPatchStatus, TenantPatchBlocked
  <1>2. /\ tw.st \in StatusSet(TenantConds)
        /\ TenantAggregateReady(tw.st, tw.obj.gen) \in StatusSet(TenantConds)
    BY <1>1, TenantWorkerTypes, TenantAggregateType
  <1>3. \A u \in Teams : Evolves(tenantLog[u], tenantLog'[u])
    BY <1>1, <1>2, TenantPatchEvolves DEF TenantPatchStatus, TenantPatchBlocked
  <1> QED BY <1>1, <1>3, SameNamespaces, TenantWorkerFree

LEMMA NsGuardList ==
    ASSUME TypeOK, NamespaceGuardedInv, NEW out, TenantListClaims(out)
    PROVE  NamespaceGuardedInv'
  <1>1. UNCHANGED <<tenantLog, childLog>> /\ tw.pc \in TenantDeletePcs
    BY DEF TenantListClaims, TenantDeletePcs
  <1>2. CASE TenantDone(TRUE)
    BY <1>1, <1>2, TenantSameEvolves, SameNamespaces, TenantWorkerFree
  <1>3. CASE \E pc \in {"patchBlocked", "patchDrained"} : \E st :
                TenantGoto(pc, tw.obj, st, FALSE)
    <2>1. /\ tw'.pc \in TenantDeletePcs \ {"deleteNamespace", "release"}
          /\ tw'.key = tw.key
      BY <1>3, TenantGotoFields DEF TenantDeletePcs
    <2> QED BY <1>1, <2>1, TenantSameEvolves, SameNamespaces,
       TenantTeardownGoesOn
  <1> QED BY <1>2, <1>3 DEF TenantListClaims

LEMMA NsGuardPatchDrained ==
    ASSUME TypeOK, NamespaceGuardedInv, NEW out, TenantPatchDrained(out)
    PROVE  NamespaceGuardedInv'
  <1>1. /\ tw.pc # "idle" /\ tw.pc \in TenantDeletePcs /\ UNCHANGED childLog
    BY DEF TenantPatchDrained, TenantDeletePcs
  <1>2. tw.st \in StatusSet(TenantConds)
    BY <1>1, TenantWorkerTypes
  <1>3. \A u \in Teams : Evolves(tenantLog[u], tenantLog'[u])
    BY <1>1, <1>2, TenantPatchEvolves DEF TenantPatchDrained
  <1>4. CASE TenantDone(TRUE)
    BY <1>1, <1>3, <1>4, SameNamespaces, TenantWorkerFree
  <1>5. CASE /\ Tenant(tw.key).live
             /\ TenantGoto("deleteNamespace", TenantPatched(tw.st),
                           TenantPatched(tw.st).status, FALSE)
    <2>1. /\ tw'.pc = "deleteNamespace" /\ tw'.key = tw.key
          /\ tw'.obj = TenantPatched(tw.st)
      BY <1>5, TenantGotoFields
    <2>2. Tenant(tw.key) \in TenantSet
      BY <1>1, TenantWorkerTypes, StoredTypes DEF TypeOK
    <2>3. tw'.obj.live
      BY <1>5, <2>1, <2>2 DEF TenantPatched, TenantSet
    <2>4. tw'.pc \in TenantDeletePcs \ {"release"}
      BY <2>1 DEF TenantDeletePcs
    <2> QED BY <1>1, <1>3, <2>1, <2>3, <2>4, SameNamespaces,
       TenantTeardownGoesOn
  <1> QED BY <1>4, <1>5 DEF TenantPatchDrained

\* The namespace is marked, or gone, before the finalizer is released.
LEMMA NsGuardDelete ==
    ASSUME TypeOK, NamespaceGuardedInv, NEW out, TenantDeleteNamespace(out)
    PROVE  NamespaceGuardedInv'
  <1> DEFINE ns == Child(tw.key, "Namespace")
             v == [ns EXCEPT !.del = TRUE]
  <1>1. /\ tw.pc = "deleteNamespace" /\ tw.pc # "idle"
        /\ tw.pc \in TenantDeletePcs /\ UNCHANGED tenantLog
    BY DEF TenantDeleteNamespace, TenantDeletePcs
  <1>2. tw.key \in Teams /\ "Namespace" \in Kinds /\ ns \in ChildSet
    BY <1>1, TenantWorkerTypes, StoredTypes DEF TypeOK, Kinds
  <1>3. v \in ChildSet /\ v.del
    BY <1>2 DEF ChildSet
  <1>4. \/ UNCHANGED childLog
        \/ PutChild(tw.key, "Namespace", v)
    BY DEF TenantDeleteNamespace
  <1> HIDE DEF v
  <1>5. \A u \in Teams : NamespaceKept(u)
    BY <1>2, <1>3, <1>4, PutKeepsNamespace, SameNamespaces
  <1>6. CASE TenantDone(TRUE)
    BY <1>1, <1>5, <1>6, TenantSameEvolves, TenantWorkerFree
  <1>7. CASE /\ \/ ~ns.live /\ UNCHANGED childLog
                \/ PutChild(tw.key, "Namespace", v)
             /\ TenantGoto("release", tw.obj, tw.st, FALSE)
    <2>1. tw'.pc = "release" /\ tw'.key = tw.key /\ tw'.obj = tw.obj
      BY <1>7, TenantGotoFields
    <2>2. ~(/\ Stored(childLog'[tw.key]["Namespace"]).live
            /\ ~Stored(childLog'[tw.key]["Namespace"]).del)
      BY <1>2, <1>3, <1>7, ChildPut DEF Child
    <2>3. Condemned(tenantLog'[tw.key]) /\ tw.obj.live
      BY <1>1 DEF NamespaceGuardedInv, TenantWorkerInv
    <2>4. TenantWorkerInv'
      BY <2>1, <2>2, <2>3 DEF TenantWorkerInv, NamespaceUsable, Child
    <2> QED BY <1>1, <1>5, <2>4, TenantSameEvolves, NamespacesGuarded
       DEF NamespaceGuardedInv
  <1> QED BY <1>6, <1>7 DEF TenantDeleteNamespace, v

LEMMA NsGuardRelease ==
    ASSUME TypeOK, NamespaceGuardedInv, NEW out, TenantRelease(out)
    PROVE  NamespaceGuardedInv'
  <1> DEFINE t == tw.key
             log == tenantLog[t]
             v == AbsentTenant(tw.obj.uid)
             new == Written(log, v)
  <1>1. /\ tw.pc = "release" /\ tw.pc # "idle" /\ UNCHANGED childLog
        /\ \E again : TenantDone(again)
    BY DEF TenantRelease
  <1>2. /\ t \in Teams /\ tw.obj \in TenantSet /\ tw.obj.uid \in Nat
        /\ log \in Seq(TenantSet) /\ Len(log) >= 1 /\ LogInv(log)
    BY <1>1, TenantWorkerTypes DEF TypeOK, ClusterTypeOK, NamespaceGuardedInv
  <1>3. Condemned(log) /\ ~NamespaceUsable(t) /\ tw.obj.live
    BY <1>1 DEF NamespaceGuardedInv, TenantWorkerInv, TenantDeletePcs
  <1>4. CASE UNCHANGED tenantLog
    BY <1>1, <1>4, TenantSameEvolves, SameNamespaces, TenantWorkerFree
  <1>5. CASE /\ tw.obj.fin /\ Tenant(t) = tw.obj
             /\ PutTenant(t, Unfinalized(tw.obj, AbsentTenant(tw.obj.uid)))
    <2>1. Stored(log) = tw.obj
      BY <1>5 DEF Tenant
    <2>2. tw.obj.del
      BY <1>2, <1>3, <1>5, <2>1, CondemnedStored
    <2>3. PutTenant(t, v)
      BY <1>5, <2>2 DEF Unfinalized
    <2>4. v \in TenantSet /\ ~v.live /\ v.uid = tw.obj.uid
      BY <1>2, AbsentTypes DEF AbsentTenant
    <2> HIDE DEF v, log
    <2>5. LogInv(new)
      BY <1>2, <1>3, <2>1, <2>4, FinalizerReleased, TenantVersions
    <2>6. /\ tenantLog'[t] = new
          /\ \A u \in Teams : u # t => tenantLog'[u] = tenantLog[u]
      BY <1>2, <2>3 DEF PutTenant, TypeOK, ClusterTypeOK, log
    <2> HIDE DEF new
    <2>7. \A u \in Teams : LogInv(tenantLog'[u])
      BY <2>5, <2>6 DEF NamespaceGuardedInv
    <2>8. NamespaceGuarded'
      BY <1>1, <1>3, <2>6 DEF NamespaceGuardedInv, NamespaceGuarded,
         NamespaceUsable, Tenant, Child
    <2>9. TenantWorkerInv'
      BY <1>1 DEF TenantDone, IdleTenantWorker, TenantWorkerInv
    <2> QED BY <2>7, <2>8, <2>9 DEF NamespaceGuardedInv
  <1> QED BY <1>4, <1>5 DEF TenantRelease, Conflict

LEMMA NsGuardTenant ==
    TypeOK /\ NamespaceGuardedInv /\ TenantNext => NamespaceGuardedInv'
  BY NsGuardReconcile, NsGuardFinalizer, NsGuardNamespace, NsGuardContents,
     NsGuardStatus, NsGuardList, NsGuardPatchDrained, NsGuardDelete,
     NsGuardRelease
  DEF TenantNext, TenantStep

LEMMA NsGuardStep ==
    TypeOK /\ TypeOK' /\ NamespaceGuardedInv /\ [Next]_vars
       => NamespaceGuardedInv'
  <1>1. NamespaceGuardedInv /\ UNCHANGED vars => NamespaceGuardedInv'
    BY TenantUnaffected DEF vars
  <1> QED BY <1>1, NsGuardUser, NsGuardClaim, NsGuardTenant, NsGuardWatch,
     NsGuardExternal, NsGuardCrash DEF Next

\* What every version of a Tenant between cache and etcd, and every copy that
\* the reconciler of tenant_controller.go works on, can be relied on for, in
\* every reachable state: ensureNamespace runs only for the incarnation that
\* etcd guards, and a teardown that reaches releaseFinalizer has closed the
\* namespace.
THEOREM NamespaceGuardInvariant == Spec => []NamespaceGuardedInv
  <1>1. Spec => [](TypeOK /\ NamespaceGuardedInv)
    BY TypeInit, TypeStep, NsGuardInit, NsGuardStep, PTL DEF Spec
  <1> QED BY <1>1, PTL

\* A namespace that is not being removed has its Tenant behind it, stored,
\* owning it and carrying the teardown finalizer, however stale the caches of
\* Tenants and namespaces, however often the manager restarts, whichever calls
\* fail, and whatever users delete by hand: "teardown ordering is guaranteed
\* for every Tenant that ever provisioned anything" (tenant_controller.go).
THEOREM NamespaceAlwaysGuarded == Spec => []NamespaceGuarded
  <1>1. NamespaceGuardedInv => NamespaceGuarded
    BY DEF NamespaceGuardedInv
  <1> QED BY <1>1, NamespaceGuardInvariant, PTL

-----------------------------------------------------------------------------
(* Who changes a namespace *)

\* Nobody but ensureNamespace opens one, nobody but reconcileDelete or a user
\* marks one, and only the namespace controller removes one, once it is marked.
LEMMA NamespaceChanges ==
    ASSUME TypeOK, [Next]_vars, NEW t \in Teams
    PROVE  LET ns  == Child(t, "Namespace")
               ns2 == Stored(childLog'[t]["Namespace"])
               o   == Cached(childLog[t]["Namespace"])
           IN  \/ ns2 = ns
               \/ /\ tw.pc = "namespace" /\ tw.key = t
                  /\ \/ ~o.live /\ ~ns.live
                     \/ o = ns
                  /\ ns2 = Mutated(o, NoHard)
               \/ /\ tw.pc = "deleteNamespace" /\ tw.key = t /\ ns.live
                  /\ ns2 = [ns EXCEPT !.del = TRUE]
               \/ /\ "drift" \in Env /\ ns.live
                  /\ ns2 = [ns EXCEPT !.del = TRUE]
               \/ /\ ns.live /\ ns.del /\ ns2 = AbsentChild
                  /\ NamespaceFinalize(t)
  <1> DEFINE log == childLog[t]["Namespace"]
             ns2 == Stored(childLog'[t]["Namespace"])
             Goal == \/ ns2 = Child(t, "Namespace")
                     \/ /\ tw.pc = "namespace" /\ tw.key = t
                        /\ \/ ~Cached(log).live /\ ~Child(t, "Namespace").live
                           \/ Cached(log) = Child(t, "Namespace")
                        /\ ns2 = Mutated(Cached(log), NoHard)
                     \/ /\ tw.pc = "deleteNamespace" /\ tw.key = t
                        /\ Child(t, "Namespace").live
                        /\ ns2 = [Child(t, "Namespace") EXCEPT !.del = TRUE]
                     \/ /\ "drift" \in Env /\ Child(t, "Namespace").live
                        /\ ns2 = [Child(t, "Namespace") EXCEPT !.del = TRUE]
                     \/ /\ Child(t, "Namespace").live
                        /\ Child(t, "Namespace").del /\ ns2 = AbsentChild
                        /\ NamespaceFinalize(t)
  <1> SUFFICES Goal
    OBVIOUS
  <1>a. /\ childLog \in [Teams -> [Kinds -> Seq(ChildSet)]]
        /\ "Namespace" \in Kinds /\ log \in Seq(ChildSet) /\ Len(log) >= 1
        /\ Child(t, "Namespace") \in ChildSet /\ Cached(log) \in ChildSet
    BY StoredTypes DEF TypeOK, ClusterTypeOK, Kinds
  <1>b. ASSUME UNCHANGED childLog PROVE Goal
    BY <1>b DEF Child
  <1>c. ASSUME NEW u \in Teams, NEW k \in Kinds, NEW v \in ChildSet,
               PutChild(u, k, v)
        PROVE  /\ u = t /\ k = "Namespace" => ns2 = v
               /\ u # t \/ k # "Namespace" => ns2 = Child(t, "Namespace")
    BY <1>a, <1>c, ChildPut DEF Child
  <1> HIDE DEF ns2
  <1>1. ASSUME NEW u \in Teams, NEW k \in Kinds, DeleteChildByHand(u, k)
        PROVE  Goal
    <2> DEFINE v == IF k = "Namespace" THEN [Child(u, k) EXCEPT !.del = TRUE]
                                       ELSE AbsentChild
    <2>1. v \in ChildSet
      BY StoredTypes, AbsentTypes DEF TypeOK, ChildSet
    <2>2. PutChild(u, k, v) /\ "drift" \in Env /\ Child(u, k).live
      BY <1>1 DEF DeleteChildByHand
    <2>3. \/ ns2 = Child(t, "Namespace")
          \/ u = t /\ k = "Namespace" /\ ns2 = v
      BY <1>c, <2>1, <2>2
    <2> QED BY <2>2, <2>3
  <1>2. CASE UserNext
    <2>1. \/ \E u \in Teams, k \in Kinds : DeleteChildByHand(u, k)
          \/ UNCHANGED childLog
      BY <1>2 DEF UserNext, CreateTenant, EditTenant, DeleteTenant, CreateClaim,
         AdmitClaim, EditClaim, PersistClaim, DeleteClaim, DeleteAppByHand
    <2> QED BY <1>1, <1>b, <2>1
  <1>3. CASE ClaimNext
    <2>1. UNCHANGED childLog
      BY <1>3 DEF ClaimNext, ClaimReconcile, ClaimStep, ClaimEnsureFinalizer,
         ClaimGate, ClaimEnsureArgoApplication, ClaimPatchStatus, ClaimGetApp,
         ClaimDeleteApp, ClaimPatchDeleting, ClaimPatchDrained, ClaimRelease
    <2> QED BY <1>b, <2>1
  <1>4. ASSUME NEW out \in Outcomes, TenantEnsureNamespace(out) PROVE Goal
    <2> DEFINE o == Cached(childLog[tw.key]["Namespace"])
               v == Mutated(o, NoHard)
    <2>1. tw.pc = "namespace" /\ tw.pc # "idle"
      BY <1>4 DEF TenantEnsureNamespace
    <2>2. tw.key \in Teams /\ o \in ChildSet /\ tw.obj.uid \in Nat
      BY <1>a, <2>1, TenantWorkerTypes, StoredTypes DEF TypeOK
    <2>3. v \in ChildSet
      BY <2>2 DEF Mutated, ChildSet, Hards
    <2>4. \/ UNCHANGED childLog
          \/ /\ PutChild(tw.key, "Namespace", v)
             /\ \/ ~o.live /\ ~Child(tw.key, "Namespace").live
                \/ o = Child(tw.key, "Namespace")
      BY <1>4 DEF TenantEnsureNamespace, EnsureChild, CreateOrUpdateOK,
         CreateOrUpdateEffect
    <2>5. CASE UNCHANGED childLog
      BY <1>b, <2>5
    <2>6. CASE /\ PutChild(tw.key, "Namespace", v)
               /\ \/ ~o.live /\ ~Child(tw.key, "Namespace").live
                  \/ o = Child(tw.key, "Namespace")
      <3>1. \/ ns2 = Child(t, "Namespace")
            \/ tw.key = t /\ ns2 = v
        BY <1>a, <1>c, <2>2, <2>3, <2>6
      <3> QED BY <2>1, <2>6, <3>1
    <2> QED BY <2>4, <2>5, <2>6
  <1>5. ASSUME NEW out \in Outcomes,
               \/ TenantEnsureRoleBinding(out) \/ TenantEnsureQuota(out)
               \/ TenantRemoveQuota(out)
        PROVE  Goal
    <2>1. tw.pc # "idle"
      BY <1>5 DEF TenantEnsureRoleBinding, TenantEnsureQuota, TenantRemoveQuota
    <2>2. /\ tw.key \in Teams /\ tw.obj.uid \in Nat
          /\ quotaHard(tw.obj.res) \in Hards /\ NoHard \in Hards
          /\ {"RoleBinding", "ResourceQuota"} \subseteq Kinds
      BY <2>1, TenantWorkerTypes, HardType DEF Kinds, Hards
    <2>3. \A k \in {"RoleBinding", "ResourceQuota"}, hard \in Hards :
             Mutated(Cached(childLog[tw.key][k]), hard) \in ChildSet
      <3>1. \A k \in {"RoleBinding", "ResourceQuota"} :
               Cached(childLog[tw.key][k]) \in ChildSet
        BY <2>2, StoredTypes DEF TypeOK
      <3>2. \A o \in ChildSet, hard \in Hards : Mutated(o, hard) \in ChildSet
        BY <2>2 DEF Mutated, ChildSet
      <3> QED BY <3>1, <3>2
    <2>4. \/ UNCHANGED childLog
          \/ \E k \in {"RoleBinding", "ResourceQuota"}, v \in ChildSet :
                PutChild(tw.key, k, v)
      BY <1>5, <2>2, <2>3, AbsentTypes DEF TenantEnsureRoleBinding,
         TenantEnsureQuota, TenantRemoveQuota, EnsureChild, CreateOrUpdateEffect
    <2> QED BY <1>b, <1>c, <2>2, <2>4
  <1>6. ASSUME NEW out \in Outcomes, TenantDeleteNamespace(out) PROVE Goal
    <2> DEFINE v == [Child(tw.key, "Namespace") EXCEPT !.del = TRUE]
    <2>1. tw.pc = "deleteNamespace" /\ tw.pc # "idle"
      BY <1>6 DEF TenantDeleteNamespace
    <2>2. tw.key \in Teams /\ v \in ChildSet
      BY <1>a, <2>1, TenantWorkerTypes, StoredTypes DEF TypeOK, ChildSet
    <2>3. \/ UNCHANGED childLog
          \/ Child(tw.key, "Namespace").live /\ PutChild(tw.key, "Namespace", v)
      BY <1>6 DEF TenantDeleteNamespace
    <2>4. CASE UNCHANGED childLog
      BY <1>b, <2>4
    <2>5. CASE /\ Child(tw.key, "Namespace").live
               /\ PutChild(tw.key, "Namespace", v)
      <3>1. \/ ns2 = Child(t, "Namespace")
            \/ tw.key = t /\ ns2 = v
        BY <1>a, <1>c, <2>2, <2>5
      <3> QED BY <2>1, <2>5, <3>1
    <2> QED BY <2>3, <2>4, <2>5
  <1>7. CASE TenantNext
    <2>1. \/ UNCHANGED childLog
          \/ \E out \in Outcomes :
                \/ TenantEnsureNamespace(out) \/ TenantEnsureRoleBinding(out)
                \/ TenantEnsureQuota(out) \/ TenantRemoveQuota(out)
                \/ TenantDeleteNamespace(out)
      BY <1>7 DEF TenantNext, TenantReconcile, TenantStep,
         TenantEnsureFinalizer, TenantPatchStatus, TenantListClaims,
         TenantPatchBlocked, TenantPatchDrained, TenantRelease
    <2> QED BY <1>b, <1>4, <1>5, <1>6, <2>1
  <1>8. CASE WatchNext
    <2>1. ASSUME NEW u \in Teams, NEW k \in Kinds, DeliverChild(u, k) PROVE Goal
      <3>1. childLog[u][k] \in Seq(ChildSet) /\ Len(childLog[u][k]) > 1
        BY <2>1, <1>a DEF DeliverChild
      <3>2. Stored(Tail(childLog[u][k])) = Stored(childLog[u][k])
        BY <3>1, LogTail
      <3>3. Stored(childLog'[t]["Namespace"]) = Stored(log)
        BY <2>1, <1>a, <3>2 DEF DeliverChild
      <3> QED BY <3>3 DEF Child, ns2
    <2>2. \/ UNCHANGED childLog
          \/ \E u \in Teams, k \in Kinds : DeliverChild(u, k)
      BY <1>8 DEF WatchNext, DeliverClaim, DeliverApp, Resync, DeliverTenant
    <2> QED BY <1>b, <2>1, <2>2
  <1>9. CASE ExternalNext
    <2>1. ASSUME NEW u \in Teams, NamespaceFinalize(u) PROVE Goal
      <3>1. CASE u = t
        <4>1. childLog'[t]["Namespace"] = Written(log, AbsentChild)
          BY <1>a, <2>1, <3>1 DEF NamespaceFinalize
        <4>2. ns2 = AbsentChild
          BY <1>a, <4>1, AbsentTypes, LogWritten DEF ns2
        <4>3. Child(t, "Namespace").live /\ Child(t, "Namespace").del
          BY <2>1, <3>1 DEF NamespaceFinalize
        <4> QED BY <2>1, <3>1, <4>2, <4>3
      <3>2. CASE u # t
        <4>1. childLog'[t] = childLog[t]
          BY <1>a, <2>1, <3>2 DEF NamespaceFinalize
        <4> QED BY <4>1 DEF Child, ns2
      <3> QED BY <3>1, <3>2
    <2>2. \/ UNCHANGED childLog
          \/ \E u \in Teams : NamespaceFinalize(u)
      BY <1>9 DEF ExternalNext, ArgoSync, ArgoPrune
    <2> QED BY <1>b, <2>1, <2>2
  <1>10. CASE Crash
    <2>1. childLog'[t]["Namespace"] = <<Child(t, "Namespace")>>
      BY <1>10 DEF Crash, Kinds
    <2> QED BY <2>1 DEF Stored, ns2
  <1>11. CASE UNCHANGED vars
    BY <1>11, <1>b DEF vars
  <1> QED BY <1>2, <1>3, <1>7, <1>8, <1>9, <1>10, <1>11 DEF Next

\* If nobody deletes namespaces by hand, a usable namespace is closed only for
\* the Tenant incarnation that owns it and only once that Tenant is being
\* deleted: the copy that reconcileDelete works on may be old, and of an earlier
\* incarnation, but then the namespace it would delete is not usable.
THEOREM NamespaceClosedOnRequest ==
    ASSUME "drift" \notin Env
    PROVE  Spec => NamespaceDeletedOnRequest
  <1>1. TypeOK /\ NamespaceGuardedInv /\ [Next]_vars =>
           [\A t \in Teams :
               (NamespaceUsable(t) /\ ~NamespaceUsable(t)') =>
                  /\ Tenant(t).live /\ Tenant(t).del
                  /\ Tenant(t).uid = Child(t, "Namespace").owner]_vars
    <2> SUFFICES ASSUME TypeOK, NamespaceGuardedInv, [Next]_vars,
                        NEW t \in Teams,
                        NamespaceUsable(t), ~NamespaceUsable(t)'
                 PROVE  /\ Tenant(t).live /\ Tenant(t).del
                        /\ Tenant(t).uid = Child(t, "Namespace").owner
      OBVIOUS
    <2> DEFINE ns == Child(t, "Namespace")
               ns2 == Stored(childLog'[t]["Namespace"])
    <2>1. ns.live /\ ~ns.del /\ ~(ns2.live /\ ~ns2.del) /\ ns \in ChildSet
      BY StoredTypes DEF NamespaceUsable, Child, TypeOK, Kinds
    <2>2. ns2 # ns /\ Mutated(ns, NoHard).live /\ ~Mutated(ns, NoHard).del
      BY <2>1 DEF Mutated, ChildSet
    <2>3. tw.pc = "deleteNamespace" /\ tw.key = t
      BY <2>1, <2>2, NamespaceChanges
    <2>4. Condemned(tenantLog[t])
      BY <2>3 DEF NamespaceGuardedInv, TenantWorkerInv, TenantDeletePcs
    <2>5. Tenant(t).live /\ Tenant(t).fin /\ Tenant(t).uid = ns.owner
      BY DEF NamespaceGuardedInv, NamespaceGuarded
    <2>6. Tenant(t).del
      BY <2>4, <2>5, CondemnedStored DEF Tenant, TypeOK, ClusterTypeOK
    <2> QED BY <2>5, <2>6
  <1>2. Spec => [](TypeOK /\ NamespaceGuardedInv)
    BY TypeInit, TypeStep, NsGuardInit, NsGuardStep, PTL DEF Spec
  <1>3. Spec => [][Next]_vars
    BY PTL DEF Spec
  <1> QED BY <1>1, <1>2, <1>3, PTL DEF NamespaceDeletedOnRequest
=============================================================================
