-------------------------- MODULE QuiescenceProofs --------------------------
(***************************************************************************)
(* Proofs about Quiescence: a Tenant or a claim that nobody is about to    *)
(* look at is as its spec asks, and says so, for every set of teams and    *)
(* claims and whatever the caches, the faults, the users and restarts of   *)
(* the manager do.                                                         *)
(***************************************************************************)
EXTENDS Quiescence, PlatformProofs

-----------------------------------------------------------------------------
(* Version logs *)

\* A write leaves its version behind, and a log without events only if it
\* changed nothing.
LEMMA WrittenAny ==
    ASSUME NEW S, NEW log \in Seq(S), Len(log) >= 1, NEW v
    PROVE  /\ Stored(Written(log, v)) = v
           /\ Cached(Written(log, v)) = Cached(log)
           /\ Len(Written(log, v)) = 1 => Written(log, v) = log
  <1>1. log \in Seq(S \cup {v}) /\ v \in S \cup {v}
    OBVIOUS
  <1>2. Len(Append(log, v)) = Len(log) + 1 /\ Append(log, v)[Len(log) + 1] = v
        /\ Len(log) \in Nat /\ Append(log, v)[1] = log[1]
    BY <1>1
  <1>. QED  BY <1>2 DEF Written, Stored, Cached

LEMMA PutTenantFacts ==
    ASSUME ClusterTypeOK, NEW t \in Teams, NEW v, PutTenant(t, v)
    PROVE  /\ Tenant(t)' = v
           /\ Cached(tenantLog'[t]) = Cached(tenantLog[t])
           /\ Len(tenantLog'[t]) = 1 => tenantLog'[t] = tenantLog[t]
           /\ \A u \in Teams : u # t => tenantLog'[u] = tenantLog[u]
  <1>1. tenantLog[t] \in Seq(TenantSet) /\ Len(tenantLog[t]) >= 1
        /\ tenantLog \in [Teams -> Seq(TenantSet)]
    BY DEF ClusterTypeOK
  <1>2. tenantLog' = [tenantLog EXCEPT ![t] = Written(tenantLog[t], v)]
    BY DEF PutTenant
  <1>3. tenantLog'[t] = Written(tenantLog[t], v)
        /\ \A u \in Teams : u # t => tenantLog'[u] = tenantLog[u]
    BY <1>1, <1>2
  <1>. QED  BY <1>1, <1>3, WrittenAny DEF Tenant

LEMMA PutClaimFacts ==
    ASSUME ClusterTypeOK, NEW c \in Claims, NEW v, PutClaim(c, v)
    PROVE  /\ Claim(c)' = v
           /\ Len(claimLog'[c]) = 1 => claimLog'[c] = claimLog[c]
           /\ \A d \in Claims : d # c => claimLog'[d] = claimLog[d]
  <1>1. claimLog[c] \in Seq(ClaimSet) /\ Len(claimLog[c]) >= 1
        /\ claimLog \in [Claims -> Seq(ClaimSet)]
    BY DEF ClusterTypeOK
  <1>2. claimLog' = [claimLog EXCEPT ![c] = Written(claimLog[c], v)]
    BY DEF PutClaim
  <1>3. claimLog'[c] = Written(claimLog[c], v)
        /\ \A d \in Claims : d # c => claimLog'[d] = claimLog[d]
    BY <1>1, <1>2
  <1>. QED  BY <1>1, <1>3, WrittenAny DEF Claim

LEMMA PutChildFacts ==
    ASSUME ClusterTypeOK, NEW t \in Teams, NEW k \in Kinds, NEW v,
           PutChild(t, k, v)
    PROVE  /\ Child(t, k)' = v
           /\ Len(childLog'[t][k]) = 1 => childLog'[t] = childLog[t]
           /\ \A u \in Teams, j \in Kinds :
                 u # t \/ j # k => childLog'[u][j] = childLog[u][j]
           /\ \A u \in Teams : u # t => childLog'[u] = childLog[u]
  <1>. DEFINE new == Written(childLog[t][k], v)
  <1>1. childLog[t][k] \in Seq(ChildSet) /\ Len(childLog[t][k]) >= 1
        /\ childLog \in [Teams -> [Kinds -> Seq(ChildSet)]]
    BY DEF ClusterTypeOK
  <1>2. Stored(new) = v /\ (Len(new) = 1 => new = childLog[t][k])
    BY <1>1, WrittenAny
  <1>3. childLog' = [childLog EXCEPT ![t] = [childLog[t] EXCEPT ![k] = new]]
    BY DEF PutChild
  <1>. HIDE DEF new
  <1>4. /\ childLog'[t] = [childLog[t] EXCEPT ![k] = new]
        /\ \A u \in Teams : u # t => childLog'[u] = childLog[u]
    BY <1>1, <1>3
  <1>5. childLog'[t][k] = new
        /\ \A j \in Kinds : j # k => childLog'[t][j] = childLog[t][j]
    BY <1>1, <1>4
  <1>6. new = childLog[t][k] => childLog'[t] = childLog[t]
    BY <1>1, <1>4
  <1>. QED  BY <1>2, <1>4, <1>5, <1>6 DEF Child

-----------------------------------------------------------------------------
(* Tenants: a quiet Tenant was quiet before, and has not changed *)

QuietStays(t) ==
    TenantQuiet(t)' => /\ TenantQuiet(t)
                       /\ tenantLog'[t] = tenantLog[t]
                       /\ childLog'[t] = childLog[t]

\* A step that queues no less and writes no log of t.
LEMMA QuietSame ==
    ASSUME NEW t \in Teams, t \in tenantQueue => t \in tenantQueue',
           tenantLog'[t] = tenantLog[t], childLog'[t] = childLog[t]
    PROVE  QuietStays(t)
  BY DEF QuietStays, TenantQuiet

LEMMA QuietPutTenant ==
    ASSUME ClusterTypeOK, NEW u \in Teams, NEW v, PutTenant(u, v),
           childLog' = childLog, tenantQueue \subseteq tenantQueue',
           NEW t \in Teams
    PROVE  QuietStays(t)
  <1>1. CASE t = u
    BY <1>1, PutTenantFacts DEF QuietStays, TenantQuiet
  <1>2. CASE t # u
    BY <1>2, PutTenantFacts, QuietSame
  <1>. QED  BY <1>1, <1>2

LEMMA QuietPutChild ==
    ASSUME ClusterTypeOK, NEW u \in Teams, NEW k \in Kinds, NEW v,
           PutChild(u, k, v),
           tenantLog' = tenantLog, tenantQueue \subseteq tenantQueue',
           NEW t \in Teams
    PROVE  QuietStays(t)
  <1>1. CASE t = u
    BY <1>1, PutChildFacts DEF QuietStays, TenantQuiet
  <1>2. CASE t # u
    BY <1>2, PutChildFacts, QuietSame
  <1>. QED  BY <1>1, <1>2

-----------------------------------------------------------------------------
(* The parts of TenantQuietInv *)

ChildrenClean ==
    \A t \in Teams, k \in Kinds : ~Child(t, k).live => Child(t, k) = AbsentChild

TenantRests(t) ==
    /\ Tenant(t).live /\ ~Tenant(t).del
    /\ TenantQuiet(t) /\ tw.key # t
    => /\ ReadyForGeneration(Tenant(t))
       /\ \A k \in Kinds : ChildInPlace(t, Tenant(t), k)

LEMMA TenantQuietParts ==
    TenantQuietInv <=> /\ ChildrenClean
                       /\ TenantReconcileUpToDate
                       /\ \A t \in Teams : TenantRests(t)
  BY DEF TenantQuietInv, ChildrenClean, TenantRests

LEMMA TenantQuietNext ==
    ASSUME ChildrenClean', TenantReconcileUpToDate',
           \A t \in Teams : TenantRests(t)'
    PROVE  TenantQuietInv'
  BY DEF TenantQuietInv, ChildrenClean, TenantRests

\* What stays the same for a Tenant that is quiet after the step.
LEMMA QuietMeansSame ==
    ASSUME NEW t \in Teams, QuietStays(t), TenantQuiet(t)'
    PROVE  /\ TenantQuiet(t)
           /\ Tenant(t)' = Tenant(t)
           /\ \A k \in Kinds : Child(t, k)' = Child(t, k)
           /\ \A s, k : ChildInPlace(t, s, k)' <=> ChildInPlace(t, s, k)
  <1>1. /\ TenantQuiet(t) /\ tenantLog'[t] = tenantLog[t]
        /\ childLog'[t] = childLog[t]
    BY DEF QuietStays
  <1>2. \A k : Child(t, k)' = Child(t, k)
    BY <1>1 DEF Child
  <1>3. Tenant(t)' = Tenant(t)
    BY <1>1 DEF Tenant
  <1>. QED  BY <1>1, <1>2, <1>3 DEF ChildInPlace

\* The cache of a quiet Tenant is what etcd holds.
LEMMA QuietIsFresh ==
    ASSUME NEW t \in Teams, TenantQuiet(t)
    PROVE  /\ Cached(tenantLog[t]) = Tenant(t)
           /\ \A k \in Kinds : Cached(childLog[t][k]) = Child(t, k)
  BY DEF TenantQuiet, Cached, Tenant, Child, Stored

LEMMA RestsStay ==
    ASSUME NEW t \in Teams, QuietStays(t), TenantRests(t), tw.key # t
    PROVE  TenantRests(t)'
  <1>. SUFFICES ASSUME TenantQuiet(t)', Tenant(t)'.live, ~Tenant(t)'.del
                PROVE  /\ ReadyForGeneration(Tenant(t)')
                       /\ \A k \in Kinds : ChildInPlace(t, Tenant(t), k)'
    BY DEF TenantRests
  <1>1. /\ TenantQuiet(t) /\ Tenant(t)' = Tenant(t)
        /\ \A s, k : ChildInPlace(t, s, k)' <=> ChildInPlace(t, s, k)
    BY QuietMeansSame
  <1>2. /\ ReadyForGeneration(Tenant(t))
        /\ \A k \in Kinds : ChildInPlace(t, Tenant(t), k)
    BY <1>1 DEF TenantRests
  <1>3. PICK s : s = Tenant(t)
    OBVIOUS
  <1>4. \A k \in Kinds : ChildInPlace(t, s, k)'
    BY <1>1, <1>2, <1>3
  <1>5. s = Tenant(t)'
    BY <1>1, <1>3
  <1>6. ASSUME NEW k \in Kinds PROVE ChildInPlace(t, Tenant(t), k)'
    BY <1>4, <1>5 DEF ChildInPlace
  <1>. QED  BY <1>1, <1>2, <1>6

\* A write of an object that is there, or of none at all.
LEMMA CleanPut ==
    ASSUME ClusterTypeOK, ChildrenClean, NEW t \in Teams, NEW k \in Kinds, NEW v,
           PutChild(t, k, v), v.live \/ v = AbsentChild
    PROVE  ChildrenClean'
  <1>1. ASSUME NEW u \in Teams, NEW j \in Kinds, ~Child(u, j)'.live
        PROVE  Child(u, j)' = AbsentChild
    <2>1. CASE u = t /\ j = k
      BY <1>1, <2>1, PutChildFacts
    <2>2. CASE ~(u = t /\ j = k)
      <3>1. Child(u, j)' = Child(u, j)
        BY <2>2, PutChildFacts DEF Child
      <3>. QED  BY <1>1, <3>1 DEF ChildrenClean
    <2>. QED  BY <2>1, <2>2
  <1>. QED  BY <1>1 DEF ChildrenClean

LEMMA CleanSame ==
    ASSUME ChildrenClean, childLog' = childLog PROVE ChildrenClean'
  BY DEF ChildrenClean, Child

-----------------------------------------------------------------------------
(* Steps of everyone but the Tenant controller *)

\* They leave its worker alone, and they queue a Tenant or leave an event behind
\* whenever they change anything about it.
Elsewhere == tw' = tw /\ ChildrenClean' /\ \A t \in Teams : QuietStays(t)

LEMMA ElsewhereUser ==
    ASSUME TypeOK, ChildrenClean, UserNext PROVE Elsewhere
  <1>a. ClusterTypeOK
    BY DEF TypeOK
  <1>1. ASSUME NEW u \in Teams, NEW v, PutTenant(u, v), tw' = tw,
               childLog' = childLog, tenantQueue' = tenantQueue
        PROVE  Elsewhere
    BY <1>a, <1>1, QuietPutTenant, CleanSame DEF Elsewhere
  <1>2. ASSUME tw' = tw, tenantLog' = tenantLog, childLog' = childLog,
               tenantQueue' = tenantQueue
        PROVE  Elsewhere
    BY <1>2, QuietSame, CleanSame DEF Elsewhere
  <1>3. ASSUME NEW t \in Teams, NEW res \in Resources, CreateTenant(t, res)
        PROVE  Elsewhere
    BY <1>1, <1>3 DEF CreateTenant, queues, workers
  <1>4. ASSUME NEW t \in Teams, NEW res \in Resources, EditTenant(t, res)
        PROVE  Elsewhere
    <2>1. \E v : PutTenant(t, v)
      BY <1>4 DEF EditTenant
    <2>. QED  BY <1>1, <1>4, <2>1 DEF EditTenant, queues, workers
  <1>5. ASSUME NEW t \in Teams, DeleteTenant(t)
        PROVE  Elsewhere
    BY <1>1, <1>5 DEF DeleteTenant, queues, workers
  <1>6. ASSUME NEW c \in Claims, NEW t \in Teams, NEW img \in Images,
               CreateClaim(c, t, img) \/ AdmitClaim(c, t, img)
                  \/ EditClaim(c, t, img)
        PROVE  Elsewhere
    <2>1. tw' = tw /\ tenantLog' = tenantLog /\ childLog' = childLog
          /\ tenantQueue' = tenantQueue
      BY <1>6 DEF CreateClaim, AdmitClaim, EditClaim, queues, workers
    <2>. QED  BY <1>2, <2>1
  <1>7. ASSUME NEW c \in Claims,
               PersistClaim(c) \/ DeleteClaim(c) \/ DeleteAppByHand(c)
        PROVE  Elsewhere
    <2>1. tw' = tw /\ tenantLog' = tenantLog /\ childLog' = childLog
          /\ tenantQueue' = tenantQueue
      BY <1>7 DEF PersistClaim, DeleteClaim, DeleteAppByHand, queues, workers
    <2>. QED  BY <1>2, <2>1
  <1>8. ASSUME NEW t \in Teams, NEW k \in Kinds, DeleteChildByHand(t, k)
        PROVE  Elsewhere
    <2>. DEFINE v == IF k = "Namespace"
                     THEN [Child(t, k) EXCEPT !.del = TRUE] ELSE AbsentChild
    <2>1. Child(t, k) \in ChildSet /\ Child(t, k).live
      BY <1>a, <1>8, StoredTypes DEF DeleteChildByHand
    <2>2. v.live \/ v = AbsentChild
      BY <2>1 DEF ChildSet
    <2>3. PutChild(t, k, v) /\ tw' = tw /\ tenantLog' = tenantLog
          /\ tenantQueue' = tenantQueue
      BY <1>8 DEF DeleteChildByHand, queues
    <2>. HIDE DEF v
    <2>4. ChildrenClean'
      BY <1>a, <2>2, <2>3, CleanPut
    <2>5. \A u \in Teams : QuietStays(u)
      BY <1>a, <2>3, QuietPutChild
    <2>. QED  BY <2>3, <2>4, <2>5 DEF Elsewhere
  <1>. QED  BY <1>3, <1>4, <1>5, <1>6, <1>7, <1>8 DEF UserNext

LEMMA ElsewhereClaim ==
    ASSUME ChildrenClean, ClaimNext PROVE Elsewhere
  <1>1. ASSUME NEW c \in Claims, ClaimReconcile(c)
        PROVE  tw' = tw /\ tenantLog' = tenantLog /\ childLog' = childLog
               /\ tenantQueue' = tenantQueue
    BY <1>1 DEF ClaimReconcile
  <1>2. ASSUME NEW out \in Outcomes, ClaimStep(out)
        PROVE  tw' = tw /\ tenantLog' = tenantLog /\ childLog' = childLog
               /\ tenantQueue' = tenantQueue
    BY <1>2 DEF ClaimStep, ClaimEnsureFinalizer, ClaimGate,
       ClaimEnsureArgoApplication, ClaimPatchStatus, ClaimGetApp,
       ClaimDeleteApp, ClaimPatchDeleting, ClaimPatchDrained, ClaimRelease
  <1>3. tw' = tw /\ tenantLog' = tenantLog /\ childLog' = childLog
        /\ tenantQueue' = tenantQueue
    BY <1>1, <1>2 DEF ClaimNext
  <1>. QED  BY <1>3, QuietSame, CleanSame DEF Elsewhere

LEMMA ElsewhereWatch ==
    ASSUME TypeOK, ChildrenClean, WatchNext PROVE Elsewhere
  <1>a. ClusterTypeOK
    BY DEF TypeOK
  <1>1. ASSUME NEW c \in Claims, DeliverClaim(c) \/ DeliverApp(c) \/ Resync(c)
        PROVE  Elsewhere
    <2>1. tw' = tw /\ tenantLog' = tenantLog /\ childLog' = childLog
          /\ tenantQueue \subseteq tenantQueue'
      BY <1>1 DEF DeliverClaim, DeliverApp, Resync, workers
    <2>. QED  BY <2>1, QuietSame, CleanSame DEF Elsewhere
  <1>2. ASSUME NEW u \in Teams, NEW out \in ListOutcomes, DeliverTenant(u, out)
        PROVE  Elsewhere
    <2>1. tw' = tw /\ childLog' = childLog /\ tenantQueue' = tenantQueue \cup {u}
          /\ \A t \in Teams : t # u => tenantLog'[t] = tenantLog[t]
      BY <1>a, <1>2 DEF DeliverTenant, workers, ClusterTypeOK
    <2>2. ASSUME NEW t \in Teams PROVE QuietStays(t)
      <3>1. CASE t = u
        BY <2>1, <3>1 DEF QuietStays, TenantQuiet
      <3>2. CASE t # u
        BY <2>1, <3>2, QuietSame
      <3>. QED  BY <3>1, <3>2
    <2>. QED  BY <2>1, <2>2, CleanSame DEF Elsewhere
  <1>3. ASSUME NEW u \in Teams, NEW k \in Kinds, DeliverChild(u, k)
        PROVE  Elsewhere
    <2>. DEFINE tail == Tail(childLog[u][k])
    <2>1. /\ childLog[u][k] \in Seq(ChildSet) /\ Len(childLog[u][k]) > 1
          /\ childLog \in [Teams -> [Kinds -> Seq(ChildSet)]]
      BY <1>a, <1>3 DEF DeliverChild, ClusterTypeOK
    <2>2. Stored(tail) = Child(u, k)
      BY <2>1, LogTail DEF Child
    <2>3. /\ tw' = tw /\ tenantLog' = tenantLog
          /\ tenantQueue' = tenantQueue \cup {u}
          /\ childLog' = [childLog EXCEPT ![u] = [childLog[u] EXCEPT ![k] = tail]]
      BY <1>3 DEF DeliverChild, workers
    <2>. HIDE DEF tail
    <2>4. /\ childLog'[u] = [childLog[u] EXCEPT ![k] = tail]
          /\ \A t \in Teams : t # u => childLog'[t] = childLog[t]
      BY <2>1, <2>3
    <2>5. childLog'[u][k] = tail
          /\ \A j \in Kinds : j # k => childLog'[u][j] = childLog[u][j]
      BY <2>1, <2>4
    <2>6. \A t \in Teams, j \in Kinds : Child(t, j)' = Child(t, j)
      BY <2>2, <2>4, <2>5 DEF Child
    <2>7. ASSUME NEW t \in Teams PROVE QuietStays(t)
      <3>1. CASE t = u
        BY <2>3, <3>1 DEF QuietStays, TenantQuiet
      <3>2. CASE t # u
        BY <2>3, <2>4, <3>2, QuietSame
      <3>. QED  BY <3>1, <3>2
    <2>8. ChildrenClean'
      BY <2>6 DEF ChildrenClean
    <2>. QED  BY <2>3, <2>7, <2>8 DEF Elsewhere
  <1>. QED  BY <1>1, <1>2, <1>3 DEF WatchNext

LEMMA ElsewhereExternal ==
    ASSUME TypeOK, ChildrenClean, ExternalNext PROVE Elsewhere
  <1>a. ClusterTypeOK
    BY DEF TypeOK
  <1>1. ASSUME NEW c \in Claims, ArgoSync(c) \/ ArgoPrune(c)
        PROVE  Elsewhere
    <2>1. tw' = tw /\ tenantLog' = tenantLog /\ childLog' = childLog
          /\ tenantQueue' = tenantQueue
      BY <1>1 DEF ArgoSync, ArgoPrune, queues, workers
    <2>. QED  BY <2>1, QuietSame, CleanSame DEF Elsewhere
  <1>2. ASSUME NEW u \in Teams, NamespaceFinalize(u)
        PROVE  Elsewhere
    <2>. DEFINE inner == [k \in Kinds |-> Written(childLog[u][k], AbsentChild)]
    <2>1. /\ tw' = tw /\ tenantLog' = tenantLog /\ tenantQueue' = tenantQueue
          /\ childLog' = [childLog EXCEPT ![u] = inner]
      BY <1>2 DEF NamespaceFinalize, queues, workers
    <2>2. ASSUME NEW k \in Kinds
          PROVE  /\ Stored(inner[k]) = AbsentChild
                 /\ Len(inner[k]) = 1 => inner[k] = childLog[u][k]
      <3>1. childLog[u][k] \in Seq(ChildSet) /\ Len(childLog[u][k]) >= 1
        BY <1>a DEF ClusterTypeOK
      <3>. QED  BY <3>1, WrittenAny
    <2>3. inner = [k \in Kinds |-> inner[k]]
      OBVIOUS
    <2>. HIDE DEF inner
    <2>4. childLog \in [Teams -> [Kinds -> Seq(ChildSet)]]
      BY <1>a DEF ClusterTypeOK
    <2>5. childLog'[u] = inner
          /\ \A t \in Teams : t # u => childLog'[t] = childLog[t]
      BY <2>1, <2>4
    <2>6. ASSUME NEW t \in Teams PROVE QuietStays(t)
      <3>1. CASE t = u
        <4>. SUFFICES ASSUME TenantQuiet(t)'
                      PROVE  TenantQuiet(t) /\ tenantLog'[t] = tenantLog[t]
                             /\ childLog'[t] = childLog[t]
          BY DEF QuietStays
        <4>1. \A k \in Kinds : Len(childLog'[t][k]) = 1
          BY DEF TenantQuiet
        <4>2. \A k \in Kinds : inner[k] = childLog[u][k]
          BY <2>2, <2>5, <3>1, <4>1
        <4>3. childLog'[t] = childLog[t]
          BY <2>3, <2>4, <2>5, <3>1, <4>2
        <4>. QED  BY <2>1, <4>3 DEF TenantQuiet
      <3>2. CASE t # u
        BY <2>1, <2>5, <3>2, QuietSame
      <3>. QED  BY <3>1, <3>2
    <2>7. ASSUME NEW t \in Teams, NEW k \in Kinds, ~Child(t, k)'.live
          PROVE  Child(t, k)' = AbsentChild
      <3>1. CASE t = u
        BY <2>2, <2>5, <3>1 DEF Child
      <3>2. CASE t # u
        <4>1. Child(t, k)' = Child(t, k)
          BY <2>5, <3>2 DEF Child
        <4>. QED  BY <2>7, <4>1 DEF ChildrenClean
      <3>. QED  BY <3>1, <3>2
    <2>8. ChildrenClean'
      BY <2>7 DEF ChildrenClean
    <2>. QED  BY <2>1, <2>6, <2>8 DEF Elsewhere
  <1>. QED  BY <1>1, <1>2 DEF ExternalNext

\* What TenantReconcileUpToDate asks for after a step, for a known key and copy.
LEMMA UpToDateNext ==
    ASSUME NEW t \in Teams, NEW o, tw'.key = t, tw'.obj = o,
           tw'.err => tw'.pc = "status",
           ~tw'.err => \A k \in TenantStepsDone(tw'.pc) :
                          IsStatusConditionTrue(tw'.st, TenantStepCond(k)),
           TenantQuiet(t)' /\ tw'.pc \in TenantDeletePcs =>
              ~Tenant(t)'.live \/ Tenant(t)'.del,
           TenantQuiet(t)' /\ tw'.pc \in TenantMainPcs =>
              /\ o = Tenant(t)'
              /\ ~tw'.err => \A k \in TenantStepsDone(tw'.pc) :
                                ChildInPlace(t, o, k)'
    PROVE  TenantReconcileUpToDate'
  BY DEF TenantReconcileUpToDate, TenantQuiet, Tenant, ChildInPlace, Child

\* Such a step keeps the invariant.
LEMMA ElsewhereKeeps ==
    ASSUME TypeOK, TenantQuietInv, Elsewhere PROVE TenantQuietInv'
  <1>1. /\ ChildrenClean /\ TenantReconcileUpToDate
        /\ \A t \in Teams : TenantRests(t)
    BY TenantQuietParts
  <1>2. tw' = tw /\ ChildrenClean' /\ \A t \in Teams : QuietStays(t)
    BY DEF Elsewhere
  <1>3. ASSUME NEW t \in Teams PROVE TenantRests(t)'
    <2>1. CASE tw.key = t
      BY <1>2, <2>1 DEF TenantRests
    <2>2. CASE tw.key # t
      BY <1>1, <1>2, <2>2, RestsStay
    <2>. QED  BY <2>1, <2>2
  <1>4. TenantReconcileUpToDate'
    <2>1. CASE tw.pc = "idle" \/ ~TenantQuiet(tw.key)'
      BY <1>1, <1>2, <2>1 DEF TenantReconcileUpToDate
    <2>2. CASE tw.pc # "idle" /\ TenantQuiet(tw.key)'
      <3>1. PICK t \in Teams : t = tw.key
        BY <2>2, TenantWorkerTypes
      <3>2. PICK o : o = tw.obj
        OBVIOUS
      <3>3. tw'.key = t /\ tw'.obj = o /\ TenantQuiet(t)'
        BY <1>2, <2>2, <3>1, <3>2
      <3>4. /\ TenantQuiet(t) /\ Tenant(t)' = Tenant(t)
            /\ \A s, k : ChildInPlace(t, s, k)' <=> ChildInPlace(t, s, k)
        BY <1>2, <3>3, QuietMeansSame
      <3>5. /\ tw.pc \in TenantDeletePcs => ~Tenant(t).live \/ Tenant(t).del
            /\ tw.pc \in TenantMainPcs =>
                  /\ o = Tenant(t)
                  /\ ~tw.err => \A k \in TenantStepsDone(tw.pc) :
                                   ChildInPlace(t, o, k)
        BY <1>1, <2>2, <3>1, <3>2, <3>4 DEF TenantReconcileUpToDate
      <3>6. /\ tw'.pc \in TenantDeletePcs => ~Tenant(t)'.live \/ Tenant(t)'.del
            /\ tw'.pc \in TenantMainPcs =>
                  /\ o = Tenant(t)'
                  /\ ~tw'.err => \A k \in TenantStepsDone(tw'.pc) :
                                    ChildInPlace(t, o, k)'
        BY <1>2, <3>4, <3>5
      <3>7. /\ tw'.err => tw'.pc = "status"
            /\ ~tw'.err => \A k \in TenantStepsDone(tw'.pc) :
                              IsStatusConditionTrue(tw'.st, TenantStepCond(k))
        BY <1>1, <1>2 DEF TenantReconcileUpToDate
      <3>. QED  BY <3>3, <3>6, <3>7, UpToDateNext
    <2>. QED  BY <2>1, <2>2
  <1>. QED  BY <1>2, <1>3, <1>4, TenantQuietNext

-----------------------------------------------------------------------------
(* Steps of the Tenant controller *)

\* A step of the worker that ends well: the other Tenants are not concerned.
LEMMA WorkerKeeps ==
    ASSUME TypeOK, TenantQuietInv, NEW t \in Teams, tw.key = t,
           ChildrenClean', TenantReconcileUpToDate',
           \A u \in Teams : QuietStays(u), tw'.key = t \/ TenantRests(t)'
    PROVE  TenantQuietInv'
  <1>1. ASSUME NEW u \in Teams PROVE TenantRests(u)'
    <2>1. CASE u = t
      BY <2>1 DEF TenantRests
    <2>2. CASE u # t
      <3>1. TenantRests(u)
        BY TenantQuietParts
      <3>. QED  BY <2>2, <3>1, RestsStay
    <2>. QED  BY <2>1, <2>2
  <1>. QED  BY <1>1, TenantQuietNext

LEMMA IdleUpToDate ==
    ASSUME tw' = IdleTenantWorker PROVE TenantReconcileUpToDate'
  BY DEF TenantReconcileUpToDate, IdleTenantWorker, TenantStepsDone

\* The reconcile returns with an error or asks to come back.
LEMMA DoneAgain ==
    ASSUME TypeOK, TenantQuietInv, NEW t \in Teams, tw.key = t,
           ChildrenClean', \A u \in Teams : QuietStays(u), TenantDone(TRUE)
    PROVE  TenantQuietInv'
  <1>1. tw' = IdleTenantWorker /\ t \in tenantQueue'
    BY DEF TenantDone
  <1>2. TenantReconcileUpToDate'
    BY <1>1, IdleUpToDate
  <1>3. TenantRests(t)'
    BY <1>1 DEF TenantRests, TenantQuiet
  <1>. QED  BY <1>2, <1>3, WorkerKeeps

\* It returns for good.
LEMMA DoneForGood ==
    ASSUME TypeOK, TenantQuietInv, NEW t \in Teams, tw.key = t,
           ChildrenClean', \A u \in Teams : QuietStays(u), TenantDone(FALSE),
           TenantQuiet(t)' /\ Tenant(t)'.live /\ ~Tenant(t)'.del =>
              /\ ReadyForGeneration(Tenant(t)')
              /\ \A k \in Kinds : ChildInPlace(t, Tenant(t), k)'
    PROVE  TenantQuietInv'
  <1>1. tw' = IdleTenantWorker
    BY DEF TenantDone
  <1>2. TenantReconcileUpToDate'
    BY <1>1, IdleUpToDate
  <1>3. TenantRests(t)'
    BY DEF TenantRests
  <1>. QED  BY <1>2, <1>3, WorkerKeeps

\* It goes on.
LEMMA GoesOn ==
    ASSUME TypeOK, TenantQuietInv, NEW t \in Teams, tw.key = t,
           ChildrenClean', \A u \in Teams : QuietStays(u),
           NEW pc, NEW o, NEW st, NEW err \in BOOLEAN, TenantGoto(pc, o, st, err),
           err => pc = "status",
           ~err => \A k \in TenantStepsDone(pc) :
                      IsStatusConditionTrue(st, TenantStepCond(k)),
           TenantQuiet(t)' /\ pc \in TenantDeletePcs =>
              ~Tenant(t)'.live \/ Tenant(t)'.del,
           TenantQuiet(t)' /\ pc \in TenantMainPcs =>
              /\ o = Tenant(t)'
              /\ ~err => \A k \in TenantStepsDone(pc) : ChildInPlace(t, o, k)'
    PROVE  TenantQuietInv'
  <1>1. tw' = [tw EXCEPT !.pc = pc, !.obj = o, !.st = st, !.err = err]
    BY DEF TenantGoto
  <1>2. tw'.key = t /\ tw'.obj = o /\ tw'.pc = pc /\ tw'.st = st /\ tw'.err = err
    BY <1>1 DEF TypeOK, TenantWorkerTypeOK
  <1>3. TenantReconcileUpToDate'
    BY <1>2, UpToDateNext
  <1>. QED  BY <1>2, <1>3, WorkerKeeps

\* Events after a step that writes at most the Tenant, or one of its objects.
LEMMA WorkerPutTenant ==
    ASSUME TypeOK, ChildrenClean, NEW t \in Teams, NEW v,
           UNCHANGED tenantLog \/ PutTenant(t, v),
           childLog' = childLog, tenantQueue \subseteq tenantQueue'
    PROVE  ChildrenClean' /\ \A u \in Teams : QuietStays(u)
  <1>1. CASE UNCHANGED tenantLog
    BY <1>1, QuietSame, CleanSame
  <1>2. CASE PutTenant(t, v)
    BY <1>2, QuietPutTenant, CleanSame DEF TypeOK
  <1>. QED  BY <1>1, <1>2

LEMMA WorkerPutChild ==
    ASSUME TypeOK, ChildrenClean, NEW t \in Teams, NEW k \in Kinds, NEW v,
           UNCHANGED childLog \/ PutChild(t, k, v), v.live \/ v = AbsentChild,
           tenantLog' = tenantLog, tenantQueue \subseteq tenantQueue'
    PROVE  ChildrenClean' /\ \A u \in Teams : QuietStays(u)
  <1>1. CASE UNCHANGED childLog
    BY <1>1, QuietSame, CleanSame
  <1>2. CASE PutChild(t, k, v)
    BY <1>2, QuietPutChild, CleanPut DEF TypeOK
  <1>. QED  BY <1>1, <1>2

\* What the invariant says about the running reconcile.
LEMMA RunningUpToDate ==
    ASSUME TypeOK, TenantQuietInv, NEW t \in Teams, tw.key = t
    PROVE  /\ ChildrenClean
           /\ tw.err => tw.pc = "status"
           /\ ~tw.err => \A k \in TenantStepsDone(tw.pc) :
                            IsStatusConditionTrue(tw.st, TenantStepCond(k))
           /\ TenantQuiet(t) /\ tw.pc \in TenantDeletePcs =>
                 ~Tenant(t).live \/ Tenant(t).del
           /\ TenantQuiet(t) /\ tw.pc \in TenantMainPcs =>
                 /\ tw.obj = Tenant(t)
                 /\ ~tw.err => \A k \in TenantStepsDone(tw.pc) :
                                  ChildInPlace(t, tw.obj, k)
  <1>1. tw.pc # "idle"
    BY NoneAssumption DEF TypeOK, TenantWorkerTypeOK
  <1>2. ChildrenClean /\ TenantReconcileUpToDate
    BY TenantQuietParts
  <1>. QED  BY <1>1, <1>2 DEF TenantReconcileUpToDate

\* TenantDone and TenantGoto never take a key off the queue.
LEMMA QueueGrows ==
    /\ \A b : TenantDone(b) => tenantQueue \subseteq tenantQueue'
    /\ \A pc, o, st, err :
          TenantGoto(pc, o, st, err) => tenantQueue \subseteq tenantQueue'
  BY DEF TenantDone, TenantGoto

LEMMA FinalizerQuiet ==
    ASSUME TypeOK, TenantQuietInv, NEW out, TenantEnsureFinalizer(out)
    PROVE  TenantQuietInv'
  <1>1. PICK t \in Teams : t = tw.key
    BY TenantWorkerTypes DEF TenantEnsureFinalizer
  <1>2. PICK new : new = [tw.obj EXCEPT !.fin = TRUE]
    OBVIOUS
  <1>. DEFINE conflict == Conflict(Tenant(t), tw.obj)
  <1>3. /\ tw.pc = "finalizer" /\ childLog' = childLog
        /\ UNCHANGED tenantLog \/ PutTenant(t, new)
        /\ IF out = "ok" /\ ~conflict
           THEN TenantGoto("namespace", new, new.status, FALSE)
           ELSE TenantDone(TRUE)
        /\ out = "ok" /\ ~conflict => PutTenant(t, new)
    BY <1>1, <1>2 DEF TenantEnsureFinalizer
  <1>4. ChildrenClean' /\ \A u \in Teams : QuietStays(u)
    BY <1>1, <1>3, QueueGrows, RunningUpToDate, WorkerPutTenant
  <1>5. CASE ~(out = "ok" /\ ~conflict)
    BY <1>1, <1>3, <1>4, <1>5, DoneAgain
  <1>6. CASE out = "ok" /\ ~conflict
    <2>1. Tenant(t)' = new
      BY <1>3, <1>6, PutTenantFacts DEF TypeOK
    <2>2. TenantStepsDone("namespace") = {} /\ "namespace" \notin TenantDeletePcs
      BY DEF TenantStepsDone, TenantDeletePcs
    <2>. QED  BY <1>1, <1>3, <1>4, <1>6, <2>1, <2>2, GoesOn
  <1>. QED  BY <1>5, <1>6

\* Conditions after a step of the chain that succeeds.
LEMMA StepConds ==
    ASSUME NEW st \in StatusSet(TenantConds), NEW gen, NEW j \in Kinds,
           NEW reason \in TrueReasons, NEW D \in SUBSET Kinds,
           \A k \in D : IsStatusConditionTrue(st, TenantStepCond(k)),
           NEW k \in D \cup {j}
    PROVE  IsStatusConditionTrue(SetCondition(st, gen, TenantStepCond(j), reason),
                                 TenantStepCond(k))
  <1>. DEFINE new == SetCondition(st, gen, TenantStepCond(j), reason)
              a == TenantStepCond(j)
              b == TenantStepCond(k)
  <1>1. st.conds \in [TenantConds -> Reasons] /\ new.conds = [st.conds EXCEPT ![a] = reason]
    BY DEF SetCondition, StatusSet
  <1>2. a \in TenantConds /\ b \in TenantConds
    BY DEF TenantStepCond, TenantConds, Kinds
  <1>3. CASE a = b
    BY <1>1, <1>2, <1>3 DEF IsStatusConditionTrue
  <1>4. CASE a # b
    <2>1. k \in D
      BY <1>4
    <2>2. new.conds[b] = st.conds[b]
      BY <1>1, <1>2, <1>4
    <2>. QED  BY <2>1, <2>2 DEF IsStatusConditionTrue
  <1>. QED  BY <1>3, <1>4

\* An ensure step of a Tenant that stays quiet has read what etcd holds, so the
\* object is what it wanted; its condition says so.
LEMMA EnsureQuiet ==
    ASSUME TypeOK, TenantQuietInv,
           NEW k \in Kinds, NEW hard \in Hards, NEW okReason \in TrueReasons,
           NEW errReason, NEW next \in TenantMainPcs, NEW out,
           tw.pc \in TenantMainPcs \ {"status"},
           TenantStepsDone(next) = TenantStepsDone(tw.pc) \cup {k},
           k = "ResourceQuota" => hard # NoHard /\ hard = quotaHard(tw.obj.res),
           EnsureChild(out, k, hard, TenantStepCond(k), okReason, errReason, next),
           tenantLog' = tenantLog
    PROVE  TenantQuietInv'
  <1>a. tw.pc # "idle"
    BY DEF TenantMainPcs
  <1>1. PICK t \in Teams : t = tw.key
    BY <1>a, TenantWorkerTypes
  <1>2. PICK o : o = tw.obj
    OBVIOUS
  <1>3. PICK c : c = Cached(childLog[t][k])
    OBVIOUS
  <1>4. PICK m : m = Mutated(c, hard)
    OBVIOUS
  <1>5. PICK good : good = SetCondition(tw.st, tw.obj.gen, TenantStepCond(k), okReason)
    OBVIOUS
  <1>6. PICK bad : bad = SetCondition(tw.st, tw.obj.gen, TenantStepCond(k), errReason)
    OBVIOUS
  <1>. DEFINE ok == CreateOrUpdateOK(t, k, hard)
  <1>7. /\ UNCHANGED childLog \/ PutChild(t, k, m)
        /\ IF out = "ok" /\ ok THEN TenantGoto(next, o, good, FALSE)
                               ELSE TenantGoto("status", o, bad, TRUE)
        /\ out = "ok" /\ ok => IF m = c THEN UNCHANGED childLog
                                        ELSE PutChild(t, k, m)
    BY <1>1, <1>2, <1>3, <1>4, <1>5, <1>6 DEF EnsureChild, CreateOrUpdateEffect
  <1>8. c \in ChildSet /\ o \in TenantSet /\ tw.st \in StatusSet(TenantConds)
    BY <1>a, <1>1, <1>2, <1>3, StoredTypes, TenantWorkerTypes DEF TypeOK
  <1>9. m.live /\ m.owner = o.uid /\ m.hard = hard
    BY <1>2, <1>4, <1>8 DEF Mutated, ChildSet
  <1>10. ChildrenClean' /\ \A u \in Teams : QuietStays(u)
    BY <1>1, <1>7, <1>9, QueueGrows, RunningUpToDate, WorkerPutChild
  <1>11. ~tw.err /\ tw.pc \in TenantMainPcs
    BY <1>1, RunningUpToDate
  <1>12. "status" \in TenantMainPcs /\ "status" \notin TenantDeletePcs
         /\ next \notin TenantDeletePcs
    BY DEF TenantMainPcs, TenantDeletePcs
  <1>13. TenantQuiet(t)' =>
            /\ o = Tenant(t)' /\ c = Child(t, k)
            /\ \A j \in TenantStepsDone(tw.pc) : ChildInPlace(t, o, j)'
    BY <1>1, <1>2, <1>3, <1>10, <1>11, QuietMeansSame, QuietIsFresh,
       RunningUpToDate
  <1>14. CASE ~(out = "ok" /\ ok)
    BY <1>1, <1>7, <1>10, <1>12, <1>13, <1>14, GoesOn
  <1>15. CASE out = "ok" /\ ok
    <2>1. TenantQuiet(t)' => Child(t, k)' = m
      <3>1. CASE m = c
        <4>1. Child(t, k)' = Child(t, k)
          BY <1>7, <1>15, <3>1 DEF Child
        <4>. QED  BY <1>13, <3>1, <4>1
      <3>2. CASE m # c
        BY <1>7, <1>15, <3>2, PutChildFacts DEF TypeOK
      <3>. QED  BY <3>1, <3>2
    <2>2. TenantQuiet(t)' => ChildInPlace(t, o, k)'
      BY <1>2, <1>9, <2>1 DEF ChildInPlace
    <2>3. TenantQuiet(t)' => \A j \in TenantStepsDone(next) : ChildInPlace(t, o, j)'
      BY <1>13, <2>2
    <2>4. TenantStepsDone(tw.pc) \in SUBSET Kinds
      BY DEF TenantStepsDone, Kinds
    <2>5. \A j \in TenantStepsDone(tw.pc) :
             IsStatusConditionTrue(tw.st, TenantStepCond(j))
      BY <1>1, <1>11, RunningUpToDate
    <2>6. \A j \in TenantStepsDone(next) :
             IsStatusConditionTrue(good, TenantStepCond(j))
      BY <1>5, <1>8, <2>4, <2>5, StepConds
    <2>. QED  BY <1>1, <1>7, <1>10, <1>12, <1>13, <1>15, <2>3, <2>6, GoesOn
  <1>. QED  BY <1>14, <1>15

\* ensureQuota without resources: nothing is left to delete.
LEMMA RemoveQuotaQuiet ==
    ASSUME TypeOK, TenantQuietInv, NEW out, TenantRemoveQuota(out)
    PROVE  TenantQuietInv'
  <1>a. tw.pc = "quota" /\ tenantLog' = tenantLog
        /\ quotaHard(tw.obj.res) = NoHard
    BY DEF TenantRemoveQuota
  <1>1. PICK t \in Teams : t = tw.key
    BY <1>a, TenantWorkerTypes
  <1>2. PICK o : o = tw.obj
    OBVIOUS
  <1>. DEFINE k == "ResourceQuota"
  <1>3. PICK good : good = SetCondition(tw.st, tw.obj.gen, "QuotaApplied",
                                        "NoResourcesDeclared")
    OBVIOUS
  <1>4. PICK bad : bad = SetCondition(tw.st, tw.obj.gen, "QuotaApplied",
                                      "QuotaError")
    OBVIOUS
  <1>5. /\ UNCHANGED childLog \/ PutChild(t, k, AbsentChild)
        /\ IF out = "ok" THEN TenantGoto("status", o, good, FALSE)
                         ELSE TenantGoto("status", o, bad, TRUE)
        /\ out = "ok" => IF ~Child(t, k).live THEN UNCHANGED childLog
                         ELSE PutChild(t, k, AbsentChild)
    BY <1>1, <1>2, <1>3, <1>4 DEF TenantRemoveQuota
  <1>6. k \in Kinds /\ TenantStepCond(k) = "QuotaApplied"
        /\ "NoResourcesDeclared" \in TrueReasons
        /\ TenantStepsDone(tw.pc) \in SUBSET Kinds
        /\ TenantStepsDone("status") = TenantStepsDone(tw.pc) \cup {k}
    BY <1>a DEF Kinds, TenantStepCond, TrueReasons, TenantStepsDone
  <1>. HIDE DEF k
  <1>7. ChildrenClean' /\ \A u \in Teams : QuietStays(u)
    BY <1>a, <1>1, <1>5, <1>6, QueueGrows, RunningUpToDate, WorkerPutChild
  <1>8. ~tw.err /\ tw.pc \in TenantMainPcs /\ "status" \in TenantMainPcs
        /\ "status" \notin TenantDeletePcs
    BY <1>a, <1>1, RunningUpToDate DEF TenantMainPcs, TenantDeletePcs
  <1>9. TenantQuiet(t)' =>
            /\ o = Tenant(t)'
            /\ \A j \in TenantStepsDone(tw.pc) : ChildInPlace(t, o, j)'
    BY <1>1, <1>2, <1>7, <1>8, QuietMeansSame, RunningUpToDate
  <1>10. CASE out # "ok"
    BY <1>1, <1>5, <1>7, <1>8, <1>9, <1>10, GoesOn
  <1>11. CASE out = "ok"
    <2>1. Child(t, k)' = AbsentChild
      <3>1. CASE ~Child(t, k).live
        <4>1. Child(t, k)' = Child(t, k)
          BY <1>5, <1>11, <3>1 DEF Child
        <4>. QED  BY <1>1, <1>6, <3>1, <4>1, RunningUpToDate DEF ChildrenClean
      <3>2. CASE Child(t, k).live
        BY <1>5, <1>6, <1>11, <3>2, PutChildFacts DEF TypeOK
      <3>. QED  BY <3>1, <3>2
    <2>2. ChildInPlace(t, o, k)'
      BY <1>a, <1>2, <2>1 DEF ChildInPlace, AbsentChild, k
    <2>3. TenantQuiet(t)' =>
             \A j \in TenantStepsDone("status") : ChildInPlace(t, o, j)'
      BY <1>6, <1>9, <2>2
    <2>4. tw.st \in StatusSet(TenantConds)
          /\ \A j \in TenantStepsDone(tw.pc) :
                IsStatusConditionTrue(tw.st, TenantStepCond(j))
      BY <1>a, <1>1, <1>8, RunningUpToDate, TenantWorkerTypes
    <2>5. \A j \in TenantStepsDone("status") :
             IsStatusConditionTrue(good, TenantStepCond(j))
      BY <1>3, <1>6, <2>4, StepConds
    <2>. QED  BY <1>1, <1>5, <1>7, <1>8, <1>9, <1>11, <2>3, <2>5, GoesOn
  <1>. QED  BY <1>10, <1>11

\* A status patch against a base that is what etcd holds stores the new status.
LEMMA PatchFresh ==
    ASSUME NEW T, NEW s \in StatusSet(T), NEW new \in StatusSet(T)
    PROVE  MergePatch(s, s, new) = new
  <1>1. new = [phase |-> new.phase, og |-> new.og, cgen |-> new.cgen,
               conds |-> new.conds]
    BY DEF StatusSet
  <1>. QED  BY <1>1 DEF MergePatch

LEMMA AggregateIsReady ==
    ASSUME NEW st \in StatusSet(TenantConds), NEW gen \in Nat,
           \A k \in Kinds : IsStatusConditionTrue(st, TenantStepCond(k))
    PROVE  LET a == TenantAggregateReady(st, gen)
           IN  a.og = gen /\ a.phase = "Ready" /\ IsStatusConditionTrue(a, "Ready")
  <1>1. \A k \in {"NamespaceReady", "RBACReady", "QuotaApplied"} :
           IsStatusConditionTrue(st, k)
    BY DEF Kinds, TenantStepCond
  <1>. DEFINE agg == [st EXCEPT !.og = gen, !.phase = "Ready"]
  <1>2. TenantAggregateReady(st, gen)
           = SetCondition(agg, gen, "Ready", "AllResourcesReady")
    BY <1>1 DEF TenantAggregateReady
  <1>3. agg \in StatusSet(TenantConds) /\ agg.og = gen /\ agg.phase = "Ready"
    BY DEF StatusSet, Phases
  <1>. HIDE DEF agg
  <1>4. SetCondition(agg, gen, "Ready", "AllResourcesReady").og = gen
        /\ SetCondition(agg, gen, "Ready", "AllResourcesReady").phase = "Ready"
        /\ SetCondition(agg, gen, "Ready", "AllResourcesReady").conds["Ready"]
              = "AllResourcesReady"
    BY <1>3 DEF SetCondition, StatusSet, TenantConds
  <1>. QED  BY <1>2, <1>4 DEF IsStatusConditionTrue, TrueReasons

\* The status patch of a Tenant that stays quiet says that it is Ready, unless
\* the reconcile comes back.
LEMMA StatusQuiet ==
    ASSUME TypeOK, TenantQuietInv, NEW out, TenantPatchStatus(out)
    PROVE  TenantQuietInv'
  <1>a. tw.pc = "status" /\ childLog' = childLog
    BY DEF TenantPatchStatus
  <1>1. PICK t \in Teams : t = tw.key
    BY <1>a, TenantWorkerTypes
  <1>. DEFINE agg == TenantAggregateReady(tw.st, tw.obj.gen)
              again == tw.err \/ out # "ok" \/ ~Tenant(t).live
  <1>2. PICK v : v = TenantPatched(agg)
    OBVIOUS
  <1>3. /\ UNCHANGED tenantLog \/ PutTenant(t, v)
        /\ ~again => PutTenant(t, v)
        /\ TenantDone(again)
    BY <1>1, <1>2 DEF TenantPatchStatus, PatchTenant
  <1>4. ChildrenClean' /\ \A u \in Teams : QuietStays(u)
    BY <1>a, <1>1, <1>3, QueueGrows, RunningUpToDate, WorkerPutTenant
  <1>5. CASE again
    <2>1. TenantDone(TRUE)
      BY <1>3, <1>5 DEF TenantDone
    <2>. QED  BY <1>1, <1>4, <2>1, DoneAgain
  <1>6. CASE ~again
    <2>1. TenantDone(FALSE)
      BY <1>3, <1>6 DEF TenantDone
    <2>2. ASSUME TenantQuiet(t)'
          PROVE  /\ ReadyForGeneration(Tenant(t)')
                 /\ \A k \in Kinds : ChildInPlace(t, Tenant(t), k)'
      <3>1. /\ TenantQuiet(t) /\ Tenant(t)' = Tenant(t)
            /\ \A s, k : ChildInPlace(t, s, k)' <=> ChildInPlace(t, s, k)
        BY <1>4, <2>2, QuietMeansSame
      <3>2. tw.pc \in TenantMainPcs /\ TenantStepsDone(tw.pc) = Kinds
        BY <1>a DEF TenantMainPcs, TenantStepsDone
      <3>3. /\ tw.obj = Tenant(t)
            /\ \A k \in Kinds : ChildInPlace(t, tw.obj, k)
            /\ \A k \in Kinds : IsStatusConditionTrue(tw.st, TenantStepCond(k))
        BY <1>1, <1>6, <3>1, <3>2, RunningUpToDate
      <3>4. /\ tw.obj \in TenantSet /\ tw.st \in StatusSet(TenantConds)
            /\ tw.obj.gen \in Nat /\ tw.obj.status \in StatusSet(TenantConds)
        BY <1>a, TenantWorkerTypes
      <3>5. agg \in StatusSet(TenantConds)
        BY <3>4, TenantAggregateType
      <3>6. agg.og = tw.obj.gen /\ agg.phase = "Ready"
            /\ IsStatusConditionTrue(agg, "Ready")
        BY <3>3, <3>4, AggregateIsReady
      <3>. HIDE DEF agg
      <3>7. Tenant(t)' = v
        BY <1>3, <1>6, PutTenantFacts DEF TypeOK
      <3>8. MergePatch(tw.obj.status, tw.obj.status, agg) = agg
        BY <3>4, <3>5, PatchFresh
      <3>9. v = [tw.obj EXCEPT !.status = agg]
        BY <1>1, <1>2, <3>3, <3>8 DEF TenantPatched
      <3>10. v.status = agg /\ v.gen = tw.obj.gen
        BY <3>4, <3>9 DEF TenantSet
      <3>11. ReadyForGeneration(v)
        BY <3>6, <3>10 DEF ReadyForGeneration
      <3>12. tw.obj = v
        BY <3>1, <3>3, <3>7
      <3>13. \A k \in Kinds : ChildInPlace(t, v, k)'
        BY <3>1, <3>3, <3>12
      <3>14. ASSUME NEW k \in Kinds PROVE ChildInPlace(t, Tenant(t), k)'
        BY <3>7, <3>13 DEF ChildInPlace
      <3>. QED  BY <3>7, <3>11, <3>14
    <2>. QED  BY <1>1, <1>4, <2>1, <2>2, DoneForGood
  <1>. QED  BY <1>5, <1>6

\* The steps of reconcileDelete: a quiet Tenant is terminating or gone.
LEMMA DeleteStepQuiet ==
    ASSUME TypeOK, TenantQuietInv, NEW t \in Teams, tw.key = t,
           tw.pc \in TenantDeletePcs,
           ChildrenClean', \A u \in Teams : QuietStays(u),
           \/ \E b \in BOOLEAN : TenantDone(b)
           \/ \E pc \in TenantDeletePcs : \E o, st : TenantGoto(pc, o, st, FALSE)
    PROVE  TenantQuietInv'
  <1>1. TenantQuiet(t)' => ~Tenant(t)'.live \/ Tenant(t)'.del
    BY QuietMeansSame, RunningUpToDate
  <1>2. CASE TenantDone(TRUE)
    BY <1>2, DoneAgain
  <1>3. CASE TenantDone(FALSE)
    BY <1>1, <1>3, DoneForGood
  <1>4. ASSUME NEW pc \in TenantDeletePcs, NEW o, NEW st,
               TenantGoto(pc, o, st, FALSE)
        PROVE  TenantQuietInv'
    <2>1. TenantStepsDone(pc) = {} /\ pc \notin TenantMainPcs
      BY DEF TenantStepsDone, TenantDeletePcs, TenantMainPcs
    <2>. QED  BY <1>1, <1>4, <2>1, GoesOn
  <1>. QED  BY <1>2, <1>3, <1>4

LEMMA DeletePathQuiet ==
    ASSUME TypeOK, TenantQuietInv, NEW out,
           \/ TenantListClaims(out) \/ TenantPatchBlocked(out)
           \/ TenantPatchDrained(out) \/ TenantDeleteNamespace(out)
           \/ TenantRelease(out)
    PROVE  TenantQuietInv'
  <1>a. tw.pc \in TenantDeletePcs /\ tw.pc # "idle"
    BY DEF TenantListClaims, TenantPatchBlocked, TenantPatchDrained,
       TenantDeleteNamespace, TenantRelease, TenantDeletePcs
  <1>1. PICK t \in Teams : t = tw.key
    BY <1>a, TenantWorkerTypes
  <1>2. ChildrenClean
    BY TenantQuietParts
  <1>b. {"patchBlocked", "patchDrained", "deleteNamespace", "release"}
           \subseteq TenantDeletePcs
    BY DEF TenantDeletePcs
  <1>3. CASE TenantListClaims(out)
    <2>1. \/ \E b \in BOOLEAN : TenantDone(b)
          \/ \E pc \in TenantDeletePcs : \E o, st : TenantGoto(pc, o, st, FALSE)
      BY <1>3, <1>b DEF TenantListClaims
    <2>2. tenantLog' = tenantLog /\ childLog' = childLog
      BY <1>3 DEF TenantListClaims
    <2>3. ChildrenClean' /\ \A u \in Teams : QuietStays(u)
      BY <1>1, <1>2, <2>1, <2>2, QueueGrows, WorkerPutTenant
    <2>. QED  BY <1>a, <1>1, <2>1, <2>3, DeleteStepQuiet
  <1>4. CASE TenantPatchBlocked(out)
    <2>1. \E v : UNCHANGED tenantLog \/ PutTenant(t, v)
      BY <1>1, <1>4 DEF TenantPatchBlocked, PatchTenant
    <2>2. TenantDone(TRUE) /\ childLog' = childLog
      BY <1>4 DEF TenantPatchBlocked
    <2>3. ChildrenClean' /\ \A u \in Teams : QuietStays(u)
      BY <1>1, <1>2, <2>1, <2>2, QueueGrows, WorkerPutTenant
    <2>. QED  BY <1>1, <2>2, <2>3, DoneAgain
  <1>5. CASE TenantPatchDrained(out)
    <2>1. \E v : UNCHANGED tenantLog \/ PutTenant(t, v)
      BY <1>1, <1>5 DEF TenantPatchDrained, PatchTenant
    <2>2. \/ \E b \in BOOLEAN : TenantDone(b)
          \/ \E pc \in TenantDeletePcs : \E o, st : TenantGoto(pc, o, st, FALSE)
      BY <1>5, <1>b DEF TenantPatchDrained
    <2>3. childLog' = childLog
      BY <1>5 DEF TenantPatchDrained
    <2>4. ChildrenClean' /\ \A u \in Teams : QuietStays(u)
      BY <1>1, <1>2, <2>1, <2>2, <2>3, QueueGrows, WorkerPutTenant
    <2>. QED  BY <1>a, <1>1, <2>2, <2>4, DeleteStepQuiet
  <1>6. CASE TenantDeleteNamespace(out)
    <2>. DEFINE ns == Child(t, "Namespace")
    <2>1. PICK v : v = IF ns.live THEN [ns EXCEPT !.del = TRUE] ELSE AbsentChild
      OBVIOUS
    <2>2. "Namespace" \in Kinds /\ ns \in ChildSet
      BY StoredTypes DEF TypeOK, Kinds
    <2>3. v.live \/ v = AbsentChild
      BY <2>1, <2>2 DEF ChildSet
    <2>4. UNCHANGED childLog \/ PutChild(t, "Namespace", v)
      BY <1>1, <1>6, <2>1 DEF TenantDeleteNamespace
    <2>5. \/ \E b \in BOOLEAN : TenantDone(b)
          \/ \E pc \in TenantDeletePcs : \E o, st : TenantGoto(pc, o, st, FALSE)
      BY <1>6, <1>b DEF TenantDeleteNamespace
    <2>6. tenantLog' = tenantLog
      BY <1>6 DEF TenantDeleteNamespace
    <2>7. ChildrenClean' /\ \A u \in Teams : QuietStays(u)
      BY <1>2, <2>2, <2>3, <2>4, <2>5, <2>6, QueueGrows, WorkerPutChild
    <2>. QED  BY <1>a, <1>1, <2>5, <2>7, DeleteStepQuiet
  <1>7. CASE TenantRelease(out)
    <2>1. \E v : UNCHANGED tenantLog \/ PutTenant(t, v)
      BY <1>1, <1>7 DEF TenantRelease
    <2>2. \E b \in BOOLEAN : TenantDone(b)
      BY <1>7, TenantDoneBool DEF TenantRelease
    <2>3. childLog' = childLog
      BY <1>7 DEF TenantRelease
    <2>4. ChildrenClean' /\ \A u \in Teams : QuietStays(u)
      BY <1>1, <1>2, <2>1, <2>2, <2>3, QueueGrows, WorkerPutTenant
    <2>. QED  BY <1>a, <1>1, <2>2, <2>4, DeleteStepQuiet
  <1>. QED  BY <1>3, <1>4, <1>5, <1>6, <1>7

LEMMA TenantStepQuiet ==
    ASSUME TypeOK, TenantQuietInv, NEW out \in Outcomes, TenantStep(out)
    PROVE  TenantQuietInv'
  <1>a. NoHard \in Hards /\ {"Namespace", "RoleBinding", "ResourceQuota"} = Kinds
        /\ "Namespace" # "ResourceQuota" /\ "RoleBinding" # "ResourceQuota"
    BY DEF Hards, Kinds
  <1>b. {"NamespaceCreated", "RoleBindingCreated", "QuotaApplied"}
           \subseteq TrueReasons
    BY DEF TrueReasons
  <1>c. /\ TenantStepCond("Namespace") = "NamespaceReady"
        /\ TenantStepCond("RoleBinding") = "RBACReady"
        /\ TenantStepCond("ResourceQuota") = "QuotaApplied"
    BY DEF TenantStepCond
  <1>d. /\ TenantStepsDone("rolebinding")
              = TenantStepsDone("namespace") \cup {"Namespace"}
        /\ TenantStepsDone("quota")
              = TenantStepsDone("rolebinding") \cup {"RoleBinding"}
        /\ TenantStepsDone("status")
              = TenantStepsDone("quota") \cup {"ResourceQuota"}
    BY DEF TenantStepsDone, Kinds
  <1>e. {"namespace", "rolebinding", "quota"} \subseteq TenantMainPcs \ {"status"}
        /\ "status" \in TenantMainPcs
    BY DEF TenantMainPcs
  <1>1. CASE TenantEnsureFinalizer(out)
    BY <1>1, FinalizerQuiet
  <1>2. CASE TenantEnsureNamespace(out)
    <2>1. /\ tw.pc = "namespace" /\ tenantLog' = tenantLog
          /\ EnsureChild(out, "Namespace", NoHard, TenantStepCond("Namespace"),
                         "NamespaceCreated", "NamespaceError", "rolebinding")
      BY <1>2, <1>c DEF TenantEnsureNamespace
    <2>. QED  BY <1>a, <1>b, <1>d, <1>e, <2>1, EnsureQuiet
  <1>3. CASE TenantEnsureRoleBinding(out)
    <2>1. /\ tw.pc = "rolebinding" /\ tenantLog' = tenantLog
          /\ EnsureChild(out, "RoleBinding", NoHard, TenantStepCond("RoleBinding"),
                         "RoleBindingCreated", "RBACError", "quota")
      BY <1>3, <1>c DEF TenantEnsureRoleBinding
    <2>. QED  BY <1>a, <1>b, <1>d, <1>e, <2>1, EnsureQuiet
  <1>4. CASE TenantEnsureQuota(out)
    <2>1. /\ tw.pc = "quota" /\ tenantLog' = tenantLog
          /\ quotaHard(tw.obj.res) # NoHard
          /\ EnsureChild(out, "ResourceQuota", quotaHard(tw.obj.res),
                         TenantStepCond("ResourceQuota"),
                         "QuotaApplied", "QuotaError", "status")
      BY <1>4, <1>c DEF TenantEnsureQuota
    <2>2. quotaHard(tw.obj.res) \in Hards
      BY <2>1, HardType, TenantWorkerTypes
    <2>. QED  BY <1>a, <1>b, <1>d, <1>e, <2>1, <2>2, EnsureQuiet
  <1>5. CASE TenantRemoveQuota(out)
    BY <1>5, RemoveQuotaQuiet
  <1>6. CASE TenantPatchStatus(out)
    BY <1>6, StatusQuiet
  <1>7. CASE TenantListClaims(out) \/ TenantPatchBlocked(out)
             \/ TenantPatchDrained(out) \/ TenantDeleteNamespace(out)
             \/ TenantRelease(out)
    BY <1>7, DeletePathQuiet
  <1>. QED  BY <1>1, <1>2, <1>3, <1>4, <1>5, <1>6, <1>7 DEF TenantStep

\* A reconcile begins: for a quiet Tenant with a copy that is not stale.
LEMMA TenantReconcileQuiet ==
    ASSUME TypeOK, TenantQuietInv, NEW t \in Teams, TenantReconcile(t)
    PROVE  TenantQuietInv'
  <1>. DEFINE cached == Cached(tenantLog[t])
  <1>a. ChildrenClean /\ \A u \in Teams : TenantRests(u)
    BY TenantQuietParts
  <1>1. /\ tw.pc = "idle" /\ tenantLog' = tenantLog /\ childLog' = childLog
        /\ tenantQueue' = tenantQueue \ {t}
    BY DEF TenantReconcile
  <1>2. tw.key = None
    BY <1>1 DEF TypeOK, TenantWorkerTypeOK
  <1>3. ChildrenClean'
    BY <1>a, <1>1, CleanSame
  <1>4. \A u \in Teams : u # t => TenantRests(u)'
    <2>. SUFFICES ASSUME NEW u \in Teams, u # t PROVE TenantRests(u)'
      OBVIOUS
    <2>1. QuietStays(u)
      BY <1>1, QuietSame
    <2>. QED  BY <1>a, <1>2, <2>1, NoneAssumption, RestsStay
  <1>5. TenantQuiet(t)' => cached = Tenant(t)'
    BY <1>1 DEF TenantQuiet, Cached, Tenant, Stored
  <1>6. CASE tw' = tw /\ (~cached.live \/ cached.del)
    <2>1. TenantRests(t)'
      BY <1>5, <1>6 DEF TenantRests
    <2>2. TenantReconcileUpToDate
      BY TenantQuietParts
    <2>3. TenantReconcileUpToDate'
      BY <1>1, <1>6, <2>2 DEF TenantReconcileUpToDate
    <2>. QED  BY <1>3, <1>4, <2>1, <2>3, TenantQuietNext
  <1>7. ASSUME NEW pc, NEW st,
               tw' = [pc |-> pc, key |-> t, obj |-> cached, st |-> st,
                      err |-> FALSE],
               \/ pc = "list" /\ cached.del
               \/ pc \in {"finalizer", "namespace"}
        PROVE  TenantQuietInv'
    <2>1. PICK o : o = cached
      OBVIOUS
    <2>2. tw'.key = t /\ tw'.obj = o /\ tw'.pc = pc /\ ~tw'.err
      BY <1>7, <2>1
    <2>3. TenantStepsDone(pc) = {}
      BY <1>7 DEF TenantStepsDone
    <2>4. pc \in TenantDeletePcs => cached.del
      BY <1>7 DEF TenantDeletePcs
    <2>5. TenantReconcileUpToDate'
      BY <1>5, <2>1, <2>2, <2>3, <2>4, UpToDateNext
    <2>6. TenantRests(t)'
      BY <2>2 DEF TenantRests
    <2>. QED  BY <1>3, <1>4, <2>5, <2>6, TenantQuietNext
  <1>8. \/ tw' = tw /\ (~cached.live \/ cached.del)
        \/ \E pc, st :
              /\ tw' = [pc |-> pc, key |-> t, obj |-> cached, st |-> st,
                        err |-> FALSE]
              /\ \/ pc = "list" /\ cached.del
                 \/ pc \in {"finalizer", "namespace"}
    BY DEF TenantReconcile, TenantFirstStep
  <1>. HIDE DEF cached
  <1>. QED  BY <1>6, <1>7, <1>8

\* After a restart every Tenant is queued.
LEMMA CrashQuiet ==
    ASSUME TypeOK, TenantQuietInv, Crash PROVE TenantQuietInv'
  <1>1. /\ tw' = IdleTenantWorker
        /\ \A t \in Teams : tenantLog'[t] = <<Tenant(t)>>
        /\ \A t \in Teams, k \in Kinds : childLog'[t][k] = <<Child(t, k)>>
        /\ tenantQueue' = {t \in Teams : \/ Tenant(t).live
                                         \/ Child(t, "Namespace").live
                                         \/ \E c \in Claims : Claim(c).team = t}
    BY DEF Crash
  <1>2. \A t \in Teams : Tenant(t)' = Tenant(t)
    BY <1>1 DEF Tenant, Stored
  <1>3. ASSUME NEW t \in Teams, NEW k \in Kinds PROVE Child(t, k)' = Child(t, k)
    <2>1. PICK o : o = Child(t, k)
      OBVIOUS
    <2>2. childLog'[t][k] = <<o>>
      BY <1>1, <2>1
    <2>3. Child(t, k)' = o
      BY <2>2 DEF Child, Stored
    <2>. QED  BY <2>1, <2>3
  <1>4. ChildrenClean'
    BY <1>3, TenantQuietParts DEF ChildrenClean
  <1>5. TenantReconcileUpToDate'
    BY <1>1, IdleUpToDate
  <1>6. ASSUME NEW t \in Teams PROVE TenantRests(t)'
    BY <1>1, <1>2 DEF TenantRests, TenantQuiet
  <1>. QED  BY <1>4, <1>5, <1>6, TenantQuietNext

LEMMA TenantQuietInit == Init => TenantQuietInv
  <1>. SUFFICES ASSUME Init PROVE TenantQuietInv
    OBVIOUS
  <1>1. /\ \A t \in Teams : Tenant(t) = AbsentTenant(0)
        /\ \A t \in Teams, k \in Kinds : Child(t, k) = AbsentChild
        /\ tw = IdleTenantWorker
    BY DEF Init, ClusterInit, Tenant, Child, Stored
  <1>. QED  BY <1>1 DEF TenantQuietInv, TenantReconcileUpToDate,
     IdleTenantWorker, TenantStepsDone, AbsentTenant

LEMMA TenantQuietStep == TypeOK /\ TenantQuietInv /\ [Next]_vars => TenantQuietInv'
  <1>. SUFFICES ASSUME TypeOK, TenantQuietInv, [Next]_vars PROVE TenantQuietInv'
    OBVIOUS
  <1>a. ChildrenClean
    BY TenantQuietParts
  <1>1. CASE UserNext
    BY <1>a, <1>1, ElsewhereUser, ElsewhereKeeps
  <1>2. CASE ClaimNext
    BY <1>a, <1>2, ElsewhereClaim, ElsewhereKeeps
  <1>3. CASE TenantNext
    BY <1>3, TenantReconcileQuiet, TenantStepQuiet DEF TenantNext
  <1>4. CASE WatchNext
    BY <1>a, <1>4, ElsewhereWatch, ElsewhereKeeps
  <1>5. CASE ExternalNext
    BY <1>a, <1>5, ElsewhereExternal, ElsewhereKeeps
  <1>6. CASE Crash
    BY <1>6, CrashQuiet
  <1>7. CASE UNCHANGED vars
    <2>1. tw' = tw /\ tenantLog' = tenantLog /\ childLog' = childLog
          /\ tenantQueue' = tenantQueue
      BY <1>7 DEF vars
    <2>2. Elsewhere
      BY <1>a, <2>1, QuietSame, CleanSame DEF Elsewhere
    <2>. QED  BY <2>2, ElsewhereKeeps
  <1>. QED  BY <1>1, <1>2, <1>3, <1>4, <1>5, <1>6, <1>7 DEF Next

\* The invariant of the Tenant controller: the steps behind a reconcile of a
\* Tenant that has stayed quiet are in place, and a Tenant that nobody is about
\* to reconcile is Ready with its objects in place.
THEOREM TenantQuietInvariant == Spec => []TenantQuietInv
  BY TypeCorrect, TenantQuietInit, TenantQuietStep, PTL DEF Spec

\* Whatever stale reads, skipped or lost writes, failing calls, edits, deletions
\* by hand and restarts there were: once nothing is left that would make the
\* Tenant controller look at a Tenant again, the Tenant is provisioned as its
\* spec asks and says Ready for its generation.
THEOREM UnattendedTenants == Spec => []UnattendedTenantReconciled
  <1>1. TenantQuietInv => UnattendedTenantReconciled
    <2>. SUFFICES ASSUME TenantQuietInv, NEW t \in Teams,
                         Tenant(t).live, ~Tenant(t).del,
                         TenantQuiet(t), tw.key # t
                  PROVE  /\ ReadyForGeneration(Tenant(t))
                         /\ Provisioned(t) \/ Child(t, "Namespace").del
      BY DEF UnattendedTenantReconciled
    <2>1. /\ ReadyForGeneration(Tenant(t))
          /\ \A k \in Kinds : ChildInPlace(t, Tenant(t), k)
      BY DEF TenantQuietInv
    <2>2. /\ ChildInPlace(t, Tenant(t), "Namespace")
          /\ ChildInPlace(t, Tenant(t), "RoleBinding")
          /\ ChildInPlace(t, Tenant(t), "ResourceQuota")
      BY <2>1 DEF Kinds
    <2>. QED  BY <2>1, <2>2 DEF ChildInPlace, Provisioned, NamespaceUsable
  <1>. QED  BY <1>1, TenantQuietInvariant, PTL

-----------------------------------------------------------------------------
(* ServiceClaims: a quiet claim was quiet before, its Application has not   *)
(* changed, and neither has what the cache says about its Tenant            *)

ClaimStays(c) ==
    ClaimQuiet(c)' =>
        /\ ClaimQuiet(c)
        /\ claimLog'[c] = claimLog[c]
        /\ app'[c] = app[c]
        /\ Claim(c).live => Cached(tenantLog'[Claim(c).team])
                               = Cached(tenantLog[Claim(c).team])

SameTenantCaches ==
    \A t \in Teams : Cached(tenantLog'[t]) = Cached(tenantLog[t])

LEMMA TenantCachesKept ==
    ASSUME ClusterTypeOK,
           UNCHANGED tenantLog \/ \E t \in Teams : \E v : PutTenant(t, v)
    PROVE  SameTenantCaches
  <1>1. ASSUME NEW t \in Teams, NEW v, PutTenant(t, v), NEW u \in Teams
        PROVE  Cached(tenantLog'[u]) = Cached(tenantLog[u])
    <2>1. CASE u = t
      BY <1>1, <2>1, PutTenantFacts
    <2>2. CASE u # t
      BY <1>1, <2>2, PutTenantFacts
    <2>. QED  BY <2>1, <2>2
  <1>. QED  BY <1>1 DEF SameTenantCaches

LEMMA LiveClaimTeam ==
    ASSUME ClusterTypeOK, NEW c \in Claims, Claim(c).live
    PROVE  Claim(c).team \in Teams
  <1>1. Claim(c) \in ClaimSet
    BY StoredTypes
  <1>. QED  BY <1>1 DEF ClaimSet

LEMMA StaysSame ==
    ASSUME ClusterTypeOK, NEW c \in Claims, SameTenantCaches,
           c \in claimQueue => c \in claimQueue',
           c \in appEvents => c \in appEvents',
           claimLog'[c] = claimLog[c], app'[c] = app[c]
    PROVE  ClaimStays(c)
  BY LiveClaimTeam DEF ClaimStays, ClaimQuiet, SameTenantCaches

LEMMA StaysPutClaim ==
    ASSUME ClusterTypeOK, NEW d \in Claims, NEW v, PutClaim(d, v),
           SameTenantCaches, claimQueue \subseteq claimQueue',
           appEvents' = appEvents, app' = app, NEW c \in Claims
    PROVE  ClaimStays(c)
  <1>1. CASE c = d
    BY <1>1, PutClaimFacts, LiveClaimTeam
    DEF ClaimStays, ClaimQuiet, SameTenantCaches
  <1>2. CASE c # d
    BY <1>2, PutClaimFacts, StaysSame
  <1>. QED  BY <1>1, <1>2

LEMMA StaysPutApp ==
    ASSUME ClusterTypeOK, NEW d \in Claims, NEW v, PutApp(d, v),
           SameTenantCaches, claimQueue \subseteq claimQueue',
           claimLog' = claimLog, NEW c \in Claims
    PROVE  ClaimStays(c)
  <1>1. /\ app \in [Claims -> AppSet] /\ app' = [app EXCEPT ![d] = v]
        /\ appEvents \subseteq appEvents'
        /\ d \notin appEvents' => v = app[d]
    BY DEF PutApp, ClusterTypeOK
  <1>2. CASE c = d
    BY <1>1, <1>2, LiveClaimTeam DEF ClaimStays, ClaimQuiet, SameTenantCaches
  <1>3. CASE c # d
    BY <1>1, <1>3, StaysSame
  <1>. QED  BY <1>2, <1>3

-----------------------------------------------------------------------------
(* Steps of everyone but the ServiceClaim controller *)

ClaimElsewhere == cw' = cw /\ \A c \in Claims : ClaimStays(c)

LEMMA ClaimSideAlone ==
    ASSUME ClusterTypeOK, SameTenantCaches, cw' = cw, claimLog' = claimLog,
           app' = app, appEvents' = appEvents, claimQueue \subseteq claimQueue'
    PROVE  ClaimElsewhere
  BY StaysSame DEF ClaimElsewhere

LEMMA ClaimElsewhereUser ==
    ASSUME TypeOK, UserNext PROVE ClaimElsewhere
  <1>a. ClusterTypeOK
    BY DEF TypeOK
  <1>1. ASSUME NEW d \in Claims, NEW v, PutClaim(d, v), tenantLog' = tenantLog,
               UNCHANGED <<argo, queues, workers>>
        PROVE  ClaimElsewhere
    <2>1. SameTenantCaches
      BY <1>a, <1>1, TenantCachesKept
    <2>. QED  BY <1>a, <1>1, <2>1, StaysPutClaim
         DEF ClaimElsewhere, argo, queues, workers
  <1>2. ASSUME NEW t \in Teams,
               \/ \E res \in Resources : CreateTenant(t, res) \/ EditTenant(t, res)
               \/ DeleteTenant(t)
               \/ \E k \in Kinds : DeleteChildByHand(t, k)
        PROVE  ClaimElsewhere
    <2>1. UNCHANGED tenantLog \/ \E v : PutTenant(t, v)
      BY <1>2 DEF CreateTenant, EditTenant, DeleteTenant, DeleteChildByHand
    <2>2. /\ cw' = cw /\ claimLog' = claimLog /\ app' = app
          /\ appEvents' = appEvents /\ claimQueue' = claimQueue
      BY <1>2 DEF CreateTenant, EditTenant, DeleteTenant, DeleteChildByHand,
         argo, queues, workers
    <2>3. SameTenantCaches
      BY <1>a, <2>1, TenantCachesKept
    <2>. QED  BY <1>a, <2>2, <2>3, ClaimSideAlone
  <1>3. ASSUME NEW c \in Claims, NEW t \in Teams, NEW img \in Images,
               CreateClaim(c, t, img)
        PROVE  ClaimElsewhere
    BY <1>1, <1>3 DEF CreateClaim
  <1>4. ASSUME NEW c \in Claims, NEW t \in Teams, NEW img \in Images,
               AdmitClaim(c, t, img)
        PROVE  ClaimElsewhere
    <2>1. SameTenantCaches
      BY <1>a, <1>4, TenantCachesKept DEF AdmitClaim
    <2>. QED  BY <1>a, <1>4, <2>1, ClaimSideAlone
         DEF AdmitClaim, argo, queues, workers
  <1>5. ASSUME NEW c \in Claims, NEW t \in Teams, NEW img \in Images,
               EditClaim(c, t, img)
        PROVE  ClaimElsewhere
    <2>1. \E v : PutClaim(c, v)
      BY <1>5 DEF EditClaim
    <2>. QED  BY <1>1, <1>5, <2>1 DEF EditClaim
  <1>6. ASSUME NEW c \in Claims, PersistClaim(c) \/ DeleteClaim(c)
        PROVE  ClaimElsewhere
    <2>1. \E v : PutClaim(c, v)
      BY <1>6 DEF PersistClaim, DeleteClaim
    <2>. QED  BY <1>1, <1>6, <2>1 DEF PersistClaim, DeleteClaim
  <1>7. ASSUME NEW c \in Claims, DeleteAppByHand(c)
        PROVE  ClaimElsewhere
    <2>1. SameTenantCaches
      BY <1>a, <1>7, TenantCachesKept DEF DeleteAppByHand
    <2>2. \E v : PutApp(c, v)
      BY <1>7 DEF DeleteAppByHand
    <2>3. cw' = cw /\ claimLog' = claimLog /\ claimQueue' = claimQueue
      BY <1>7 DEF DeleteAppByHand, queues
    <2>. QED  BY <1>a, <2>1, <2>2, <2>3, StaysPutApp DEF ClaimElsewhere
  <1>. QED  BY <1>2, <1>3, <1>4, <1>5, <1>6, <1>7 DEF UserNext

LEMMA ClaimElsewhereTenant ==
    ASSUME TypeOK, TenantNext PROVE ClaimElsewhere
  <1>a. ClusterTypeOK
    BY DEF TypeOK
  <1>1. ASSUME NEW t \in Teams, TenantReconcile(t)
        PROVE  /\ UNCHANGED <<claimLog, argo, claimQueue, cw>>
               /\ UNCHANGED tenantLog \/ \E u \in Teams : \E v : PutTenant(u, v)
    BY <1>1 DEF TenantReconcile
  <1>2. ASSUME NEW out \in Outcomes, TenantStep(out)
        PROVE  /\ UNCHANGED <<claimLog, argo, claimQueue, cw>>
               /\ UNCHANGED tenantLog \/ \E u \in Teams : \E v : PutTenant(u, v)
    <2>1. tw.pc # "idle"
      BY <1>2 DEF TenantStep, TenantEnsureFinalizer, TenantEnsureNamespace,
         TenantEnsureRoleBinding, TenantEnsureQuota, TenantRemoveQuota,
         TenantPatchStatus, TenantListClaims, TenantPatchBlocked,
         TenantPatchDrained, TenantDeleteNamespace, TenantRelease
    <2>2. tw.key \in Teams
      BY <2>1, TenantWorkerTypes
    <2>3. UNCHANGED <<claimLog, argo, claimQueue, cw>>
      BY <1>2 DEF TenantStep, TenantEnsureFinalizer, TenantEnsureNamespace,
         TenantEnsureRoleBinding, TenantEnsureQuota, TenantRemoveQuota,
         TenantPatchStatus, TenantListClaims, TenantPatchBlocked,
         TenantPatchDrained, TenantDeleteNamespace, TenantRelease
    <2>4. UNCHANGED tenantLog \/ \E v : PutTenant(tw.key, v)
      BY <1>2 DEF TenantStep, TenantEnsureFinalizer, TenantEnsureNamespace,
         TenantEnsureRoleBinding, TenantEnsureQuota, TenantRemoveQuota,
         TenantPatchStatus, TenantListClaims, TenantPatchBlocked,
         TenantPatchDrained, TenantDeleteNamespace, TenantRelease, PatchTenant
    <2>. QED  BY <2>2, <2>3, <2>4
  <1>3. /\ UNCHANGED <<claimLog, argo, claimQueue, cw>>
        /\ UNCHANGED tenantLog \/ \E u \in Teams : \E v : PutTenant(u, v)
    BY <1>1, <1>2 DEF TenantNext
  <1>4. SameTenantCaches
    BY <1>a, <1>3, TenantCachesKept
  <1>. QED  BY <1>a, <1>3, <1>4, ClaimSideAlone DEF argo

LEMMA ClaimElsewhereExternal ==
    ASSUME TypeOK, ExternalNext PROVE ClaimElsewhere
  <1>a. ClusterTypeOK
    BY DEF TypeOK
  <1>1. ASSUME NEW c \in Claims, ArgoPrune(c)
        PROVE  ClaimElsewhere
    <2>1. SameTenantCaches
      BY <1>a, <1>1, TenantCachesKept DEF ArgoPrune
    <2>. QED  BY <1>a, <1>1, <2>1, StaysPutApp
         DEF ClaimElsewhere, ArgoPrune, queues, workers
  <1>2. ASSUME (\E c \in Claims : ArgoSync(c))
                  \/ (\E t \in Teams : NamespaceFinalize(t))
        PROVE  ClaimElsewhere
    <2>1. /\ tenantLog' = tenantLog /\ cw' = cw /\ claimLog' = claimLog
          /\ app' = app /\ appEvents' = appEvents /\ claimQueue' = claimQueue
      BY <1>2 DEF ArgoSync, NamespaceFinalize, queues, workers
    <2>2. SameTenantCaches
      BY <1>a, <2>1, TenantCachesKept
    <2>. QED  BY <1>a, <2>1, <2>2, ClaimSideAlone
  <1>. QED  BY <1>1, <1>2 DEF ExternalNext

\* A Tenant's event queues the claims of its team, so the cache changes under
\* no claim that stays quiet.
LEMMA ClaimElsewhereWatch ==
    ASSUME TypeOK, WatchNext,
           \A t \in Teams : DeliverTenant(t, "fail") => DeliverTenant(t, "ok")
    PROVE  ClaimElsewhere
  <1>a. ClusterTypeOK
    BY DEF TypeOK
  <1>1. ASSUME NEW d \in Claims, DeliverClaim(d) \/ DeliverApp(d) \/ Resync(d)
        PROVE  ClaimElsewhere
    <2>1. /\ cw' = cw /\ tenantLog' = tenantLog /\ app' = app
          /\ claimQueue' = claimQueue \cup {d}
          /\ \A c \in Claims : c # d => claimLog'[c] = claimLog[c]
          /\ \A c \in Claims : c # d /\ c \in appEvents => c \in appEvents'
      BY <1>a, <1>1 DEF DeliverClaim, DeliverApp, Resync, workers, argo,
         ClusterTypeOK
    <2>2. SameTenantCaches
      BY <1>a, <2>1, TenantCachesKept
    <2>3. ASSUME NEW c \in Claims PROVE ClaimStays(c)
      <3>1. CASE c = d
        BY <2>1, <3>1 DEF ClaimStays, ClaimQuiet
      <3>2. CASE c # d
        BY <1>a, <2>1, <2>2, <3>2, StaysSame
      <3>. QED  BY <3>1, <3>2
    <2>. QED  BY <2>1, <2>3 DEF ClaimElsewhere
  <1>2. ASSUME NEW t \in Teams, DeliverTenant(t, "ok")
        PROVE  ClaimElsewhere
    <2>1. /\ cw' = cw /\ claimLog' = claimLog /\ app' = app
          /\ appEvents' = appEvents
          /\ claimQueue' = claimQueue \cup CachedClaims(t)
          /\ \A u \in Teams : u # t => tenantLog'[u] = tenantLog[u]
      BY <1>a, <1>2 DEF DeliverTenant, workers, argo, claimsForTenant,
         ClusterTypeOK
    <2>2. ASSUME NEW c \in Claims PROVE ClaimStays(c)
      <3>. SUFFICES ASSUME ClaimQuiet(c)'
                    PROVE  /\ ClaimQuiet(c)
                           /\ claimLog'[c] = claimLog[c] /\ app'[c] = app[c]
                           /\ Claim(c).live => Cached(tenantLog'[Claim(c).team])
                                                = Cached(tenantLog[Claim(c).team])
        BY DEF ClaimStays
      <3>1. ClaimQuiet(c) /\ c \notin CachedClaims(t)
        BY <2>1 DEF ClaimQuiet
      <3>2. Cached(claimLog[c]) = Claim(c)
        BY <3>1 DEF ClaimQuiet, Cached, Claim, Stored
      <3>3. Claim(c).live => Claim(c).team # t /\ Claim(c).team \in Teams
        BY <1>a, <3>1, <3>2, LiveClaimTeam DEF CachedClaims
      <3>. QED  BY <2>1, <3>1, <3>3
    <2>. QED  BY <2>1, <2>2 DEF ClaimElsewhere
  <1>3. ASSUME NEW t \in Teams, NEW k \in Kinds, DeliverChild(t, k)
        PROVE  ClaimElsewhere
    <2>1. SameTenantCaches
      BY <1>a, <1>3, TenantCachesKept DEF DeliverChild
    <2>. QED  BY <1>a, <1>3, <2>1, ClaimSideAlone DEF DeliverChild, workers, argo
  <1>4. ListOutcomes \subseteq {"ok", "fail"}
    BY DEF ListOutcomes
  <1>. QED  BY <1>1, <1>2, <1>3, <1>4 DEF WatchNext

-----------------------------------------------------------------------------
(* The parts of ClaimQuietInv *)

ClaimSettled(c) ==
    LET claim == Claim(c)
        ready == IsStatusConditionTrue(claim.status, "Ready")
    IN  /\ claim.status.og = claim.gen
        /\ ready <=> claim.status.phase = "Ready"
        /\ ready <=> CachedTenantReady(claim)
        /\ ready => AppInPlace(c, claim)

ClaimRests(c) ==
    /\ Claim(c).live /\ ~Claim(c).del
    /\ ClaimQuiet(c) /\ cw.key # c
    => ClaimSettled(c)

LEMMA ClaimQuietParts ==
    ClaimQuietInv <=> ClaimReconcileUpToDate /\ \A c \in Claims : ClaimRests(c)
  BY DEF ClaimQuietInv, ClaimRests, ClaimSettled

LEMMA ClaimQuietNext ==
    ASSUME ClaimReconcileUpToDate', \A c \in Claims : ClaimRests(c)'
    PROVE  ClaimQuietInv'
  BY DEF ClaimQuietInv, ClaimRests, ClaimSettled

LEMMA StaysMeansSame ==
    ASSUME NEW c \in Claims, ClaimStays(c), ClaimQuiet(c)'
    PROVE  /\ ClaimQuiet(c) /\ Claim(c)' = Claim(c) /\ app'[c] = app[c]
           /\ \A s : AppInPlace(c, s)' <=> AppInPlace(c, s)
           /\ \A s : s = Claim(c) /\ s.live =>
                 (CachedTenantReady(s)' <=> CachedTenantReady(s))
  <1>1. /\ ClaimQuiet(c) /\ claimLog'[c] = claimLog[c] /\ app'[c] = app[c]
        /\ Claim(c).live => Cached(tenantLog'[Claim(c).team])
                               = Cached(tenantLog[Claim(c).team])
    BY DEF ClaimStays
  <1>2. Claim(c)' = Claim(c)
    BY <1>1 DEF Claim
  <1>3. \A s : AppInPlace(c, s)' <=> AppInPlace(c, s)
    BY <1>1 DEF AppInPlace
  <1>4. ASSUME NEW s, s = Claim(c), s.live
        PROVE  CachedTenantReady(s)' <=> CachedTenantReady(s)
    <2>1. Cached(tenantLog'[s.team]) = Cached(tenantLog[s.team])
      BY <1>1, <1>4
    <2>. QED  BY <2>1 DEF CachedTenantReady
  <1>. QED  BY <1>1, <1>2, <1>3, <1>4

LEMMA ClaimRestsStay ==
    ASSUME NEW c \in Claims, ClaimStays(c), ClaimRests(c), cw.key # c
    PROVE  ClaimRests(c)'
  <1>. SUFFICES ASSUME ClaimQuiet(c)', Claim(c)'.live, ~Claim(c)'.del
                PROVE  ClaimSettled(c)'
    BY DEF ClaimRests
  <1>1. PICK s : s = Claim(c)
    OBVIOUS
  <1>2. /\ ClaimQuiet(c) /\ Claim(c)' = s /\ s.live /\ ~s.del
        /\ AppInPlace(c, s)' <=> AppInPlace(c, s)
        /\ CachedTenantReady(s)' <=> CachedTenantReady(s)
    BY <1>1, StaysMeansSame
  <1>3. LET ready == IsStatusConditionTrue(s.status, "Ready")
        IN  /\ s.status.og = s.gen
            /\ ready <=> s.status.phase = "Ready"
            /\ ready <=> CachedTenantReady(s)
            /\ ready => AppInPlace(c, s)
    BY <1>1, <1>2 DEF ClaimRests, ClaimSettled
  <1>4. LET ready == IsStatusConditionTrue(s.status, "Ready")
        IN  /\ s.status.og = s.gen
            /\ ready <=> s.status.phase = "Ready"
            /\ ready <=> CachedTenantReady(s)'
            /\ ready => AppInPlace(c, s)'
    BY <1>2, <1>3
  <1>. QED  BY <1>2, <1>4 DEF ClaimSettled, CachedTenantReady, AppInPlace

\* What ClaimReconcileUpToDate asks for after a step, for a known key and copy.
LEMMA ClaimUpToDateNext ==
    ASSUME NEW c \in Claims, NEW o, cw'.key = c, cw'.obj = o,
           cw'.err => cw'.pc = "status",
           cw'.pc = "app" => IsStatusConditionTrue(cw'.st, "TenantReady"),
           ClaimQuiet(c)' /\ cw'.pc \in ClaimDeletePcs =>
              ~Claim(c)'.live \/ Claim(c)'.del,
           ClaimQuiet(c)' /\ cw'.pc \in ClaimMainPcs => o = Claim(c)' /\ o.live,
           ClaimQuiet(c)' /\ cw'.pc = "app" => CachedTenantReady(o)',
           ClaimQuiet(c)' /\ cw'.pc = "status" /\ ~cw'.err =>
              LET ready == IsStatusConditionTrue(cw'.st, "TenantReady")
              IN  /\ ready <=> CachedTenantReady(o)'
                  /\ ready => /\ IsStatusConditionTrue(cw'.st, "ArgoAppCreated")
                              /\ AppInPlace(c, o)'
    PROVE  ClaimReconcileUpToDate'
  BY DEF ClaimReconcileUpToDate, ClaimQuiet, Claim, CachedTenantReady, AppInPlace

\* What the invariant says about the running reconcile.
LEMMA ClaimRunning ==
    ASSUME TypeOK, ClaimQuietInv, NEW c \in Claims, cw.key = c
    PROVE  /\ cw.pc # "idle"
           /\ cw.err => cw.pc = "status"
           /\ cw.pc = "app" => IsStatusConditionTrue(cw.st, "TenantReady")
           /\ ClaimQuiet(c) /\ cw.pc \in ClaimDeletePcs =>
                 ~Claim(c).live \/ Claim(c).del
           /\ ClaimQuiet(c) /\ cw.pc \in ClaimMainPcs =>
                 cw.obj = Claim(c) /\ cw.obj.live
           /\ ClaimQuiet(c) /\ cw.pc = "app" => CachedTenantReady(cw.obj)
           /\ ClaimQuiet(c) /\ cw.pc = "status" /\ ~cw.err =>
                 LET ready == IsStatusConditionTrue(cw.st, "TenantReady")
                 IN  /\ ready <=> CachedTenantReady(cw.obj)
                     /\ ready => /\ IsStatusConditionTrue(cw.st, "ArgoAppCreated")
                                 /\ AppInPlace(c, cw.obj)
  <1>1. cw.pc # "idle"
    BY NoneAssumption DEF TypeOK, ClaimWorkerTypeOK
  <1>2. ClaimReconcileUpToDate
    BY ClaimQuietParts
  <1>. QED  BY <1>1, <1>2 DEF ClaimReconcileUpToDate

\* Steps of everyone else keep the invariant.
LEMMA ClaimElsewhereKeeps ==
    ASSUME TypeOK, ClaimQuietInv, ClaimElsewhere PROVE ClaimQuietInv'
  <1>1. cw' = cw /\ \A c \in Claims : ClaimStays(c)
    BY DEF ClaimElsewhere
  <1>2. ClaimReconcileUpToDate /\ \A c \in Claims : ClaimRests(c)
    BY ClaimQuietParts
  <1>3. ASSUME NEW c \in Claims PROVE ClaimRests(c)'
    <2>1. CASE cw.key = c
      BY <1>1, <2>1 DEF ClaimRests
    <2>2. CASE cw.key # c
      BY <1>1, <1>2, <2>2, ClaimRestsStay
    <2>. QED  BY <2>1, <2>2
  <1>4. ClaimReconcileUpToDate'
    <2>1. CASE cw.pc = "idle"
      BY <1>1, <1>2, <2>1 DEF ClaimReconcileUpToDate
    <2>2. CASE cw.pc # "idle"
      <3>1. PICK c \in Claims : c = cw.key
        BY <2>2, ClaimWorkerTypes
      <3>2. PICK o : o = cw.obj
        OBVIOUS
      <3>3. ASSUME ClaimQuiet(c)'
            PROVE  /\ ClaimQuiet(c) /\ Claim(c)' = Claim(c)
                   /\ AppInPlace(c, o)' <=> AppInPlace(c, o)
                   /\ o = Claim(c) /\ o.live =>
                         (CachedTenantReady(o)' <=> CachedTenantReady(o))
        BY <1>1, <3>3, StaysMeansSame
      <3>4. {"app", "status"} \subseteq ClaimMainPcs
        BY DEF ClaimMainPcs
      <3>. QED  BY <1>1, <3>1, <3>2, <3>3, <3>4, ClaimRunning, ClaimUpToDateNext
    <2>. QED  BY <2>1, <2>2
  <1>. QED  BY <1>3, <1>4, ClaimQuietNext

-----------------------------------------------------------------------------
(* Steps of the ServiceClaim controller *)

LEMMA ClaimWorkerKeeps ==
    ASSUME TypeOK, ClaimQuietInv, NEW c \in Claims, cw.key = c,
           ClaimReconcileUpToDate', \A d \in Claims : ClaimStays(d),
           cw'.key = c \/ ClaimRests(c)'
    PROVE  ClaimQuietInv'
  <1>1. ASSUME NEW d \in Claims PROVE ClaimRests(d)'
    <2>1. CASE d = c
      BY <2>1 DEF ClaimRests
    <2>2. CASE d # c
      <3>1. ClaimRests(d)
        BY ClaimQuietParts
      <3>. QED  BY <2>2, <3>1, ClaimRestsStay
    <2>. QED  BY <2>1, <2>2
  <1>. QED  BY <1>1, ClaimQuietNext

LEMMA ClaimIdleUpToDate ==
    ASSUME cw' = IdleClaimWorker PROVE ClaimReconcileUpToDate'
  BY DEF ClaimReconcileUpToDate, IdleClaimWorker

LEMMA ClaimDoneAgain ==
    ASSUME TypeOK, ClaimQuietInv, NEW c \in Claims, cw.key = c,
           \A d \in Claims : ClaimStays(d), ClaimDone(TRUE)
    PROVE  ClaimQuietInv'
  <1>1. cw' = IdleClaimWorker /\ c \in claimQueue'
    BY DEF ClaimDone
  <1>2. ClaimReconcileUpToDate'
    BY <1>1, ClaimIdleUpToDate
  <1>3. ClaimRests(c)'
    BY <1>1 DEF ClaimRests, ClaimQuiet
  <1>. QED  BY <1>2, <1>3, ClaimWorkerKeeps

LEMMA ClaimDoneForGood ==
    ASSUME TypeOK, ClaimQuietInv, NEW c \in Claims, cw.key = c,
           \A d \in Claims : ClaimStays(d), ClaimDone(FALSE),
           ClaimQuiet(c)' /\ Claim(c)'.live /\ ~Claim(c)'.del => ClaimSettled(c)'
    PROVE  ClaimQuietInv'
  <1>1. cw' = IdleClaimWorker
    BY DEF ClaimDone
  <1>2. ClaimReconcileUpToDate'
    BY <1>1, ClaimIdleUpToDate
  <1>3. ClaimRests(c)'
    BY DEF ClaimRests
  <1>. QED  BY <1>2, <1>3, ClaimWorkerKeeps

LEMMA ClaimGoesOn ==
    ASSUME TypeOK, ClaimQuietInv, NEW c \in Claims, cw.key = c,
           \A d \in Claims : ClaimStays(d),
           NEW pc, NEW o, NEW st, NEW err \in BOOLEAN, ClaimGoto(pc, o, st, err),
           err => pc = "status",
           pc = "app" => IsStatusConditionTrue(st, "TenantReady"),
           ClaimQuiet(c)' /\ pc \in ClaimDeletePcs =>
              ~Claim(c)'.live \/ Claim(c)'.del,
           ClaimQuiet(c)' /\ pc \in ClaimMainPcs => o = Claim(c)' /\ o.live,
           ClaimQuiet(c)' /\ pc = "app" => CachedTenantReady(o)',
           ClaimQuiet(c)' /\ pc = "status" /\ ~err =>
              LET ready == IsStatusConditionTrue(st, "TenantReady")
              IN  /\ ready <=> CachedTenantReady(o)'
                  /\ ready => /\ IsStatusConditionTrue(st, "ArgoAppCreated")
                              /\ AppInPlace(c, o)'
    PROVE  ClaimQuietInv'
  <1>1. cw' = [cw EXCEPT !.pc = pc, !.obj = o, !.st = st, !.err = err]
    BY DEF ClaimGoto
  <1>2. cw'.key = c /\ cw'.obj = o /\ cw'.pc = pc /\ cw'.st = st /\ cw'.err = err
    BY <1>1 DEF TypeOK, ClaimWorkerTypeOK
  <1>3. ClaimReconcileUpToDate'
    BY <1>2, ClaimUpToDateNext
  <1>. QED  BY <1>2, <1>3, ClaimWorkerKeeps

\* A step of the worker that writes at most its claim, or its Application.
LEMMA ClaimWorkerPuts ==
    ASSUME TypeOK, NEW c \in Claims, NEW v, tenantLog' = tenantLog,
           \/ /\ UNCHANGED claimLog \/ PutClaim(c, v)
              /\ UNCHANGED <<app, appEvents>>
           \/ /\ UNCHANGED claimLog
              /\ UNCHANGED <<app, appEvents>> \/ PutApp(c, v),
           \/ \E b : ClaimDone(b)
           \/ \E pc, o, st, err : ClaimGoto(pc, o, st, err)
    PROVE  \A d \in Claims : ClaimStays(d)
  <1>a. ClusterTypeOK
    BY DEF TypeOK
  <1>1. SameTenantCaches
    BY <1>a, TenantCachesKept
  <1>2. claimQueue \subseteq claimQueue'
    BY DEF ClaimDone, ClaimGoto
  <1>3. CASE PutClaim(c, v) /\ UNCHANGED <<app, appEvents>>
    BY <1>a, <1>1, <1>2, <1>3, StaysPutClaim
  <1>4. CASE UNCHANGED claimLog /\ PutApp(c, v)
    BY <1>a, <1>1, <1>2, <1>4, StaysPutApp
  <1>5. CASE UNCHANGED <<claimLog, app, appEvents>>
    BY <1>a, <1>1, <1>2, <1>5, StaysSame
  <1>. QED  BY <1>3, <1>4, <1>5

LEMMA ClaimFinalizerQuiet ==
    ASSUME TypeOK, ClaimQuietInv, NEW out, ClaimEnsureFinalizer(out)
    PROVE  ClaimQuietInv'
  <1>a. cw.pc = "finalizer" /\ tenantLog' = tenantLog
        /\ UNCHANGED <<app, appEvents>>
    BY DEF ClaimEnsureFinalizer, argo
  <1>1. PICK c \in Claims : c = cw.key
    BY <1>a, ClaimWorkerTypes
  <1>2. PICK new : new = [cw.obj EXCEPT !.fin = TRUE]
    OBVIOUS
  <1>. DEFINE conflict == Conflict(Claim(c), cw.obj)
  <1>3. /\ UNCHANGED claimLog \/ PutClaim(c, new)
        /\ IF out = "ok" /\ ~conflict
           THEN ClaimGoto("gate", new, new.status, FALSE)
           ELSE ClaimDone(TRUE)
        /\ out = "ok" /\ ~conflict => PutClaim(c, new)
    BY <1>1, <1>2 DEF ClaimEnsureFinalizer
  <1>4. \A d \in Claims : ClaimStays(d)
    BY <1>a, <1>3, ClaimWorkerPuts
  <1>5. CASE ~(out = "ok" /\ ~conflict)
    BY <1>1, <1>3, <1>4, <1>5, ClaimDoneAgain
  <1>6. CASE out = "ok" /\ ~conflict
    <2>1. Claim(c)' = new
      BY <1>3, <1>6, PutClaimFacts DEF TypeOK
    <2>2. cw.obj \in ClaimSet
      BY <1>a, ClaimWorkerTypes
    <2>3. ClaimQuiet(c)' => new.live
      <3>1. ClaimQuiet(c)' => cw.obj.live
        BY <1>a, <1>1, <1>4, ClaimRunning, StaysMeansSame DEF ClaimMainPcs
      <3>2. new.live = cw.obj.live
        BY <1>2, <2>2 DEF ClaimSet
      <3>. QED  BY <3>1, <3>2
    <2>4. "gate" \notin ClaimDeletePcs
      BY DEF ClaimDeletePcs
    <2>. QED  BY <1>1, <1>3, <1>4, <1>6, <2>1, <2>3, <2>4, ClaimGoesOn
  <1>. QED  BY <1>5, <1>6

LEMMA SetConditionFacts ==
    ASSUME NEW T, NEW st \in StatusSet(T), NEW gen, NEW type \in T, NEW reason
    PROVE  /\ IsStatusConditionTrue(SetCondition(st, gen, type, reason), type)
                 <=> reason \in TrueReasons
           /\ \A k \in T : k # type =>
                 (IsStatusConditionTrue(SetCondition(st, gen, type, reason), k)
                     <=> IsStatusConditionTrue(st, k))
  <1>1. st.conds \in [T -> Reasons]
        /\ SetCondition(st, gen, type, reason).conds
              = [st.conds EXCEPT ![type] = reason]
    BY DEF SetCondition, StatusSet
  <1>. QED  BY <1>1 DEF IsStatusConditionTrue

\* The gate: what it finds out about the Tenant is what the cache says, and the
\* condition it sets says the same.
LEMMA GateQuiet ==
    ASSUME TypeOK, ClaimQuietInv, NEW out, ClaimGate(out)
    PROVE  ClaimQuietInv'
  <1>a. cw.pc = "gate" /\ tenantLog' = tenantLog
        /\ UNCHANGED <<claimLog, app, appEvents>>
    BY DEF ClaimGate, argo
  <1>1. PICK c \in Claims : c = cw.key
    BY <1>a, ClaimWorkerTypes
  <1>2. PICK o : o = cw.obj
    OBVIOUS
  <1>. DEFINE Set(reason) == SetCondition(cw.st, cw.obj.gen, "TenantReady", reason)
              bad == {"TenantNotFound", "TenantNotReady"}
  <1>3. PICK st : \/ st = Set("TenantError") /\ ClaimGoto("status", o, st, TRUE)
                  \/ /\ ~CachedTenantReady(o)
                     /\ \E r \in bad : st = Set(r)
                     /\ ClaimGoto("status", o, st, FALSE)
                  \/ /\ CachedTenantReady(o) /\ st = Set("TenantReady")
                     /\ ClaimGoto("app", o, st, FALSE)
    BY <1>2 DEF ClaimGate, CachedTenantReady
  <1>4. \A d \in Claims : ClaimStays(d)
    BY <1>a, <1>1, <1>3, ClaimWorkerPuts
  <1>5. {"app", "status", "gate"} \subseteq ClaimMainPcs
        /\ "app" \notin ClaimDeletePcs /\ "status" \notin ClaimDeletePcs
    BY DEF ClaimMainPcs, ClaimDeletePcs
  <1>6. ClaimQuiet(c)' => /\ o = Claim(c)' /\ o.live
                          /\ CachedTenantReady(o)' <=> CachedTenantReady(o)
    BY <1>a, <1>1, <1>2, <1>4, <1>5, ClaimRunning, StaysMeansSame
  <1>7. cw.st \in StatusSet(ClaimConds) /\ "TenantReady" \in ClaimConds
    BY <1>a, ClaimWorkerTypes DEF ClaimConds
  <1>8. /\ IsStatusConditionTrue(Set("TenantReady"), "TenantReady")
        /\ \A r \in bad : ~IsStatusConditionTrue(Set(r), "TenantReady")
    BY <1>7, SetConditionFacts DEF TrueReasons
  <1>. HIDE DEF Set, bad
  <1>9. CASE ClaimGoto("status", o, st, TRUE)
    BY <1>1, <1>4, <1>5, <1>6, <1>9, ClaimGoesOn
  <1>10. CASE /\ ~CachedTenantReady(o) /\ \E r \in bad : st = Set(r)
              /\ ClaimGoto("status", o, st, FALSE)
    BY <1>1, <1>4, <1>5, <1>6, <1>8, <1>10, ClaimGoesOn
  <1>11. CASE /\ CachedTenantReady(o) /\ st = Set("TenantReady")
              /\ ClaimGoto("app", o, st, FALSE)
    BY <1>1, <1>4, <1>5, <1>6, <1>8, <1>11, ClaimGoesOn
  <1>. QED  BY <1>3, <1>9, <1>10, <1>11

\* The Application of a claim that stays quiet was rendered already.
LEMMA AppQuiet ==
    ASSUME TypeOK, ClaimQuietInv, NEW out, ClaimEnsureArgoApplication(out)
    PROVE  ClaimQuietInv'
  <1>a. cw.pc = "app" /\ tenantLog' = tenantLog /\ UNCHANGED claimLog
    BY DEF ClaimEnsureArgoApplication
  <1>1. PICK c \in Claims : c = cw.key
    BY <1>a, ClaimWorkerTypes
  <1>2. PICK o : o = cw.obj
    OBVIOUS
  <1>3. PICK v : v = RenderedApp(app[c], o)
    OBVIOUS
  <1>. DEFINE Set(reason) == SetCondition(cw.st, cw.obj.gen, "ArgoAppCreated",
                                          reason)
  <1>4. PICK good : good = Set("ApplicationApplied")
    OBVIOUS
  <1>5. PICK bad : bad = Set("ArgoAppError")
    OBVIOUS
  <1>6. /\ UNCHANGED <<app, appEvents>> \/ PutApp(c, v)
        /\ out = "ok" => PutApp(c, v)
        /\ IF out = "ok" THEN ClaimGoto("status", o, good, FALSE)
                         ELSE ClaimGoto("status", o, bad, TRUE)
    BY <1>1, <1>2, <1>3, <1>4, <1>5 DEF ClaimEnsureArgoApplication
  <1>7. \A d \in Claims : ClaimStays(d)
    BY <1>a, <1>6, ClaimWorkerPuts
  <1>8. {"app", "status"} \subseteq ClaimMainPcs /\ "status" \notin ClaimDeletePcs
    BY DEF ClaimMainPcs, ClaimDeletePcs
  <1>9. ClaimQuiet(c)' => /\ o = Claim(c)' /\ o.live /\ CachedTenantReady(o)'
                          /\ app'[c] = app[c]
    BY <1>a, <1>1, <1>2, <1>7, <1>8, ClaimRunning, StaysMeansSame
  <1>10. CASE out # "ok"
    BY <1>1, <1>6, <1>7, <1>8, <1>9, <1>10, ClaimGoesOn
  <1>11. CASE out = "ok"
    <2>1. app'[c] = v /\ app[c] \in AppSet
      BY <1>6, <1>11 DEF PutApp, TypeOK, ClusterTypeOK
    <2>2. ClaimQuiet(c)' => AppInPlace(c, o)'
      <3>. SUFFICES ASSUME ClaimQuiet(c)' PROVE AppInPlace(c, o)'
        OBVIOUS
      <3>1. app'[c] = RenderedApp(app'[c], o) /\ v.live
        BY <1>3, <1>9, <2>1 DEF RenderedApp, AppSet
      <3>. QED  BY <2>1, <3>1 DEF AppInPlace, RenderedApp
    <2>3. cw.st \in StatusSet(ClaimConds) /\ "ArgoAppCreated" \in ClaimConds
          /\ "TenantReady" \in ClaimConds /\ "TenantReady" # "ArgoAppCreated"
          /\ "ApplicationApplied" \in TrueReasons
      BY <1>a, ClaimWorkerTypes DEF ClaimConds, TrueReasons
    <2>4. IsStatusConditionTrue(good, "ArgoAppCreated")
          /\ IsStatusConditionTrue(good, "TenantReady")
      BY <1>a, <1>1, <1>4, <2>3, ClaimRunning, SetConditionFacts
    <2>. QED  BY <1>1, <1>6, <1>7, <1>8, <1>9, <1>11, <2>2, <2>4, ClaimGoesOn
  <1>. QED  BY <1>10, <1>11

LEMMA ClaimAggregateFacts ==
    ASSUME NEW st \in StatusSet(ClaimConds), NEW gen \in Nat
    PROVE  LET a == ClaimAggregateReady(st, gen)
               ready == /\ IsStatusConditionTrue(st, "TenantReady")
                        /\ IsStatusConditionTrue(st, "ArgoAppCreated")
           IN  /\ a.og = gen
               /\ a.phase = "Ready" <=> ready
               /\ IsStatusConditionTrue(a, "Ready") <=> ready
  <1>. DEFINE ready == /\ IsStatusConditionTrue(st, "TenantReady")
                       /\ IsStatusConditionTrue(st, "ArgoAppCreated")
              agg == [st EXCEPT !.og = gen,
                                !.phase = IF ready THEN "Ready" ELSE "Pending"]
              reason == IF ready THEN "AllResourcesReady" ELSE "ResourcesNotReady"
  <1>1. ClaimAggregateReady(st, gen) = SetCondition(agg, gen, "Ready", reason)
    BY DEF ClaimAggregateReady
  <1>2. /\ agg \in StatusSet(ClaimConds) /\ agg.og = gen
        /\ agg.phase = "Ready" <=> ready
    BY DEF StatusSet, Phases
  <1>3. reason \in TrueReasons <=> ready
    BY DEF TrueReasons
  <1>4. "Ready" \in ClaimConds
    BY DEF ClaimConds
  <1>. HIDE DEF ready, agg, reason
  <1>5. /\ SetCondition(agg, gen, "Ready", reason).og = gen
        /\ SetCondition(agg, gen, "Ready", reason).phase = agg.phase
    BY <1>2 DEF SetCondition, StatusSet
  <1>6. IsStatusConditionTrue(SetCondition(agg, gen, "Ready", reason), "Ready")
           <=> ready
    BY <1>2, <1>3, <1>4, SetConditionFacts
  <1>. QED  BY <1>1, <1>2, <1>5, <1>6 DEF ready

LEMMA ClaimStatusQuiet ==
    ASSUME TypeOK, ClaimQuietInv, NEW out, ClaimPatchStatus(out)
    PROVE  ClaimQuietInv'
  <1>a. cw.pc = "status" /\ tenantLog' = tenantLog /\ UNCHANGED <<app, appEvents>>
    BY DEF ClaimPatchStatus, argo
  <1>1. PICK c \in Claims : c = cw.key
    BY <1>a, ClaimWorkerTypes
  <1>. DEFINE agg == ClaimAggregateReady(cw.st, cw.obj.gen)
              again == cw.err \/ out # "ok" \/ ~Claim(c).live
  <1>2. PICK v : v = ClaimPatched(agg)
    OBVIOUS
  <1>3. /\ UNCHANGED claimLog \/ PutClaim(c, v)
        /\ ~again => PutClaim(c, v)
        /\ ClaimDone(again)
    BY <1>1, <1>2 DEF ClaimPatchStatus, PatchClaim
  <1>4. \A d \in Claims : ClaimStays(d)
    BY <1>a, <1>3, ClaimWorkerPuts
  <1>5. CASE again
    <2>1. ClaimDone(TRUE)
      BY <1>3, <1>5 DEF ClaimDone
    <2>. QED  BY <1>1, <1>4, <2>1, ClaimDoneAgain
  <1>6. CASE ~again
    <2>1. ClaimDone(FALSE)
      BY <1>3, <1>6 DEF ClaimDone
    <2>2. ASSUME ClaimQuiet(c)' PROVE ClaimSettled(c)'
      <3>1. "status" \in ClaimMainPcs
        BY DEF ClaimMainPcs
      <3>2. /\ ClaimQuiet(c) /\ Claim(c)' = Claim(c)
            /\ cw.obj = Claim(c) /\ cw.obj.live
            /\ LET ready == IsStatusConditionTrue(cw.st, "TenantReady")
               IN  /\ ready <=> CachedTenantReady(cw.obj)
                   /\ ready => /\ IsStatusConditionTrue(cw.st, "ArgoAppCreated")
                               /\ AppInPlace(c, cw.obj)
        BY <1>a, <1>1, <1>4, <1>6, <2>2, <3>1, ClaimRunning, StaysMeansSame
      <3>3. /\ cw.obj \in ClaimSet /\ cw.st \in StatusSet(ClaimConds)
            /\ cw.obj.gen \in Nat /\ cw.obj.status \in StatusSet(ClaimConds)
        BY <1>a, ClaimWorkerTypes
      <3>4. agg \in StatusSet(ClaimConds)
        BY <3>3, ClaimAggregateType
      <3>5. LET ready == /\ IsStatusConditionTrue(cw.st, "TenantReady")
                         /\ IsStatusConditionTrue(cw.st, "ArgoAppCreated")
            IN  /\ agg.og = cw.obj.gen
                /\ agg.phase = "Ready" <=> ready
                /\ IsStatusConditionTrue(agg, "Ready") <=> ready
        BY <3>3, ClaimAggregateFacts
      <3>. HIDE DEF agg
      <3>6. Claim(c)' = v
        BY <1>3, <1>6, PutClaimFacts DEF TypeOK
      <3>7. MergePatch(cw.obj.status, cw.obj.status, agg) = agg
        BY <3>3, <3>4, PatchFresh
      <3>8. v = [cw.obj EXCEPT !.status = agg]
        BY <1>1, <1>2, <3>2, <3>7 DEF ClaimPatched
      <3>9. v.status = agg /\ v.gen = cw.obj.gen
        BY <3>3, <3>8 DEF ClaimSet
      <3>10. cw.obj = v
        BY <3>2, <3>6
      <3>11. /\ CachedTenantReady(v)' <=> CachedTenantReady(v)
             /\ AppInPlace(c, v)' <=> AppInPlace(c, v)
        BY <1>a DEF CachedTenantReady, AppInPlace
      <3>12. LET ready == IsStatusConditionTrue(v.status, "Ready")
             IN  /\ v.status.og = v.gen
                 /\ ready <=> v.status.phase = "Ready"
                 /\ ready <=> CachedTenantReady(v)'
                 /\ ready => AppInPlace(c, v)'
        BY <3>2, <3>5, <3>9, <3>10, <3>11
      <3>. QED  BY <3>6, <3>12 DEF ClaimSettled, CachedTenantReady, AppInPlace
    <2>. QED  BY <1>1, <1>4, <2>1, <2>2, ClaimDoneForGood
  <1>. QED  BY <1>5, <1>6

\* The steps of reconcileDelete: a quiet claim is terminating or gone.
LEMMA ClaimDeleteStepQuiet ==
    ASSUME TypeOK, ClaimQuietInv, NEW c \in Claims, cw.key = c,
           cw.pc \in ClaimDeletePcs, \A d \in Claims : ClaimStays(d),
           \/ \E b \in BOOLEAN : ClaimDone(b)
           \/ \E pc \in ClaimDeletePcs : \E o, st : ClaimGoto(pc, o, st, FALSE)
    PROVE  ClaimQuietInv'
  <1>1. ClaimQuiet(c)' => ~Claim(c)'.live \/ Claim(c)'.del
    BY ClaimRunning, StaysMeansSame
  <1>2. CASE ClaimDone(TRUE)
    BY <1>2, ClaimDoneAgain
  <1>3. CASE ClaimDone(FALSE)
    BY <1>1, <1>3, ClaimDoneForGood
  <1>4. ASSUME NEW pc \in ClaimDeletePcs, NEW o, NEW st,
               ClaimGoto(pc, o, st, FALSE)
        PROVE  ClaimQuietInv'
    <2>1. pc \notin ClaimMainPcs /\ pc # "app" /\ pc # "status"
      BY DEF ClaimDeletePcs, ClaimMainPcs
    <2>. QED  BY <1>1, <1>4, <2>1, ClaimGoesOn
  <1>. QED  BY <1>2, <1>3, <1>4

LEMMA ClaimDeletePathQuiet ==
    ASSUME TypeOK, ClaimQuietInv, NEW out,
           \/ ClaimGetApp(out) \/ ClaimDeleteApp(out) \/ ClaimPatchDeleting(out)
           \/ ClaimPatchDrained(out) \/ ClaimRelease(out)
    PROVE  ClaimQuietInv'
  <1>a. cw.pc \in ClaimDeletePcs /\ cw.pc # "idle" /\ tenantLog' = tenantLog
    BY DEF ClaimGetApp, ClaimDeleteApp, ClaimPatchDeleting, ClaimPatchDrained,
       ClaimRelease, ClaimDeletePcs
  <1>1. PICK c \in Claims : c = cw.key
    BY <1>a, ClaimWorkerTypes
  <1>b. {"patchDrained", "deleteApp", "patchDeleting", "release"}
           \subseteq ClaimDeletePcs
    BY DEF ClaimDeletePcs
  <1>2. \/ \E b \in BOOLEAN : ClaimDone(b)
        \/ \E pc \in ClaimDeletePcs : \E o, st : ClaimGoto(pc, o, st, FALSE)
    <2>1. CASE ClaimGetApp(out)
      BY <1>b, <2>1 DEF ClaimGetApp
    <2>2. CASE ClaimDeleteApp(out)
      BY <1>b, <2>2 DEF ClaimDeleteApp
    <2>3. CASE ClaimPatchDeleting(out)
      BY <2>3 DEF ClaimPatchDeleting
    <2>4. CASE ClaimPatchDrained(out)
      BY <1>b, <2>4, ClaimDoneBool DEF ClaimPatchDrained
    <2>5. CASE ClaimRelease(out)
      BY <2>5, ClaimDoneBool DEF ClaimRelease
    <2>. QED  BY <2>1, <2>2, <2>3, <2>4, <2>5
  <1>3. \E v : \/ /\ UNCHANGED claimLog \/ PutClaim(c, v)
                  /\ UNCHANGED <<app, appEvents>>
               \/ /\ UNCHANGED claimLog
                  /\ UNCHANGED <<app, appEvents>> \/ PutApp(c, v)
    BY <1>1 DEF ClaimGetApp, ClaimDeleteApp, ClaimPatchDeleting,
       ClaimPatchDrained, ClaimRelease, PatchClaim, argo
  <1>4. \A d \in Claims : ClaimStays(d)
    BY <1>a, <1>2, <1>3, ClaimWorkerPuts
  <1>. QED  BY <1>a, <1>1, <1>2, <1>4, ClaimDeleteStepQuiet

LEMMA ClaimReconcileQuiet ==
    ASSUME TypeOK, ClaimQuietInv, NEW c \in Claims, ClaimReconcile(c)
    PROVE  ClaimQuietInv'
  <1>. DEFINE cached == Cached(claimLog[c])
  <1>a. \A d \in Claims : ClaimRests(d)
    BY ClaimQuietParts
  <1>1. /\ cw.pc = "idle" /\ tenantLog' = tenantLog /\ claimLog' = claimLog
        /\ app' = app /\ appEvents' = appEvents
        /\ claimQueue' = claimQueue \ {c}
    BY DEF ClaimReconcile, argo
  <1>2. cw.key = None
    BY <1>1 DEF TypeOK, ClaimWorkerTypeOK
  <1>3. ASSUME NEW d \in Claims, d # c PROVE ClaimRests(d)'
    <2>1. SameTenantCaches
      BY <1>1, TenantCachesKept DEF TypeOK
    <2>2. ClaimStays(d)
      BY <1>1, <1>3, <2>1, StaysSame DEF TypeOK
    <2>. QED  BY <1>a, <1>2, <2>2, NoneAssumption, ClaimRestsStay
  <1>4. ClaimQuiet(c)' => cached = Claim(c)'
    BY <1>1 DEF ClaimQuiet, Cached, Claim, Stored
  <1>5. CASE cw' = cw /\ (~cached.live \/ cached.del)
    <2>1. ClaimRests(c)'
      BY <1>4, <1>5 DEF ClaimRests
    <2>2. ClaimReconcileUpToDate
      BY ClaimQuietParts
    <2>3. ClaimReconcileUpToDate'
      BY <1>1, <1>5, <2>2 DEF ClaimReconcileUpToDate
    <2>. QED  BY <1>3, <2>1, <2>3, ClaimQuietNext
  <1>6. ASSUME NEW pc, NEW st, cached.live,
               cw' = [pc |-> pc, key |-> c, obj |-> cached, st |-> st,
                      err |-> FALSE],
               \/ pc = "getApp" /\ cached.del
               \/ pc \in {"finalizer", "gate"}
        PROVE  ClaimQuietInv'
    <2>1. PICK o : o = cached
      OBVIOUS
    <2>2. cw'.key = c /\ cw'.obj = o /\ cw'.pc = pc /\ ~cw'.err
      BY <1>6, <2>1
    <2>3. pc # "app" /\ pc # "status" /\ (pc \in ClaimDeletePcs => cached.del)
      BY <1>6 DEF ClaimDeletePcs
    <2>4. ClaimReconcileUpToDate'
      BY <1>4, <1>6, <2>1, <2>2, <2>3, ClaimUpToDateNext
    <2>5. ClaimRests(c)'
      BY <2>2 DEF ClaimRests
    <2>. QED  BY <1>3, <2>4, <2>5, ClaimQuietNext
  <1>7. \/ cw' = cw /\ (~cached.live \/ cached.del)
        \/ \E pc, st :
              /\ cached.live
              /\ cw' = [pc |-> pc, key |-> c, obj |-> cached, st |-> st,
                        err |-> FALSE]
              /\ \/ pc = "getApp" /\ cached.del
                 \/ pc \in {"finalizer", "gate"}
    BY DEF ClaimReconcile, ClaimFirstStep
  <1>. HIDE DEF cached
  <1>. QED  BY <1>5, <1>6, <1>7

LEMMA ClaimNextQuiet ==
    ASSUME TypeOK, ClaimQuietInv, ClaimNext PROVE ClaimQuietInv'
  BY ClaimReconcileQuiet, ClaimFinalizerQuiet, GateQuiet, AppQuiet,
     ClaimStatusQuiet, ClaimDeletePathQuiet DEF ClaimNext, ClaimStep

LEMMA ClaimCrashQuiet ==
    ASSUME TypeOK, ClaimQuietInv, Crash PROVE ClaimQuietInv'
  <1>1. /\ cw' = IdleClaimWorker
        /\ \A c \in Claims : claimLog'[c] = <<Claim(c)>>
        /\ claimQueue' = {c \in Claims : Claim(c).live \/ app[c].live}
    BY DEF Crash
  <1>2. \A c \in Claims : Claim(c)' = Claim(c)
    BY <1>1 DEF Claim, Stored
  <1>3. ClaimReconcileUpToDate'
    BY <1>1, ClaimIdleUpToDate
  <1>4. ASSUME NEW c \in Claims PROVE ClaimRests(c)'
    BY <1>1, <1>2 DEF ClaimRests, ClaimQuiet
  <1>. QED  BY <1>3, <1>4, ClaimQuietNext

LEMMA ClaimQuietInit == Init => ClaimQuietInv
  <1>. SUFFICES ASSUME Init PROVE ClaimQuietInv
    OBVIOUS
  <1>1. /\ \A c \in Claims : Claim(c) = AbsentClaim(0)
        /\ cw = IdleClaimWorker
    BY DEF Init, ClusterInit, Claim, Stored
  <1>. QED  BY <1>1 DEF ClaimQuietInv, ClaimReconcileUpToDate, IdleClaimWorker,
     AbsentClaim

LEMMA ClaimQuietStep ==
    ASSUME TypeOK, ClaimQuietInv, [Next]_vars,
           [\A t \in Teams : DeliverTenant(t, "fail") => DeliverTenant(t, "ok")]_vars
    PROVE  ClaimQuietInv'
  <1>1. CASE UserNext
    BY <1>1, ClaimElsewhereUser, ClaimElsewhereKeeps
  <1>2. CASE ClaimNext
    BY <1>2, ClaimNextQuiet
  <1>3. CASE TenantNext
    BY <1>3, ClaimElsewhereTenant, ClaimElsewhereKeeps
  <1>4. CASE WatchNext /\ vars' # vars
    BY <1>4, ClaimElsewhereWatch, ClaimElsewhereKeeps
  <1>5. CASE ExternalNext
    BY <1>5, ClaimElsewhereExternal, ClaimElsewhereKeeps
  <1>6. CASE Crash
    BY <1>6, ClaimCrashQuiet
  <1>7. CASE UNCHANGED vars
    <2>1. cw' = cw /\ tenantLog' = tenantLog /\ claimLog' = claimLog
          /\ app' = app /\ appEvents' = appEvents /\ claimQueue' = claimQueue
      BY <1>7 DEF vars
    <2>2. SameTenantCaches
      BY <2>1, TenantCachesKept DEF TypeOK
    <2>3. ClaimElsewhere
      BY <2>1, <2>2, ClaimSideAlone DEF TypeOK
    <2>. QED  BY <2>3, ClaimElsewhereKeeps
  <1>. QED  BY <1>1, <1>2, <1>3, <1>4, <1>5, <1>6, <1>7 DEF Next

\* The invariant of the ServiceClaim controller: a reconcile of a claim that has
\* stayed quiet works on the stored claim and knows what the cache says about
\* its Tenant; a claim that nobody is about to reconcile reports exactly that.
\* It takes that no list behind claimsForTenant fails.
THEOREM ClaimQuietInvariant == Spec /\ ListsAnswered => []ClaimQuietInv
  BY TypeCorrect, ClaimQuietInit, ClaimQuietStep, PTL DEF Spec, ListsAnswered

\* Whatever stale reads, torn status patches, failing calls, edits, deletions by
\* hand and restarts there were: once nothing is left that would make the
\* controller look at a claim again and its Tenant's events have arrived, the
\* claim is Ready iff its Tenant is, and then its Application is rendered from
\* its present spec.
THEOREM UnattendedClaims == Spec /\ ListsAnswered => []UnattendedClaimReconciled
  <1>1. TypeOK /\ ClaimQuietInv => UnattendedClaimReconciled
    <2>. SUFFICES ASSUME TypeOK, ClaimQuietInv, NEW c \in Claims,
                         Claim(c).live, ~Claim(c).del,
                         ClaimQuiet(c), cw.key # c,
                         Len(tenantLog[Claim(c).team]) = 1
                  PROVE  ClaimReconciled(c) \/ (app[c].live /\ app[c].del)
      BY DEF UnattendedClaimReconciled
    <2>1. ClaimSettled(c)
      BY ClaimQuietParts DEF ClaimRests
    <2>2. Cached(tenantLog[Claim(c).team]) = Tenant(Claim(c).team)
      BY DEF Cached, Tenant, Stored
    <2>. QED  BY <2>1, <2>2 DEF ClaimSettled, CachedTenantReady, AppInPlace,
         ClaimReconciled
  <1>. QED  BY <1>1, TypeCorrect, ClaimQuietInvariant, PTL
=============================================================================
