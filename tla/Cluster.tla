------------------------------ MODULE Cluster -------------------------------
(***************************************************************************)
(* The Kubernetes cluster the two controllers work on: the objects in      *)
(* etcd, the informer caches that lag behind it, the work queues, and the  *)
(* two external actors that react to the controllers (ArgoCD and the       *)
(* namespace controller).                                                  *)
(*                                                                         *)
(* For each object that a controller reads through an informer (Tenant,    *)
(* ServiceClaim, Namespace, RoleBinding, ResourceQuota) one sequence of    *)
(* versions is kept.  Its last element is what etcd stores, its first is   *)
(* what the informer's cache holds, and the ones after the first are the   *)
(* watch events that are still under way.  Each object is its own stream,  *)
(* as each kind is its own watch.  Applications are read as unstructured   *)
(* objects, which the manager's client does not cache: those reads are     *)
(* live.                                                                   *)
(*                                                                         *)
(* resourceVersion is not a field: a version is its content, and an        *)
(* optimistic-lock write succeeds iff the writer's copy is the stored      *)
(* version.                                                                *)
(***************************************************************************)
EXTENDS Naturals, Sequences, FiniteSets, Limits, VersionLog

CONSTANTS
    Teams,       \* Tenant names; team t has the namespace team-<t>
    Claims,      \* ServiceClaim names; an Application has its claim's name
    Images,      \* values of a claim's rendered spec (image and replicas)
    Resources,   \* the resource declarations users submit
    Ceiling,     \* platform.Limits, from the manager's flags
    None,        \* no team, no image
    MaxTenantUid, \* bound: incarnations of one Tenant name
    MaxClaimUid, \* bound: incarnations of one ServiceClaim name
    MaxGen,      \* bound: a spec is edited only below this generation
    MaxLag,      \* bound: watch events under way per object
    MaxCrashes,  \* bound: restarts of the manager
    MaxByHand,   \* bound: deletions by hand of objects a controller owns
    Lagging,     \* the kinds whose watch events may be late, see WatchedKinds
    Env,         \* the optional behaviours of the environment, see EnvOptions
    Faults       \* how an API call may fail, see FaultKinds

\* The kinds the manager watches.  Events of a kind outside Lagging arrive
\* before anyone takes another step, so reads of that kind are fresh (what the
\* tests' waitForCache arranges).
WatchedKinds == {"ServiceClaim", "Tenant", "Namespace", "RoleBinding",
                 "ResourceQuota", "Application"}

\* race:      admission of a new claim and its write to etcd are two steps
\* team_edit: users change spec.team of an existing claim
\* img_edit:  users change the image or the replicas of a claim
\* res_edit:  users change a Tenant's resources
\* app_delete: users delete an Application by hand
\* drift:     users delete a namespace, RoleBinding or quota by hand
\* resync:    a claim is queued for no reason of ours (periodic resync, an
\*            ArgoCD status write on its Application)
EnvOptions == {"race", "team_edit", "img_edit", "res_edit",
               "app_delete", "drift", "resync"}

\* fail: the call has no effect and returns an error
\* lost: the call takes effect and its answer is lost (the caller sees an error)
\* list: only the list behind claimsForTenant fails
CallFaults == {"fail", "lost"}
FaultKinds == CallFaults \cup {"list"}

ASSUME BoundsAssumption ==
    /\ MaxTenantUid \in Nat
    /\ MaxClaimUid \in Nat
    /\ MaxGen \in Nat
    /\ MaxLag \in Nat \ {0}
    /\ MaxCrashes \in Nat
    /\ MaxByHand \in Nat

ASSUME EnvAssumption ==
    /\ Lagging \subseteq WatchedKinds
    /\ Env \subseteq EnvOptions
    /\ Faults \subseteq FaultKinds

ASSUME NoneAssumption ==
    /\ None \notin Teams
    /\ None \notin Claims
    /\ None \notin Images

\* The result of an API call: its effect and what the caller is told.
Outcomes == {"ok"} \cup (Faults \cap CallFaults)

\* The outcomes of the list that a watch handler makes.
ListOutcomes == IF Faults \cap {"fail", "list"} = {} THEN {"ok"}
                ELSE {"ok", "fail"}

-----------------------------------------------------------------------------
(* Objects *)

Phases == {"", "Pending", "Ready", "Terminating"}

ClaimConds  == {"TenantReady", "ArgoAppCreated", "Ready", "ApplicationDrained"}
TenantConds == {"NamespaceReady", "RBACReady", "QuotaApplied", "Ready",
                "ClaimsDrained"}

\* A condition is its reason; the reason determines the condition's status.
TrueReasons == {"TenantReady", "ApplicationApplied", "AllResourcesReady",
                "ApplicationDeleted", "NamespaceCreated", "RoleBindingCreated",
                "QuotaApplied", "NoResourcesDeclared", "AllClaimsDeleted"}
FalseReasons == {"TenantNotFound", "TenantError", "TenantNotReady",
                 "ArgoAppError", "ResourcesNotReady", "DeletingApplication",
                 "ApplicationDeletionBlocked", "NamespaceError", "RBACError",
                 "QuotaError", "ClaimsRemain", "TerminationBlocked"}
Reasons == TrueReasons \cup FalseReasons \cup {"Unset"}

\* og is status.observedGeneration, cgen the observedGeneration that each
\* condition carries.
StatusSet(types) == [phase : Phases, og : Nat, cgen : [types -> Nat],
                     conds : [types -> Reasons]]
NoStatus(types)  == [phase |-> "", og |-> 0, cgen |-> [k \in types |-> 0],
                     conds |-> [k \in types |-> "Unset"]]

\* uid numbers the incarnations of a name; it survives deletion.  The schema
\* makes every stored claim name a team.
ClaimSet == {o \in [live : BOOLEAN, uid : Nat, gen : Nat, del : BOOLEAN,
                    fin : BOOLEAN, team : Teams \cup {None},
                    img : Images \cup {None}, status : StatusSet(ClaimConds)] :
                o.live => o.team \in Teams}
TenantSet == [live : BOOLEAN, uid : Nat, gen : Nat, del : BOOLEAN,
              fin : BOOLEAN, res : Resources \cup {NilResources},
              status : StatusSet(TenantConds)]

AbsentClaim(u) ==
    [live |-> FALSE, uid |-> u, gen |-> 0, del |-> FALSE, fin |-> FALSE,
     team |-> None, img |-> None, status |-> NoStatus(ClaimConds)]
AbsentTenant(u) ==
    [live |-> FALSE, uid |-> u, gen |-> 0, del |-> FALSE, fin |-> FALSE,
     res |-> NilResources, status |-> NoStatus(TenantConds)]

\* What a Tenant owns in its team's namespace; owner is the uid in the
\* controller reference, hard is the quota's spec.hard.
Kinds == {"Namespace", "RoleBinding", "ResourceQuota"}
Hards == {quotaHard(r) : r \in Resources} \cup {NoHard}
ChildSet == [live : BOOLEAN, owner : Nat, del : BOOLEAN, hard : Hards]
AbsentChild == [live |-> FALSE, owner |-> 0, del |-> FALSE, hard |-> NoHard]

\* The ArgoCD Application of a claim: dest is the team whose namespace it
\* syncs into, cascade is ArgoCD's resources-finalizer.
AppSet == [live : BOOLEAN, owner : Nat, dest : Teams \cup {None},
           img : Images \cup {None}, cascade : BOOLEAN, del : BOOLEAN]
AbsentApp == [live |-> FALSE, owner |-> 0, dest |-> None, img |-> None,
              cascade |-> FALSE, del |-> FALSE]

-----------------------------------------------------------------------------
VARIABLES
    claimLog,     \* claimLog[c]: the versions of claim c from cache to etcd
    tenantLog,    \* tenantLog[t]: the same for Tenant t
    childLog,     \* childLog[t][k]: the same for each object Tenant t owns
    app,          \* app[c]: the Application named c (live reads)
    appEvents,    \* claims whose Application has a watch event under way
    workload,     \* workload[c]: the team in whose namespace c's pods run
    admitted,     \* admitted[c]: a create of c that passed the webhook but is
                  \* not stored yet, as [team, img]; None if there is none
    claimQueue,   \* work queue of the ServiceClaim controller
    tenantQueue,  \* work queue of the Tenant controller
    cw,           \* the ServiceClaim controller's only worker
    tw,           \* the Tenant controller's only worker
    crashes,      \* restarts of the manager so far
    byHand        \* deletions by hand so far

queues  == <<claimQueue, tenantQueue>>
counts  == <<crashes, byHand>>
workers == <<cw, tw, crashes, byHand>>
argo    == <<app, appEvents, workload>>
vars    == <<claimLog, tenantLog, childLog, app, appEvents, workload,
             admitted, claimQueue, tenantQueue, cw, tw, crashes, byHand>>

-----------------------------------------------------------------------------
(* The API server and the informer caches *)

Claim(c)    == Stored(claimLog[c])
Tenant(t)   == Stored(tenantLog[t])
Child(t, k) == Stored(childLog[t][k])

HasRoom(log) == Len(log) <= MaxLag

PutClaim(c, v) ==
    /\ HasRoom(claimLog[c])
    /\ claimLog' = [claimLog EXCEPT ![c] = Written(@, v)]

PutTenant(t, v) ==
    /\ HasRoom(tenantLog[t])
    /\ tenantLog' = [tenantLog EXCEPT ![t] = Written(@, v)]

PutChild(t, k, v) ==
    /\ HasRoom(childLog[t][k])
    /\ childLog' = [childLog EXCEPT ![t] =
                       [childLog[t] EXCEPT ![k] = Written(childLog[t][k], v)]]

\* An Application changes: its Owns watch will queue the claim.
PutApp(c, v) ==
    /\ app' = [app EXCEPT ![c] = v]
    /\ appEvents' = IF v = app[c] THEN appEvents ELSE appEvents \cup {c}

\* No event of a kind that does not lag is under way.
Settled ==
    /\ "ServiceClaim" \in Lagging \/ \A c \in Claims : Len(claimLog[c]) = 1
    /\ "Tenant" \in Lagging \/ \A t \in Teams : Len(tenantLog[t]) = 1
    /\ \A k \in Kinds \ Lagging, t \in Teams : Len(childLog[t][k]) = 1
    /\ "Application" \in Lagging \/ appEvents = {}

\* The optimistic lock of the finalizer patches: the copy is not what is
\* stored any more.
Conflict_NoLock(stored, copy) == FALSE
Conflict(stored, copy) == stored # copy

\* Deleting an object marks it while finalizers remain, else removes it; the
\* deletion timestamp counts as a new generation.
Deleted(o, absent) ==
    IF o.fin THEN [o EXCEPT !.del = TRUE, !.gen = @ + 1] ELSE absent

\* Deleting an Application: ArgoCD's finalizer is the only one it carries.
DeletedApp(a) == IF a.cascade THEN [a EXCEPT !.del = TRUE] ELSE AbsentApp

\* Removing the last finalizer of an object that is marked removes it.
Unfinalized(o, absent) ==
    IF o.del THEN absent ELSE [o EXCEPT !.fin = FALSE]

-----------------------------------------------------------------------------
(* Status and conditions, shared by both reconcilers *)

IsStatusConditionTrue(st, type) == st.conds[type] \in TrueReasons

\* setCondition: the condition takes the generation of the object at hand.
SetCondition(st, gen, type, reason) ==
    [st EXCEPT !.cgen = [@ EXCEPT ![type] = gen],
               !.conds = [@ EXCEPT ![type] = reason]]

\* A JSON merge patch of the status: a field is sent iff it differs from the
\* base the writer took its diff against, the condition list as one field; no
\* precondition on uid or resourceVersion.
MergePatch(stored, base, new) ==
    LET sendConds == <<new.cgen, new.conds>> # <<base.cgen, base.conds>>
    IN  [phase |-> IF new.phase # base.phase THEN new.phase ELSE stored.phase,
         og    |-> IF new.og # base.og THEN new.og ELSE stored.og,
         cgen  |-> IF sendConds THEN new.cgen ELSE stored.cgen,
         conds |-> IF sendConds THEN new.conds ELSE stored.conds]

-----------------------------------------------------------------------------
(* ArgoCD and the namespace controller: external, modelled from what the    *)
(* controllers rely on.                                                     *)

NamespaceUsable(t) == Child(t, "Namespace").live /\ ~Child(t, "Namespace").del

\* ArgoCD syncs an Application: the workload runs in the destination namespace
\* (with prune, what ran in an earlier destination is removed).
ArgoSync(c) ==
    /\ Settled
    /\ app[c].live /\ ~app[c].del
    /\ workload[c] # app[c].dest
    /\ NamespaceUsable(app[c].dest)
    /\ workload' = [workload EXCEPT ![c] = app[c].dest]
    /\ UNCHANGED <<claimLog, tenantLog, childLog, app, appEvents, admitted,
                   queues, workers>>

\* ArgoCD prunes the workload of a deleted Application, then drops its
\* finalizer, and the Application is gone.
ArgoPrune(c) ==
    /\ Settled
    /\ app[c].live /\ app[c].del
    /\ workload' = [workload EXCEPT ![c] = None]
    /\ PutApp(c, AbsentApp)
    /\ UNCHANGED <<claimLog, tenantLog, childLog, admitted, queues, workers>>

\* The namespace controller removes everything in a terminating namespace,
\* running workloads included, and then the namespace.
NamespaceFinalize(t) ==
    /\ Settled
    /\ Child(t, "Namespace").live /\ Child(t, "Namespace").del
    /\ \A k \in Kinds : HasRoom(childLog[t][k])
    /\ childLog' = [childLog EXCEPT ![t] =
                       [k \in Kinds |-> Written(childLog[t][k], AbsentChild)]]
    /\ workload' = [c \in Claims |-> IF workload[c] = t THEN None
                                     ELSE workload[c]]
    /\ UNCHANGED <<claimLog, tenantLog, app, appEvents, admitted,
                   queues, workers>>

-----------------------------------------------------------------------------
ClusterTypeOK ==
    /\ claimLog \in [Claims -> Seq(ClaimSet)]
    /\ \A c \in Claims : Len(claimLog[c]) >= 1
    /\ tenantLog \in [Teams -> Seq(TenantSet)]
    /\ \A t \in Teams : Len(tenantLog[t]) >= 1
    /\ childLog \in [Teams -> [Kinds -> Seq(ChildSet)]]
    /\ \A t \in Teams, k \in Kinds : Len(childLog[t][k]) >= 1
    /\ app \in [Claims -> AppSet]
    /\ appEvents \subseteq Claims
    /\ workload \in [Claims -> Teams \cup {None}]
    /\ admitted \in [Claims -> [team : Teams, img : Images] \cup {None}]
    /\ claimQueue \subseteq Claims
    /\ tenantQueue \subseteq Teams
    /\ crashes \in 0..MaxCrashes
    /\ byHand \in 0..MaxByHand

ClusterInit ==
    /\ claimLog = [c \in Claims |-> <<AbsentClaim(0)>>]
    /\ tenantLog = [t \in Teams |-> <<AbsentTenant(0)>>]
    /\ childLog = [t \in Teams |-> [k \in Kinds |-> <<AbsentChild>>]]
    /\ app = [c \in Claims |-> AbsentApp]
    /\ appEvents = {}
    /\ workload = [c \in Claims |-> None]
    /\ admitted = [c \in Claims |-> None]
    /\ claimQueue = {}
    /\ tenantQueue = {}
    /\ crashes = 0
    /\ byHand = 0
=============================================================================
