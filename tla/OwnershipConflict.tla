------------------------- MODULE OwnershipConflict --------------------------
(***************************************************************************)
(* The reconstructed first design                                          *)
(* (scenarios/ownership-conflict/before): one kind of object, the          *)
(* ServiceClaim, whose reconciler creates and owns the team's namespace,   *)
(* its RoleBinding and quota, and the service's Application.  Two claims   *)
(* of one team compete for the first three; nothing has a finalizer, and   *)
(* what a deleted claim leaves behind is collected by its owner            *)
(* references.                                                             *)
(*                                                                         *)
(* The reconciler reads claims and team objects from the manager's cache   *)
(* (VersionLog), which may be behind; Applications are unstructured, which *)
(* the manager's client does not cache.  Their image, their labels and     *)
(* their other text are left out.                                          *)
(***************************************************************************)
EXTENDS Naturals, FiniteSets, Limits, VersionLog

CONSTANTS
    Teams, Claims, Resources, None,
    FirstSpecs,  \* the <<team, resources>> that claims are created with
    Troubles,    \* what may interfere, see TroubleKinds
    MaxTrouble,  \* bound: how often, counted together
    MaxLate,     \* bound: how many writes have their watch event late
    MaxLag       \* bound: watch events under way per object

\* edit:    the team or the resources of a claim change
\* again:   a claim is created under a name that was used before
\* by_hand: users delete a namespace, RoleBinding or quota
\* call:    an API call fails, or takes effect and its answer is lost
\* restart: the manager restarts
\* resync:  a claim is queued for no reason of its own (periodic resync of the
\*          cache, a status write of ArgoCD's on its Application)
\* fast_drain: a namespace has drained before the cache knows that it was
\*          deleted
TroubleKinds == {"edit", "again", "by_hand", "call", "restart", "resync",
                 "fast_drain"}

TeamKinds == {"Namespace", "RoleBinding", "ResourceQuota"}

ASSUME OwnershipAssumption ==
    /\ MaxTrouble \in Nat
    /\ MaxLate \in Nat
    /\ MaxLag \in Nat \ {0}
    /\ Troubles \subseteq TroubleKinds
    /\ FirstSpecs \subseteq Teams \X Resources
    /\ None \notin Claims \cup Teams

StepConds == {"NamespaceReady", "RBACReady", "QuotaApplied", "ArgoAppCreated"}
AllConds  == StepConds \cup {"Ready"}
Phases == {"", "Pending", "Ready"}

\* A condition, with the observedGeneration it carries; og is that of the status.
Condition == [status : {"Unset", "True", "False"}, gen : Nat]
ClaimStatus == [phase : Phases, og : Nat, conds : [AllConds -> Condition]]
NewStatus == [phase |-> "", og |-> 0,
              conds |-> [k \in AllConds |-> [status |-> "Unset", gen |-> 0]]]

\* A stored claim names a team.
ServiceClaim == {s \in [live : BOOLEAN, uid : Nat, gen : Nat,
                       team : Teams \cup {None},
                       res : Resources \cup {NilResources},
                       status : ClaimStatus] :
                   s.live => s.team \in Teams}
NoClaim(u) == [live |-> FALSE, uid |-> u, gen |-> 0, team |-> None,
               res |-> NilResources, status |-> NewStatus]

\* A controller reference names a claim and its incarnation.
Owner  == [name : Claims \cup {None}, uid : Nat]
Nobody == [name |-> None, uid |-> 0]

NoObject == [live |-> FALSE, del |-> FALSE, owner |-> Nobody, hard |-> NoHard]
TeamObject == [live : {TRUE}, del : BOOLEAN, owner : Owner,
               hard : {quotaHard(r) : r \in Resources} \cup {NoHard}]
              \cup {NoObject}

\* The Application of a claim; dest is the team it deploys for.
AppObject == [live : BOOLEAN, owner : Owner, dest : Teams \cup {None}]
NoApp == [live |-> FALSE, owner |-> Nobody, dest |-> None]

VARIABLES
    claimLog,  \* claimLog[c]: the versions of claim c, from cache to etcd
    objLog,    \* objLog[t][k]: the same for the object of kind k for team t
    app,       \* app[c]: the Application named c
    appEvents, \* the claims whose Application has a watch event under way
    queue,     \* the work queue
    w,         \* the only worker; w.copy is its copy of the claim
    trouble,   \* what has happened so far of what MaxTrouble bounds
    late       \* the same for MaxLate

ownershipVars == <<claimLog, objLog, app, appEvents, queue, w, trouble, late>>

Claim(c)  == Stored(claimLog[c])
Obj(t, k) == Stored(objLog[t][k])

HasRoom(log) == Len(log) <= MaxLag

Trouble(kind) ==
    /\ kind \in Troubles
    /\ trouble < MaxTrouble
    /\ trouble' = trouble + 1

Pcs == {"idle", "namespace", "rolebinding", "quota", "app", "status"}
Idle == [pc |-> "idle", key |-> None, copy |-> NoClaim(0), st |-> NewStatus,
         err |-> FALSE]

\* How far a cache may be behind.
Lengths == 1..(MaxLag + 1)

\* The variables keep their shape; the worker has a key, and a copy of a claim
\* that was there, while it is busy.
OwnershipTypeOK ==
    /\ claimLog \in [Claims -> Seq(ServiceClaim)]
    /\ \A c \in Claims : Len(claimLog[c]) \in Lengths
    /\ objLog \in [Teams -> [TeamKinds -> Seq(TeamObject)]]
    /\ \A t \in Teams, k \in TeamKinds : Len(objLog[t][k]) \in Lengths
    /\ app \in [Claims -> AppObject]
    /\ appEvents \subseteq Claims
    /\ queue \subseteq Claims
    /\ w \in [pc : Pcs, key : Claims \cup {None}, copy : ServiceClaim,
              st : ClaimStatus, err : BOOLEAN]
    /\ (w.pc = "idle") <=> (w.key = None)
    /\ w.pc # "idle" => w.copy.live
    /\ trouble \in 0..MaxTrouble
    /\ late \in 0..MaxLate

OwnershipInit ==
    /\ claimLog = [c \in Claims |-> <<NoClaim(0)>>]
    /\ objLog = [t \in Teams |-> [k \in TeamKinds |-> <<NoObject>>]]
    /\ app = [c \in Claims |-> NoApp]
    /\ appEvents = {}
    /\ queue = {}
    /\ w = Idle
    /\ trouble = 0
    /\ late = 0

-----------------------------------------------------------------------------
(* Writes to etcd, and the watches that bring them to the cache *)

\* The event of a write arrives with it, or it is held up; the events of one
\* object stay in order.
Held(log, held) == held \/ Len(log) > 1
NewLog(log, v, held) == IF Held(log, held) THEN Written(log, v) ELSE <<v>>
WokenAtOnce(log, v, held, who) ==
    IF Held(log, held) \/ v = Stored(log) THEN {} ELSE who

HoldUp(held) == IF held THEN late < MaxLate /\ late' = late + 1
                        ELSE late' = late

\* For(ServiceClaim): every change to a claim queues it.
PutClaim(c, v, retry) ==
    \E held \in {FALSE, v # Claim(c)} :
       /\ HasRoom(claimLog[c])
       /\ HoldUp(held)
       /\ claimLog' = [claimLog EXCEPT ![c] = NewLog(claimLog[c], v, held)]
       /\ queue' = queue \cup retry
                         \cup WokenAtOnce(claimLog[c], v, held, {c})

DeliverClaim(c) ==
    /\ Len(claimLog[c]) > 1
    /\ claimLog' = [claimLog EXCEPT ![c] = Tail(claimLog[c])]
    /\ queue' = queue \cup {c}
    /\ UNCHANGED <<objLog, app, appEvents, w, trouble, late>>

\* The Owns watches: a change to a team object queues the claim that the
\* controller reference names, before and after.
Wakes_Nobody(o, n) == {}
Wakes_Unowned(o, n) == {o.owner.name, n.owner.name}
Wakes(o, n) == {o.owner.name, n.owner.name} \ {None}

WokenByObject(log, n, held) == WokenAtOnce(log, n, held, Wakes(Stored(log), n))

PutObject(t, k, n) ==
    \E held \in {FALSE, n # Obj(t, k)} :
       /\ HasRoom(objLog[t][k])
       /\ HoldUp(held)
       /\ objLog' = [objLog EXCEPT ![t] =
                        [objLog[t] EXCEPT ![k] = NewLog(objLog[t][k], n, held)]]
       /\ queue' = queue \cup WokenByObject(objLog[t][k], n, held)

DeliverObject(t, k) ==
    LET log == objLog[t][k]
    IN
    /\ Len(log) > 1
    /\ objLog' = [objLog EXCEPT ![t] = [objLog[t] EXCEPT ![k] = Tail(log)]]
    /\ queue' = queue \cup Wakes(log[1], log[2])
    /\ UNCHANGED <<claimLog, app, appEvents, w, trouble, late>>

\* An Application has its claim's name, and only that claim ever owns it.
PutApp(c, v) ==
    /\ app' = [app EXCEPT ![c] = v]
    /\ \/ /\ v = app[c]
          /\ UNCHANGED <<appEvents, queue, late>>
       \/ /\ v # app[c]
          /\ HoldUp(FALSE)
          /\ queue' = queue \cup {c}
          /\ UNCHANGED appEvents
       \/ /\ v # app[c]
          /\ HoldUp(TRUE)
          /\ appEvents' = appEvents \cup {c}
          /\ UNCHANGED queue

DeliverApp(c) ==
    /\ c \in appEvents
    /\ appEvents' = appEvents \ {c}
    /\ queue' = queue \cup {c}
    /\ UNCHANGED <<claimLog, objLog, app, w, trouble, late>>

Resync(c) ==
    /\ Trouble("resync")
    /\ Cached(claimLog[c]).live
    /\ queue' = queue \cup {c}
    /\ UNCHANGED <<claimLog, objLog, app, appEvents, w, late>>

-----------------------------------------------------------------------------
(* Users *)

CreateServiceClaim(c, t, res) ==
    /\ ~Claim(c).live
    /\ IF Claim(c).uid = 0 THEN trouble' = trouble ELSE Trouble("again")
    /\ PutClaim(c, [NoClaim(Claim(c).uid + 1) EXCEPT
                        !.live = TRUE, !.gen = 1, !.team = t, !.res = res], {})
    /\ UNCHANGED <<objLog, app, appEvents, w>>

\* No rule of the schema makes spec.team immutable.
EditServiceClaim(c, t, res) ==
    /\ Claim(c).live
    /\ <<t, res>> # <<Claim(c).team, Claim(c).res>>
    /\ Trouble("edit")
    /\ PutClaim(c, [Claim(c) EXCEPT !.team = t, !.res = res,
                                    !.gen = Claim(c).gen + 1], {})
    /\ UNCHANGED <<objLog, app, appEvents, w>>

\* There is no finalizer: a deleted claim is gone.
DeleteServiceClaim(c) ==
    /\ Claim(c).live
    /\ PutClaim(c, NoClaim(Claim(c).uid), {})
    /\ UNCHANGED <<objLog, app, appEvents, w, trouble>>

-----------------------------------------------------------------------------
(* Owned objects *)

TeamNamespaceUsable(t) == Obj(t, "Namespace").live /\ ~Obj(t, "Namespace").del

\* Deleting a namespace only marks it.
Removal(k, o) == IF k = "Namespace" THEN [o EXCEPT !.del = TRUE] ELSE NoObject

DeleteObjectByHand(t, k) ==
    /\ Trouble("by_hand")
    /\ Obj(t, k).live /\ ~Obj(t, k).del
    /\ PutObject(t, k, Removal(k, Obj(t, k)))
    /\ UNCHANGED <<claimLog, app, appEvents, w>>

\* Garbage collection: the incarnation that the controller reference names is
\* not there any more.
Orphaned(owner) ==
    owner.name # None =>
       ~(Claim(owner.name).live /\ Claim(owner.name).uid = owner.uid)

CollectObject(t, k) ==
    /\ Obj(t, k).live /\ ~Obj(t, k).del
    /\ Orphaned(Obj(t, k).owner)
    /\ PutObject(t, k, Removal(k, Obj(t, k)))
    /\ UNCHANGED <<claimLog, app, appEvents, w, trouble>>

CollectApp(c) ==
    /\ app[c].live
    /\ Orphaned(app[c].owner)
    /\ PutApp(c, NoApp)
    /\ UNCHANGED <<claimLog, objLog, w, trouble>>

\* The namespace controller empties a terminating namespace and removes it.
\* That takes longer than the event of its deletion, unless the watch is slow.
FinishNamespace(t) ==
    /\ Obj(t, "Namespace").live /\ Obj(t, "Namespace").del
    /\ IF Len(objLog[t]["Namespace"]) = 1 THEN trouble' = trouble
                                          ELSE Trouble("fast_drain")
    /\ \A k \in TeamKinds : HasRoom(objLog[t][k])
    /\ \E held \in SUBSET {k \in TeamKinds : Obj(t, k).live} :
          /\ HoldUp(held # {})
          /\ objLog' = [objLog EXCEPT ![t] =
                [k \in TeamKinds |-> NewLog(objLog[t][k], NoObject, k \in held)]]
          /\ queue' = queue \cup
                UNION {WokenByObject(objLog[t][k], NoObject, k \in held) :
                          k \in TeamKinds}
    /\ UNCHANGED <<claimLog, app, appEvents, w>>

-----------------------------------------------------------------------------
(* Reconcile: one step per API call *)

\* fail: no effect, an error; lost: the effect, and an error all the same.
CallOutcomes == {"ok", "fail", "lost"}

Call(out) ==
    IF out = "ok" THEN trouble' = trouble ELSE Trouble("call")

\* The condition takes the generation of the reconcile's copy.
setCondition(st, gen, type, val) ==
    [st EXCEPT !.conds = [@ EXCEPT ![type] = [status |-> val, gen |-> gen]]]

\* The end of one ensure function: its condition, and on to the next; an error
\* ends the chain.
Proceed(ok, type, next) ==
    w' = [w EXCEPT !.pc = IF ok THEN next ELSE "status",
                   !.st = setCondition(w.st, w.copy.gen, type,
                                       IF ok THEN "True" ELSE "False"),
                   !.err = ~ok]

\* Get the claim from the cache; one that is gone is no error.
Reconcile(c) ==
    LET read == Cached(claimLog[c])
    IN
    /\ w.pc = "idle"
    /\ c \in queue
    /\ queue' = queue \ {c}
    /\ w' = IF read.live THEN [pc |-> "namespace", key |-> c, copy |-> read,
                               st |-> read.status, err |-> FALSE]
            ELSE w
    /\ UNCHANGED <<claimLog, objLog, app, appEvents, trouble, late>>

\* SetControllerReference: a controller reference to a claim of another name is
\* AlreadyOwnedError, whether or not that claim still exists; one to a claim of
\* the same name is replaced.
CanOwn_Any(o) == TRUE
CanOwn(o) == o.live => o.owner.name = w.key

Mutated(o, hard) == [o EXCEPT !.live = TRUE, !.hard = hard,
                        !.owner = [name |-> w.key, uid |-> w.copy.uid]]

\* CreateOrUpdate of a team object.  It gets the object from the cache.  Not
\* there: a create, which needs the name to be free and, inside a namespace, one
\* that is not terminating.  There: the mutate function may refuse; then an
\* update, which conflicts unless the cache has the stored version, or nothing
\* at all if there is no difference.
CreateOrUpdateTeamObject(out, k, hard, type, next) ==
    LET t == w.copy.team
        o == Cached(objLog[t][k])
        n == Mutated(o, hard)
        possible == IF o.live
                    THEN CanOwn(o) /\ (n = o \/ Len(objLog[t][k]) = 1)
                    ELSE ~Obj(t, k).live
                         /\ (k = "Namespace" \/ TeamNamespaceUsable(t))
    IN
    /\ Call(out)
    /\ IF possible /\ n # o /\ out # "fail" THEN PutObject(t, k, n)
                                          ELSE UNCHANGED <<objLog, queue, late>>
    /\ Proceed(possible /\ out = "ok", type, next)
    /\ UNCHANGED <<claimLog, app, appEvents>>

ensureNamespace(out) ==
    /\ w.pc = "namespace"
    /\ CreateOrUpdateTeamObject(out, "Namespace", NoHard, "NamespaceReady",
                                "rolebinding")

ensureRoleBinding(out) ==
    /\ w.pc = "rolebinding"
    /\ CreateOrUpdateTeamObject(out, "RoleBinding", NoHard, "RBACReady", "quota")

declaredHard(res) == quotaHard(res)

\* ensureQuota: without declared resources there is no call, and a quota that
\* an earlier spec asked for stays.
ensureQuota(out) ==
    /\ w.pc = "quota"
    /\ IF declaredHard(w.copy.res) = NoHard
       THEN /\ out = "ok"
            /\ Proceed(TRUE, "QuotaApplied", "app")
            /\ UNCHANGED <<claimLog, objLog, app, appEvents, queue, trouble, late>>
       ELSE CreateOrUpdateTeamObject(out, "ResourceQuota",
                declaredHard(w.copy.res), "QuotaApplied", "app")

\* The Application has the claim's own name, so its controller reference never
\* names another claim.
ensureArgoApplication(out) ==
    LET new == [live |-> TRUE, dest |-> w.copy.team,
                owner |-> [name |-> w.key, uid |-> w.copy.uid]]
    IN
    /\ w.pc = "app"
    /\ Call(out)
    /\ IF out = "fail" THEN UNCHANGED <<app, appEvents, queue, late>>
                       ELSE PutApp(w.key, new)
    /\ Proceed(out = "ok", "ArgoAppCreated", "status")
    /\ UNCHANGED <<claimLog, objLog>>

\* aggregateReady: a condition that an earlier reconcile set still counts.
aggregateReady(st, gen) ==
    LET ready == \A k \in StepConds : st.conds[k].status = "True"
        agg == [st EXCEPT !.og = gen,
                          !.phase = IF ready THEN "Ready" ELSE "Pending"]
    IN  setCondition(agg, gen, "Ready", IF ready THEN "True" ELSE "False")

\* Status().Patch with MergeFrom: a field is sent iff it differs from the copy,
\* the conditions as one list, to whatever claim has the name.
PatchedStatus(stored, base, new) ==
    [phase |-> IF new.phase # base.phase THEN new.phase ELSE stored.phase,
     og    |-> IF new.og # base.og THEN new.og ELSE stored.og,
     conds |-> IF new.conds # base.conds THEN new.conds ELSE stored.conds]

\* An error, of a step or of the patch, queues the claim again (with back-off).
Retry_Never(c, failed) == {}
Retry(c, failed) == IF failed THEN {c} ELSE {}

patchStatus(out) ==
    LET c == w.key
        old == Claim(c)
        new == [old EXCEPT !.status = PatchedStatus(old.status, w.copy.status,
                                        aggregateReady(w.st, w.copy.gen))]
        retry == Retry(c, w.err \/ out # "ok" \/ ~old.live)
    IN
    /\ w.pc = "status"
    /\ Call(out)
    /\ IF old.live /\ out # "fail"
       THEN PutClaim(c, new, retry)
       ELSE queue' = queue \cup retry /\ UNCHANGED <<claimLog, late>>
    /\ w' = Idle
    /\ UNCHANGED <<objLog, app, appEvents>>

ReconcileStep(out) ==
    \/ ensureNamespace(out) \/ ensureRoleBinding(out) \/ ensureQuota(out)
    \/ ensureArgoApplication(out) \/ patchStatus(out)

\* main starts again: the caches are filled, and every claim and every owner of
\* an object in them is queued.
RestartManager ==
    /\ Trouble("restart")
    /\ w' = Idle
    /\ claimLog' = [c \in Claims |-> <<Claim(c)>>]
    /\ objLog' = [t \in Teams |-> [k \in TeamKinds |-> <<Obj(t, k)>>]]
    /\ appEvents' = {}
    /\ queue' = {c \in Claims :
                   \/ Claim(c).live \/ app[c].live
                   \/ \E t \in Teams, k \in TeamKinds : Obj(t, k).owner.name = c}
    /\ UNCHANGED <<app, late>>

Deliver ==
    \/ \E c \in Claims : DeliverClaim(c) \/ DeliverApp(c)
    \/ \E t \in Teams, k \in TeamKinds : DeliverObject(t, k)

Collect ==
    \/ \E c \in Claims : CollectApp(c)
    \/ \E t \in Teams, k \in TeamKinds : CollectObject(t, k)

OwnershipNext ==
    \/ \E c \in Claims :
          \/ \E spec \in FirstSpecs : CreateServiceClaim(c, spec[1], spec[2])
          \/ \E t \in Teams, res \in Resources : EditServiceClaim(c, t, res)
          \/ DeleteServiceClaim(c) \/ Reconcile(c) \/ Resync(c)
    \/ \E t \in Teams, k \in TeamKinds : DeleteObjectByHand(t, k)
    \/ \E t \in Teams : FinishNamespace(t)
    \/ \E out \in CallOutcomes : ReconcileStep(out)
    \/ Deliver \/ Collect \/ RestartManager

OwnershipSpec == OwnershipInit /\ [][OwnershipNext]_ownershipVars

-----------------------------------------------------------------------------
(* Safety *)

\* Whatever is in a team's namespace belongs to the claim that owns the
\* namespace.  "The second claim stops at step 1, so it never reaches the quota.
\* That argument stands on reading the code, not on watching it"
\* (scenarios/ownership-conflict/README.md): two claims never fight over one
\* quota, while claims are deleted, created again and moved, objects are deleted
\* by hand, the namespace changes hands, and ensureNamespace decides on a cached
\* namespace.  It holds as long as no namespace drains before the cache has seen
\* its deletion ("fast_drain").
NamespaceHasOneOwner ==
    \A t \in Teams, k \in TeamKinds :
        Obj(t, k).live => /\ Obj(t, "Namespace").live
                          /\ Obj(t, k).owner.name = Obj(t, "Namespace").owner.name

\* Everything claim c asks for is there and is its own.
InPlace(c) ==
    LET t == Claim(c).team
        own == [name |-> c, uid |-> Claim(c).uid]
        hard == declaredHard(Claim(c).res)
    IN  /\ Claim(c).live
        /\ TeamNamespaceUsable(t)
        /\ \A k \in {"Namespace", "RoleBinding"} :
              Obj(t, k).live /\ Obj(t, k).owner = own
        /\ hard # NoHard => /\ Obj(t, "ResourceQuota").owner = own
                            /\ Obj(t, "ResourceQuota").hard = hard
        /\ app[c].live /\ app[c].owner = own /\ app[c].dest = t

ReadyForGeneration(s) == /\ s.status.og = s.gen
                         /\ s.status.phase = "Ready"
                         /\ s.status.conds["Ready"].status = "True"

\* An event of this object that will queue claim c is under way.
WillWake(c, log) ==
    \E i \in 1..(Len(log) - 1) : c \in Wakes(log[i], log[i + 1])

\* Claim c is not queued, and no event that would queue it is under way.
Quiet(c) ==
    /\ c \notin queue
    /\ Len(claimLog[c]) = 1
    /\ c \notin appEvents
    /\ \A t \in Teams, k \in TeamKinds : ~WillWake(c, objLog[t][k])

\* A claim that nobody is about to look at is Ready for its present spec and has
\* everything in place, or its namespace is still terminating.  So when the
\* namespace has gone to another claim of the team, the loser finds out: two
\* claims are never both Ready for good, and a refused claim is never given up.
\* CreateOrUpdate may compare with a cached object, write nothing and report
\* success for what is not stored; the event that will correct it is under way
\* then.
UnattendedMeansInPlace ==
    \A c \in Claims :
        Claim(c).live /\ Quiet(c) /\ w.key # c =>
           /\ ReadyForGeneration(Claim(c))
           /\ InPlace(c) \/ Obj(Claim(c).team, "Namespace").del

-----------------------------------------------------------------------------
(* Why those two hold: two inductive invariants *)

\* A cached namespace that is behind is behind within one life of the namespace:
\* all the versions between cache and etcd that are there have one owner's name,
\* and the namespace is gone at most at the end, after one that is there.
OneLife(log) ==
    /\ \A i, j \in 1..Len(log) :
          log[i].live /\ log[j].live => log[i].owner.name = log[j].owner.name
    /\ \A i \in 2..Len(log) : ~log[i].live => Len(log) = 2 /\ log[1].live

\* Past its first step a reconcile works in a namespace of its own claim, or the
\* namespace has gone and nothing can be created in it.
WorksInOwnNamespace ==
    w.pc \in {"rolebinding", "quota"} /\ ~w.err =>
        LET ns == Obj(w.copy.team, "Namespace")
        IN  ns.live => ns.owner.name = w.key

\* The inductive invariant behind NamespaceHasOneOwner: the cached namespace on
\* which ensureNamespace decides may be old, but its owner is still the owner.
OneOwnerInv ==
    /\ w.err => w.pc = "status"
    /\ \A t \in Teams : OneLife(objLog[t]["Namespace"])
    /\ NamespaceHasOneOwner
    /\ WorksInOwnNamespace

\* The objects of a reconcile that has passed the given step.
Passed == [namespace |-> {}, rolebinding |-> {"Namespace"},
           quota |-> {"Namespace", "RoleBinding"},
           app |-> {"Namespace", "RoleBinding", "ResourceQuota"},
           status |-> {"Namespace", "RoleBinding", "ResourceQuota"}]
StepCond == [Namespace |-> "NamespaceReady", RoleBinding |-> "RBACReady",
             ResourceQuota |-> "QuotaApplied"]

\* What claim copy s of name c asks for of kind k is there and its own.
ObjectInPlace(c, s, k) ==
    LET o == Obj(s.team, k)
        hard == declaredHard(s.res)
    IN  \/ k = "ResourceQuota" /\ hard = NoHard
        \/ /\ o.live /\ o.owner = [name |-> c, uid |-> s.uid]
           /\ k = "ResourceQuota" => o.hard = hard

AppInPlace(c, s) == app[c] = [live |-> TRUE, dest |-> s.team,
                              owner |-> [name |-> c, uid |-> s.uid]]

\* A step that is behind a reconcile has its condition.
PassedConditions ==
    w.pc # "idle" /\ ~w.err =>
        /\ \A k \in Passed[w.pc] : w.st.conds[StepCond[k]].status = "True"
        /\ w.pc = "status" => w.st.conds["ArgoAppCreated"].status = "True"

\* Unless its claim is to be looked at again, a reconcile works on the stored
\* claim, and what it has passed is in place; an error ends it.
ReconcileUpToDate ==
    /\ w.err => w.pc = "status"
    /\ w.pc # "idle" /\ Quiet(w.key) =>
        /\ Claim(w.key) = w.copy
        /\ ~w.err => /\ \A k \in Passed[w.pc] : ObjectInPlace(w.key, w.copy, k)
                     /\ w.pc = "status" => AppInPlace(w.key, w.copy)

\* A claim that nobody is about to look at is Ready and has everything in place,
\* except that its own namespace may be terminating; when that is gone its owner
\* is queued.
QuietInPlace ==
    \A c \in Claims :
        Claim(c).live /\ Quiet(c) /\ w.key # c =>
           /\ ReadyForGeneration(Claim(c))
           /\ \A k \in TeamKinds : ObjectInPlace(c, Claim(c), k)
           /\ AppInPlace(c, Claim(c))

\* The inductive invariant behind UnattendedMeansInPlace: an error queues the
\* claim again, and whatever a claim relied on wakes it when it changes, also
\* when the cache learns of that only later, so a reconcile or a status that
\* nothing will correct is still right.
OwnershipInv ==
    /\ PassedConditions
    /\ ReconcileUpToDate
    /\ QuietInPlace

-----------------------------------------------------------------------------
(* Liveness *)

\* Events arrive, a queued key gets its turn (back-off only delays it), a
\* reconcile goes on, garbage collection and the namespace controller do their
\* part.
OwnershipFairness ==
    /\ \A c \in Claims : /\ WF_ownershipVars(DeliverClaim(c))
                         /\ WF_ownershipVars(DeliverApp(c))
    /\ \A t \in Teams, k \in TeamKinds : WF_ownershipVars(DeliverObject(t, k))
    /\ \A c \in Claims : SF_ownershipVars(Reconcile(c))
    /\ WF_ownershipVars(ReconcileStep("ok"))
    /\ WF_ownershipVars(Collect)
    /\ \A t \in Teams : WF_ownershipVars(FinishNamespace(t))

OwnershipFairSpec == OwnershipSpec /\ OwnershipFairness

\* Claim c has its team to itself: no other claim is of that team, or holds the
\* namespace from a time when it was.
Uncontested(c) ==
    /\ Claim(c).live
    /\ \A d \in Claims \ {c} :
          Claim(d).live => /\ Claim(d).team # Claim(c).team
                           /\ Obj(Claim(c).team, "Namespace").owner.name # d

\* A claim that was refused the namespace gets it in the end: once it is left
\* without a competitor it becomes Ready, with everything in place, and stays
\* so.  No watch wakes a refused claim when the owner goes; the retries of
\* AlreadyOwnedError, garbage collection and the drain of the old namespace
\* together have to do it.
BlockedClaimTakesOver ==
    \A c \in Claims :
        <>[]Uncontested(c) =>
            <>[](InPlace(c) /\ Claim(c).status.conds["Ready"].status = "True")
=============================================================================
