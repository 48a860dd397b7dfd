--------------------------- MODULE CeilingRollout ---------------------------
(***************************************************************************)
(* The ceiling over time.  It comes from the flags of the manager          *)
(* (cmd/main.go), so it changes only when a manager with other flags takes *)
(* over.  During such a rollout the old and the new manager both serve the *)
(* webhook (a webhook server does not wait for leader election), each with *)
(* its own ceiling, and the API server asks any one of them.  When none    *)
(* answers, failurePolicy=fail refuses the request.                        *)
(*                                                                         *)
(* The Tenant controller's own writes of the finalizer are updates of the  *)
(* Tenant and pass the same webhook; its status writes do not.             *)
(***************************************************************************)
EXTENDS Limits, FiniteSets

CONSTANTS
    Teams,
    Declarations,  \* what spec.resources may be, NilResources included
    FlagSettings,  \* the --max-tenant-* flags that managers are started with
    Int32Range,    \* 2^32, or a smaller even number that stands for it
    MaxServers     \* bound: managers that serve at the same time

Int32Max == Int32Range \div 2 - 1

\* The flags are not negative.  spec.resources.pods is an int32, and the schema
\* refuses negative quantities.
ASSUME CeilingAssumption ==
    /\ Int32Range \in Nat /\ Int32Range % 2 = 0 /\ Int32Range > 0
    /\ MaxServers \in Nat
    /\ FlagSettings \subseteq [Fields -> Nat]
    /\ NilResources \in Declarations
    /\ NilResources \notin [Fields -> Nat]
    /\ \A r \in Declarations \ {NilResources} :
          r \in [Fields -> Nat] /\ r["pods"] <= Int32Max

\* What a declaration asks for, field by field.
Declared(r) == IF r = NilResources THEN ZeroResources ELSE r

Lower(r, s) == [f \in Fields |-> IF s[f] < r[f] THEN s[f] ELSE r[f]]

\* Go's conversion of an int to int32.
int32(n) == LET m == n % Int32Range
            IN  IF m > Int32Max THEN m - Int32Range ELSE m

\* The Limits a manager builds from its flags.
tenantLimits(flags) == [flags EXCEPT !["pods"] = int32(flags["pods"])]

VARIABLES
    servers,  \* the flags of the managers that serve the webhook
    phase,    \* phase[t]: where Tenant t is in its life
    res,      \* res[t]: spec.resources of Tenant t
    least     \* least[t]: the least that Tenant t declared, field by field,
              \* since servers last changed; zero before it was created

ceilingVars == <<servers, phase, res, least>>

\* new: stored, without finalizer; leaving: deletion requested.
TenantPhases == {"absent", "new", "guarded", "leaving"}

CeilingInit ==
    /\ servers = {}
    /\ phase = [t \in Teams |-> "absent"]
    /\ res = [t \in Teams |-> NilResources]
    /\ least = [t \in Teams |-> ZeroResources]

-----------------------------------------------------------------------------
(* Managers *)

ResetLeast == least' = [t \in Teams |-> Declared(res[t])]

StartServer(g) ==
    /\ g \notin servers
    /\ Cardinality(servers) < MaxServers
    /\ servers' = servers \cup {g}
    /\ ResetLeast
    /\ UNCHANGED <<phase, res>>

StopServer(g) ==
    /\ g \in servers
    /\ servers' = servers \ {g}
    /\ ResetLeast
    /\ UNCHANGED <<phase, res>>

-----------------------------------------------------------------------------
(* Requests, each judged by server g *)

ValidateCreate(g, r) == Exceeded(tenantLimits(g), r) = {}

\* Over the ceiling but not worse is only a warning.
ValidateUpdate(g, old, new) == Worsened(tenantLimits(g), old, new) = {}

CreateTenant(g, t, r) ==
    /\ g \in servers
    /\ phase[t] = "absent"
    /\ ValidateCreate(g, r)
    /\ phase' = [phase EXCEPT ![t] = "new"]
    /\ res' = [res EXCEPT ![t] = r]
    /\ least' = [least EXCEPT ![t] = ZeroResources]
    /\ UNCHANGED servers

UpdateTenant(g, t, r) ==
    /\ g \in servers
    /\ phase[t] # "absent"
    /\ ValidateUpdate(g, res[t], r)
    /\ res' = [res EXCEPT ![t] = r]
    /\ least' = [least EXCEPT ![t] = Lower(least[t], Declared(r))]
    /\ UNCHANGED <<servers, phase>>

Vanish(t) ==
    /\ phase' = [phase EXCEPT ![t] = "absent"]
    /\ res' = [res EXCEPT ![t] = NilResources]
    /\ least' = [least EXCEPT ![t] = ZeroResources]
    /\ UNCHANGED servers

\* The webhook is not asked about deletions.
DeleteTenant(t) ==
    \/ phase[t] = "new" /\ Vanish(t)
    \/ /\ phase[t] = "guarded"
       /\ phase' = [phase EXCEPT ![t] = "leaving"]
       /\ UNCHANGED <<servers, res, least>>

\* ensureFinalizer: a patch of the Tenant that leaves the spec alone.
ensureTenantFinalizer(g, t) ==
    /\ g \in servers
    /\ phase[t] = "new"
    /\ ValidateUpdate(g, res[t], res[t])
    /\ phase' = [phase EXCEPT ![t] = "guarded"]
    /\ UNCHANGED <<servers, res, least>>

\* releaseFinalizer, at the end of the Tenant's teardown: such a patch too.
releaseTenantFinalizer(g, t) ==
    /\ g \in servers
    /\ phase[t] = "leaving"
    /\ ValidateUpdate(g, res[t], res[t])
    /\ Vanish(t)

FinalizerWrites(t) ==
    \E g \in servers : ensureTenantFinalizer(g, t) \/ releaseTenantFinalizer(g, t)

CeilingNext ==
    \/ \E g \in FlagSettings : StartServer(g) \/ StopServer(g)
    \/ \E t \in Teams :
          \/ \E g \in servers, r \in Declarations :
                CreateTenant(g, t, r) \/ UpdateTenant(g, t, r)
          \/ DeleteTenant(t)
          \/ FinalizerWrites(t)

CeilingSpec == CeilingInit /\ [][CeilingNext]_ceilingVars

-----------------------------------------------------------------------------
(* Safety *)

\* The variables keep their shape, and a Tenant that is not there declares
\* nothing.
CeilingTypeOK ==
    /\ servers \subseteq FlagSettings
    /\ phase \in [Teams -> TenantPhases]
    /\ res \in [Teams -> Declarations]
    /\ least \in [Teams -> [Fields -> Nat]]
    /\ \A t \in Teams : phase[t] = "absent" => res[t] = NilResources

\* The ceiling is a ratchet.  As long as the same managers serve, no sequence of
\* creates and updates, whichever of them answers each, brings a field of a
\* Tenant above the least it declared in that time, unless the flags of one of
\* them allow that much: an old violator may stay and shrink, never grow, and
\* does not get back what it gave up.  The flag is meant as the operator wrote
\* it, before main converts it to int32.
CeilingRatchet ==
    \A t \in Teams, f \in Fields :
        \/ Declared(res[t])[f] <= least[t][f]
        \/ \E g \in servers : g[f] = 0 \/ Declared(res[t])[f] <= g[f]

\* A Tenant is "never wedged un-editable" (ValidateUpdate, ADR-013): whichever
\* manager answers, and whatever the Tenant came to declare under earlier
\* ceilings, an update that raises no field is accepted.
NeverWedged ==
    \A t \in Teams, g \in servers, r \in Declarations :
        /\ phase[t] # "absent"
        /\ \A f \in Fields : Declared(r)[f] <= Declared(res[t])[f]
        => ValidateUpdate(g, res[t], r)

-----------------------------------------------------------------------------
(* Liveness *)

\* The Deployment starts a manager when there is none; the controller repeats a
\* refused finalizer write with back-off, so it meets a serving manager again
\* and again however often managers come and go.
CeilingFairness ==
    /\ WF_ceilingVars(servers = {} /\ \E g \in FlagSettings : StartServer(g))
    /\ \A t \in Teams : SF_ceilingVars(FinalizerWrites(t))

CeilingFairSpec == CeilingSpec /\ CeilingFairness

\* "Teardown must never depend on webhook logic" (ValidateDelete): although the
\* release of the finalizer is an update the webhook judges, a deleted Tenant
\* goes away, over the ceiling or not, through any sequence of rollouts.
CeilingNeverBlocksTeardown ==
    \A t \in Teams : phase[t] = "leaving" ~> phase[t] = "absent"
=============================================================================
