-------------------------- MODULE OrderedTeardown ---------------------------
(***************************************************************************)
(* What the platform promises about teardown (ADR-012), without            *)
(* controllers, caches, queues or finalizers: a claim's service is stopped *)
(* before the claim goes, and a team's claims are gone before its          *)
(* namespace is.  TeardownRefinement shows that Platform implements this.  *)
(***************************************************************************)
EXTENDS TLAPS

CONSTANTS Teams, Claims, None

VARIABLES
    claim,    \* claim[c]: is ServiceClaim c there, and is it being deleted?
    team,     \* team[c]: the team it belongs to, None if it is not there
    tenant,   \* tenant[t]: the same for Tenant t
    service,  \* service[c]: the Application of claim c
    pods,     \* pods[c]: the team in whose namespace the service runs, or None
    ns        \* ns[t]: the namespace of team t

teardownVars == <<claim, team, tenant, service, pods, ns>>

LifePhases    == {"absent", "active", "leaving"}
ServicePhases == {"off", "deployed", "draining"}
NsPhases      == {"absent", "open", "closing"}

TeardownTypeOK ==
    /\ claim \in [Claims -> LifePhases]
    /\ team \in [Claims -> Teams \cup {None}]
    /\ tenant \in [Teams -> LifePhases]
    /\ service \in [Claims -> ServicePhases]
    /\ pods \in [Claims -> Teams \cup {None}]
    /\ ns \in [Teams -> NsPhases]

TeardownInit ==
    /\ claim = [c \in Claims |-> "absent"]
    /\ team = [c \in Claims |-> None]
    /\ tenant = [t \in Teams |-> "absent"]
    /\ service = [c \in Claims |-> "off"]
    /\ pods = [c \in Claims |-> None]
    /\ ns = [t \in Teams |-> "absent"]

-----------------------------------------------------------------------------
(* Users *)

\* A claim cannot join a team that is leaving.
Join(c, t) ==
    /\ claim[c] = "absent"
    /\ tenant[t] # "leaving"
    /\ claim' = [claim EXCEPT ![c] = "active"]
    /\ team' = [team EXCEPT ![c] = t]
    /\ UNCHANGED <<tenant, service, pods, ns>>

Leave(c) ==
    /\ claim[c] = "active"
    /\ claim' = [claim EXCEPT ![c] = "leaving"]
    /\ UNCHANGED <<team, tenant, service, pods, ns>>

CreateTeam(t) ==
    /\ tenant[t] = "absent"
    /\ tenant' = [tenant EXCEPT ![t] = "active"]
    /\ UNCHANGED <<claim, team, service, pods, ns>>

DeleteTeam(t) ==
    /\ tenant[t] = "active"
    /\ tenant' = [tenant EXCEPT ![t] = "leaving"]
    /\ UNCHANGED <<claim, team, service, pods, ns>>

-----------------------------------------------------------------------------
(* The platform *)

\* A service is deployed only for a claim that is there, ...
Deploy(c) ==
    /\ claim[c] # "absent"
    /\ service[c] = "off"
    /\ service' = [service EXCEPT ![c] = "deployed"]
    /\ UNCHANGED <<claim, team, tenant, pods, ns>>

\* ... runs in its team's namespace, ...
Run(c) ==
    /\ service[c] = "deployed"
    /\ pods[c] = None
    /\ ns[team[c]] = "open"
    /\ pods' = [pods EXCEPT ![c] = team[c]]
    /\ UNCHANGED <<claim, team, tenant, service, ns>>

\* ... is torn down only when its claim is deleted, ...
Drain(c) ==
    /\ claim[c] = "leaving"
    /\ service[c] = "deployed"
    /\ service' = [service EXCEPT ![c] = "draining"]
    /\ UNCHANGED <<claim, team, tenant, pods, ns>>

Stop(c) ==
    /\ service[c] = "draining"
    /\ service' = [service EXCEPT ![c] = "off"]
    /\ pods' = [pods EXCEPT ![c] = None]
    /\ UNCHANGED <<claim, team, tenant, ns>>

\* ... and the claim goes only after it.
Gone(c) ==
    /\ claim[c] # "absent"
    /\ service[c] = "off"
    /\ claim' = [claim EXCEPT ![c] = "absent"]
    /\ team' = [team EXCEPT ![c] = None]
    /\ UNCHANGED <<tenant, service, pods, ns>>

Open(t) ==
    /\ tenant[t] # "absent"
    /\ ns[t] = "absent"
    /\ ns' = [ns EXCEPT ![t] = "open"]
    /\ UNCHANGED <<claim, team, tenant, service, pods>>

\* A namespace is closed only for a Tenant that is being deleted and that no
\* claim belongs to any more, ...
Close(t) ==
    /\ tenant[t] = "leaving"
    /\ \A c \in Claims : team[c] # t
    /\ ns[t] = "open"
    /\ ns' = [ns EXCEPT ![t] = "closing"]
    /\ UNCHANGED <<claim, team, tenant, service, pods>>

Removed(t) ==
    /\ ns[t] = "closing"
    /\ ns' = [ns EXCEPT ![t] = "absent"]
    /\ UNCHANGED <<claim, team, tenant, service, pods>>

\* ... and the Tenant never goes before its namespace is closed.
TeamGone(t) ==
    /\ tenant[t] # "absent"
    /\ ns[t] # "open"
    /\ tenant' = [tenant EXCEPT ![t] = "absent"]
    /\ UNCHANGED <<claim, team, service, pods, ns>>

TeardownNext ==
    \/ \E c \in Claims : \/ \E t \in Teams : Join(c, t)
                         \/ Leave(c) \/ Deploy(c) \/ Run(c) \/ Drain(c)
                         \/ Stop(c) \/ Gone(c)
    \/ \E t \in Teams : \/ CreateTeam(t) \/ DeleteTeam(t) \/ Open(t)
                        \/ Close(t) \/ Removed(t) \/ TeamGone(t)

TeardownSpec == TeardownInit /\ [][TeardownNext]_teardownVars

-----------------------------------------------------------------------------
\* A service that runs belongs to a claim that is there, of the team it runs
\* for, and that team's namespace is open.
ServicesHoused ==
    \A c \in Claims : pods[c] # None =>
        /\ claim[c] # "absent" /\ team[c] = pods[c] /\ service[c] # "off"
        /\ ns[pods[c]] = "open"

\* Inductive: nothing is left over of a claim that is not there.
HousedInv ==
    /\ TeardownTypeOK
    /\ ServicesHoused
    /\ \A c \in Claims :
          claim[c] = "absent" => team[c] = None /\ service[c] = "off"

-----------------------------------------------------------------------------
LEMMA HousedInit == TeardownInit => HousedInv
  BY DEF TeardownInit, HousedInv, TeardownTypeOK, ServicesHoused, LifePhases,
     ServicePhases, NsPhases

LEMMA HousedStep == HousedInv /\ [TeardownNext]_teardownVars => HousedInv'
  <1> SUFFICES ASSUME HousedInv, [TeardownNext]_teardownVars PROVE HousedInv'
    OBVIOUS
  <1> USE DEF HousedInv, TeardownTypeOK, ServicesHoused, LifePhases,
          ServicePhases, NsPhases
  <1>1. ASSUME NEW c \in Claims, NEW t \in Teams, Join(c, t) PROVE HousedInv'
    BY <1>1 DEF Join
  <1>2. ASSUME NEW c \in Claims, Leave(c) PROVE HousedInv'
    BY <1>2 DEF Leave
  <1>3. ASSUME NEW c \in Claims, Deploy(c) PROVE HousedInv'
    BY <1>3 DEF Deploy
  <1>4. ASSUME NEW c \in Claims, Run(c) PROVE HousedInv'
    BY <1>4 DEF Run
  <1>5. ASSUME NEW c \in Claims, Drain(c) PROVE HousedInv'
    BY <1>5 DEF Drain
  <1>6. ASSUME NEW c \in Claims, Stop(c) PROVE HousedInv'
    BY <1>6 DEF Stop
  <1>7. ASSUME NEW c \in Claims, Gone(c) PROVE HousedInv'
    BY <1>7 DEF Gone
  <1>8. ASSUME NEW t \in Teams, CreateTeam(t) \/ DeleteTeam(t) \/ TeamGone(t)
        PROVE  HousedInv'
    BY <1>8 DEF CreateTeam, DeleteTeam, TeamGone
  <1>9. ASSUME NEW t \in Teams, Open(t) \/ Removed(t) PROVE HousedInv'
    BY <1>9 DEF Open, Removed
  <1>10. ASSUME NEW t \in Teams, Close(t) PROVE HousedInv'
    BY <1>10 DEF Close
  <1>11. CASE UNCHANGED teardownVars
    BY <1>11 DEF teardownVars
  <1> QED BY <1>1, <1>2, <1>3, <1>4, <1>5, <1>6, <1>7, <1>8, <1>9, <1>10, <1>11
     DEF TeardownNext

\* The promise is strong enough: whatever implements OrderedTeardown never runs
\* a service without its claim or outside an open namespace (ADR-012, "a
\* namespace is never removed out from under a running service").
THEOREM TeardownHouses == TeardownSpec => []ServicesHoused
  <1>1. HousedInv => ServicesHoused
    BY DEF HousedInv
  <1> QED BY <1>1, HousedInit, HousedStep, PTL DEF TeardownSpec
=============================================================================
