------------------------- MODULE TeardownRefinement -------------------------
(***************************************************************************)
(* Platform implements OrderedTeardown: the refinement mapping forgets     *)
(* caches, queues, workers, statuses and finalizers and keeps what etcd    *)
(* says about each object.                                                 *)
(***************************************************************************)
EXTENDS Platform

LifePhase(o) == IF ~o.live THEN "absent" ELSE IF o.del THEN "leaving" ELSE "active"

ServicePhase(a) == IF ~a.live THEN "off" ELSE IF a.del THEN "draining" ELSE "deployed"

NsPhase(n) == IF ~n.live THEN "absent" ELSE IF n.del THEN "closing" ELSE "open"

\* What etcd says of each object, as OrderedTeardown sees it.
claimBar   == [c \in Claims |-> LifePhase(Claim(c))]
teamBar    == [c \in Claims |-> Claim(c).team]
tenantBar  == [t \in Teams |-> LifePhase(Tenant(t))]
serviceBar == [c \in Claims |-> ServicePhase(app[c])]
nsBar      == [t \in Teams |-> NsPhase(Child(t, "Namespace"))]

OT == INSTANCE OrderedTeardown WITH
    claim <- claimBar, team <- teamBar, tenant <- tenantBar,
    service <- serviceBar, pods <- workload, ns <- nsBar

\* Teardown is ordered (ADR-012), step by step: whatever the two controllers,
\* ArgoCD and the namespace controller do is a step of OrderedTeardown or
\* invisible to it.  No service is stopped that was not asked to stop, no claim
\* goes before its service, no namespace before its team's last claim, no
\* Tenant before its namespace.
TeardownIsOrdered == OT!TeardownSpec

-----------------------------------------------------------------------------
(* Why it holds, when claims keep their team and are listed without delay *)

\* An Application syncs into its claim's team and can be drained; of one that
\* is gone nothing is left.
ServicesPlaced ==
    \A c \in Claims :
        /\ app[c].live => app[c].cascade /\ app[c].dest = Claim(c).team
        /\ ~app[c].live => ~app[c].del

\* A namespace that is created again starts afresh, whatever version of the old
\* one the cache holds.
NamespacesFresh ==
    \A t \in Teams :
        LET log == childLog[t]["Namespace"]
        IN  \A i \in 1..Len(log) : log[i].live \/ ~log[i].del

\* The reconcile renders the Application for the team of the stored claim.
RenderedForTeam ==
    cw.pc \in {"gate", "app"} => cw.obj.team = Claim(cw.key).team

\* What the list of claims has shown still holds when the namespace is deleted:
\* a Tenant that was read as terminating admits no new claim, unless it is a
\* new incarnation, which has no finalizer while this reconcile is under way.
ListStillEmpty ==
    /\ tw.pc \in {"patchDrained", "deleteNamespace"}
    /\ Tenant(tw.key).live /\ Tenant(tw.key).fin
    => \A c \in Claims : Claim(c).team # tw.key

\* TeardownIsOrdered and DrainBeforeNamespace by induction, together with
\* AppGuardedInv and NamespaceGuardedInv.
TeardownInv ==
    /\ ServicesPlaced
    /\ NamespacesFresh
    /\ RenderedForTeam
    /\ ListStillEmpty
    /\ \A c \in Claims : admitted[c] = None
    /\ OT!HousedInv
=============================================================================
