----------------------------- MODULE Admission ------------------------------
(***************************************************************************)
(* What users do to Tenants, ServiceClaims and the objects behind them,    *)
(* each request passing the validating webhooks                            *)
(* (internal/webhook/v1alpha1/*.go) first.  A webhook that rejects, or     *)
(* that fails (failurePolicy=fail), means the request has no effect, so a  *)
(* webhook is a conjunct of the request's guard.  Deletes pass through     *)
(* ValidateDelete, which accepts everything.                               *)
(***************************************************************************)
EXTENDS Cluster

NewTenant(u, res) == [AbsentTenant(u) EXCEPT !.live = TRUE, !.gen = 1,
                                             !.res = res]
NewClaim(u, t, img) == [AbsentClaim(u) EXCEPT !.live = TRUE, !.gen = 1,
                                              !.team = t, !.img = img]

-----------------------------------------------------------------------------
(* Tenants *)

\* TenantCustomValidator.ValidateCreate.
ValidateCreateTenant(res) == Exceeded(Ceiling, res) = {}

\* TenantCustomValidator.ValidateUpdate (its warning is not an effect).
ValidateUpdateTenant(old, new) == Worsened(Ceiling, old, new) = {}

CreateTenant(t, res) ==
    /\ Settled
    /\ ~Tenant(t).live
    /\ Tenant(t).uid < MaxTenantUid
    /\ ValidateCreateTenant(res)
    /\ PutTenant(t, NewTenant(Tenant(t).uid + 1, res))
    /\ UNCHANGED <<claimLog, childLog, argo, admitted, queues, workers>>

EditTenant(t, res) ==
    /\ Settled
    /\ "res_edit" \in Env
    /\ Tenant(t).live
    /\ Tenant(t).gen < MaxGen
    /\ res # Tenant(t).res
    /\ ValidateUpdateTenant(Tenant(t).res, res)
    /\ PutTenant(t, [Tenant(t) EXCEPT !.res = res, !.gen = @ + 1])
    /\ UNCHANGED <<claimLog, childLog, argo, admitted, queues, workers>>

DeleteTenant(t) ==
    /\ Settled
    /\ Tenant(t).live /\ ~Tenant(t).del
    /\ PutTenant(t, Deleted(Tenant(t), AbsentTenant(Tenant(t).uid)))
    /\ UNCHANGED <<claimLog, childLog, argo, admitted, queues, workers>>

-----------------------------------------------------------------------------
(* ServiceClaims *)

\* ServiceClaimCustomValidator.ValidateCreate: reads the Tenant live; a Tenant
\* that does not exist yet is no reason to reject.
ValidateCreateClaim(t) == ~(Tenant(t).live /\ Tenant(t).del)

\* The webhook's answer and the write to etcd as one step.
CreateClaim(c, t, img) ==
    /\ Settled
    /\ "race" \notin Env
    /\ ~Claim(c).live
    /\ Claim(c).uid < MaxClaimUid
    /\ ValidateCreateClaim(t)
    /\ PutClaim(c, NewClaim(Claim(c).uid + 1, t, img))
    /\ UNCHANGED <<tenantLog, childLog, argo, admitted, queues, workers>>

\* The same request as it really is: the API server asks the webhook ...
AdmitClaim(c, t, img) ==
    /\ Settled
    /\ "race" \in Env
    /\ ~Claim(c).live
    /\ Claim(c).uid < MaxClaimUid
    /\ admitted[c] = None
    /\ ValidateCreateClaim(t)
    /\ admitted' = [admitted EXCEPT ![c] = [team |-> t, img |-> img]]
    /\ UNCHANGED <<claimLog, tenantLog, childLog, argo, queues, workers>>

\* ... and stores the claim later.
PersistClaim(c) ==
    /\ Settled
    /\ admitted[c] # None
    /\ ~Claim(c).live
    /\ PutClaim(c, NewClaim(Claim(c).uid + 1, admitted[c].team,
                            admitted[c].img))
    /\ admitted' = [admitted EXCEPT ![c] = None]
    /\ UNCHANGED <<tenantLog, childLog, argo, queues, workers>>

\* ServiceClaimCustomValidator.ValidateUpdate accepts every edit (the webhook
\* is registered for creates only) and the schema only wants a non-empty team.
EditClaim(c, t, img) ==
    /\ Settled
    /\ Claim(c).live
    /\ Claim(c).gen < MaxGen
    /\ <<t, img>> # <<Claim(c).team, Claim(c).img>>
    /\ "team_edit" \in Env \/ t = Claim(c).team
    /\ "img_edit" \in Env \/ img = Claim(c).img
    /\ PutClaim(c, [Claim(c) EXCEPT !.team = t, !.img = img, !.gen = @ + 1])
    /\ UNCHANGED <<tenantLog, childLog, argo, admitted, queues, workers>>

DeleteClaim(c) ==
    /\ Settled
    /\ Claim(c).live /\ ~Claim(c).del
    /\ PutClaim(c, Deleted(Claim(c), AbsentClaim(Claim(c).uid)))
    /\ UNCHANGED <<tenantLog, childLog, argo, admitted, queues, workers>>

-----------------------------------------------------------------------------
(* Interference with the objects the controllers own *)

DeleteAppByHand(c) ==
    /\ Settled
    /\ "app_delete" \in Env
    /\ app[c].live /\ ~app[c].del
    /\ byHand < MaxByHand /\ byHand' = byHand + 1
    /\ PutApp(c, DeletedApp(app[c]))
    /\ UNCHANGED <<claimLog, tenantLog, childLog, workload, admitted, queues,
                   cw, tw, crashes>>

\* A namespace is marked and drained by its controller, the rest just goes.
DeleteChildByHand(t, k) ==
    /\ Settled
    /\ "drift" \in Env
    /\ Child(t, k).live /\ ~Child(t, k).del
    /\ byHand < MaxByHand /\ byHand' = byHand + 1
    /\ PutChild(t, k, IF k = "Namespace"
                      THEN [Child(t, k) EXCEPT !.del = TRUE] ELSE AbsentChild)
    /\ UNCHANGED <<claimLog, tenantLog, argo, admitted, queues, cw, tw, crashes>>

UserNext ==
    \/ \E t \in Teams :
          \/ \E res \in Resources : CreateTenant(t, res) \/ EditTenant(t, res)
          \/ DeleteTenant(t)
          \/ \E k \in Kinds : DeleteChildByHand(t, k)
    \/ \E c \in Claims :
          \/ \E t \in Teams, img \in Images :
                CreateClaim(c, t, img) \/ AdmitClaim(c, t, img)
                                       \/ EditClaim(c, t, img)
          \/ PersistClaim(c)
          \/ DeleteClaim(c)
          \/ DeleteAppByHand(c)
=============================================================================
