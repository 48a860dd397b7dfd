------------------------------- MODULE Limits -------------------------------
(***************************************************************************)
(* The platform ceiling on what one Tenant may request                     *)
(* (internal/platform/limits.go) and the mapping of a Tenant's declared    *)
(* resources to the hard limits of a ResourceQuota (quotaHard in           *)
(* internal/controller/tenant_controller.go).                              *)
(*                                                                         *)
(* A resource declaration is NilResources (the optional pointer is nil) or *)
(* a record [cpu, memory, pods]; an omitted field is 0, as in Go.          *)
(* Quantities are integers in the smallest unit, so Cmp is < on integers.  *)
(* A ceiling is a record of the same shape.                                *)
(***************************************************************************)
EXTENDS Integers

CONSTANT NilResources

Fields == {"cpu", "memory", "pods"}

ZeroResources == [f \in Fields |-> 0]

-----------------------------------------------------------------------------
\* Is there a ceiling on field f?  Quantities use !IsZero(), pods uses > 0.
Capped(l, f) == IF f = "pods" THEN l[f] > 0 ELSE l[f] # 0

\* Limits.Exceeded: the fields of res that are above the ceiling.
Exceeded(l, res) ==
    IF res = NilResources THEN {}
    ELSE {f \in Fields : Capped(l, f) /\ res[f] > l[f]}

\* Mutants: an update is judged like a create; a Tenant that is over the ceiling
\* is tolerated, whatever it raises.
Worsened_Strict(l, oldR, newR) == Exceeded(l, newR)
Worsened_TolerateViolator(l, oldR, newR) ==
    IF Exceeded(l, oldR) # {} THEN {} ELSE Exceeded(l, newR)

\* Limits.Worsened: the over-ceiling fields that newR raises above oldR.
Worsened(l, oldR, newR) ==
    LET prev == IF oldR = NilResources THEN ZeroResources ELSE oldR
    IN  {f \in Exceeded(l, newR) : newR[f] > prev[f]}

-----------------------------------------------------------------------------
QuotaKeys == {"requests.cpu", "requests.memory", "limits.memory", "pods"}

\* The declared field a hard limit is taken from: memory sets both keys.
QuotaField(k) == IF k = "requests.cpu" THEN "cpu"
                 ELSE IF k = "pods" THEN "pods" ELSE "memory"

NoHard == [k \in {} |-> 0]

\* quotaHard: only declared (non-zero, for pods positive) fields constrain.
quotaHard(res) ==
    IF res = NilResources THEN NoHard
    ELSE [k \in {q \in QuotaKeys : IF q = "pods" THEN res.pods > 0
                                   ELSE res[QuotaField(q)] # 0}
            |-> res[QuotaField(k)]]
=============================================================================
