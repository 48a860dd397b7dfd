---------------------------- MODULE CeilingProofs ---------------------------
(***************************************************************************)
(* Proofs about CeilingRollout, for any teams, declarations, flags, any    *)
(* number of managers and any width of int32.                              *)
(***************************************************************************)
EXTENDS CeilingRollout, TLAPS

-----------------------------------------------------------------------------
(* The operators *)

\* A declaration asks for a natural number in each field, of pods at most what
\* an int32 holds.
LEMMA DeclaredType ==
    ASSUME NEW r \in Declarations
    PROVE  /\ Declared(r) \in [Fields -> Nat]
           /\ Declared(r)["pods"] \in Nat
           /\ Declared(r)["pods"] <= Int32Max
  <1>1. CASE r = NilResources
    BY <1>1, CeilingAssumption DEF Declared, ZeroResources, Fields, Int32Max
  <1>2. CASE r # NilResources
    BY <1>2, CeilingAssumption DEF Declared, Fields
  <1>. QED  BY <1>1, <1>2

LEMMA ZeroType == ZeroResources \in [Fields -> Nat]
  BY DEF ZeroResources

\* The conversion to int32 lowers a value that does not fit, or leaves the range
\* of positive values; it never makes a ceiling higher.
LEMMA Int32Lowers ==
    ASSUME NEW n \in Nat
    PROVE  int32(n) \in Int /\ int32(n) <= n /\ (int32(n) <= 0 => n = 0 \/ n > Int32Max)
  <1>. DEFINE m == n % Int32Range
  <1>1. m \in Nat /\ m <= n /\ (n <= Int32Max => m = n)
    BY CeilingAssumption DEF Int32Max
  <1>2. Int32Max \in Int /\ Int32Max < Int32Range
    BY CeilingAssumption DEF Int32Max
  <1>3. CASE m > Int32Max
    <2>1. int32(n) = m - Int32Range
      BY <1>3 DEF int32
    <2>. QED  BY <2>1, <1>1, <1>2, <1>3, CeilingAssumption
  <1>4. CASE ~(m > Int32Max)
    <2>1. int32(n) = m
      BY <1>4 DEF int32
    <2>. QED  BY <2>1, <1>1, <1>2, <1>4, CeilingAssumption
  <1>. QED  BY <1>3, <1>4

\* A field that a manager does not report as exceeded is within the flag that
\* the operator set, or that flag is zero.
LEMMA WithinFlag ==
    ASSUME NEW g \in FlagSettings, NEW r \in Declarations, NEW f \in Fields,
           f \notin Exceeded(tenantLimits(g), r)
    PROVE  g[f] = 0 \/ Declared(r)[f] <= g[f]
  <1>. DEFINE l == tenantLimits(g)
  <1>1. g \in [Fields -> Nat] /\ Declared(r) \in [Fields -> Nat]
    BY CeilingAssumption, DeclaredType
  <1>2. CASE r = NilResources
    BY <1>1, <1>2 DEF Declared, ZeroResources
  <1>3. CASE r # NilResources
    <2>1. Declared(r) = r /\ ~(Capped(l, f) /\ r[f] > l[f])
      BY <1>3 DEF Exceeded, Declared
    <2>2. CASE f # "pods"
      <3>1. l[f] = g[f]
        BY <2>2, <1>1 DEF tenantLimits
      <3>. QED  BY <3>1, <2>1, <2>2, <1>1 DEF Capped
    <2>3. CASE f = "pods"
      <3>1. l[f] = int32(g[f])
        BY <2>3, <1>1 DEF tenantLimits
      <3>2. g[f] \in Nat /\ r[f] \in Nat
        BY <1>1, <2>1
      <3>3. int32(g[f]) \in Int /\ int32(g[f]) <= g[f]
             /\ (int32(g[f]) <= 0 => g[f] = 0 \/ g[f] > Int32Max)
        BY <3>2, Int32Lowers
      <3>4. ~(int32(g[f]) > 0 /\ r[f] > int32(g[f]))
        BY <3>1, <2>1, <2>3 DEF Capped
      <3>5. r[f] <= Int32Max /\ Int32Max \in Int
        BY <2>1, <2>3, DeclaredType, CeilingAssumption DEF Int32Max
      <3>. QED  BY <3>2, <3>3, <3>4, <3>5, <2>1
    <2>. QED  BY <2>2, <2>3
  <1>. QED  BY <1>2, <1>3

\* A field that an accepted update leaves is no higher than before or within the
\* flag.
LEMMA NotWorse ==
    ASSUME NEW g \in FlagSettings, NEW old \in Declarations,
           NEW new \in Declarations, NEW f \in Fields,
           ValidateUpdate(g, old, new)
    PROVE  \/ Declared(new)[f] <= Declared(old)[f]
           \/ g[f] = 0 \/ Declared(new)[f] <= g[f]
  <1>1. CASE f \notin Exceeded(tenantLimits(g), new)
    BY <1>1, WithinFlag
  <1>2. CASE f \in Exceeded(tenantLimits(g), new)
    <2>1. ~(new[f] > Declared(old)[f])
      BY <1>2 DEF ValidateUpdate, Worsened, Declared
    <2>2. new # NilResources
      BY <1>2 DEF Exceeded
    <2>3. Declared(new) = new
      BY <2>2 DEF Declared
    <2>4. Declared(new)[f] \in Nat /\ Declared(old)[f] \in Nat
      BY DeclaredType
    <2>. QED  BY <2>1, <2>3, <2>4
  <1>. QED  BY <1>1, <1>2

\* An update that raises no field is accepted, whatever the flags.
LEMMA NoRaiseAccepted ==
    ASSUME NEW g, NEW old \in Declarations, NEW new \in Declarations,
           \A f \in Fields : Declared(new)[f] <= Declared(old)[f]
    PROVE  ValidateUpdate(g, old, new)
  <1>1. CASE new = NilResources
    BY <1>1 DEF ValidateUpdate, Worsened, Exceeded
  <1>2. CASE new # NilResources
    <2>1. Declared(new) = new
      BY <1>2 DEF Declared
    <2>2. \A f \in Fields : ~(new[f] > Declared(old)[f])
      BY <2>1, DeclaredType
    <2>. QED  BY <2>2 DEF ValidateUpdate, Worsened, Declared, Exceeded
  <1>. QED  BY <1>1, <1>2

-----------------------------------------------------------------------------
(* Types *)

\* The variables keep their shape, and a Tenant that is not there declares
\* nothing.
THEOREM CeilingTypeCorrect == CeilingSpec => []CeilingTypeOK
  <1>. USE DEF CeilingTypeOK, TenantPhases
  <1>1. CeilingInit => CeilingTypeOK
    BY CeilingAssumption, ZeroType DEF CeilingInit
  <1>2. ASSUME CeilingTypeOK, [CeilingNext]_ceilingVars
        PROVE  CeilingTypeOK'
    <2>1. ASSUME NEW g \in FlagSettings, StartServer(g) \/ StopServer(g)
          PROVE  CeilingTypeOK'
      <3>1. servers' \subseteq FlagSettings /\ UNCHANGED <<phase, res>>
        BY <1>2, <2>1 DEF StartServer, StopServer
      <3>2. least' \in [Teams -> [Fields -> Nat]]
        <4>1. least' = [t \in Teams |-> Declared(res[t])]
          BY <2>1 DEF StartServer, StopServer, ResetLeast
        <4>2. \A t \in Teams : Declared(res[t]) \in [Fields -> Nat]
          BY <1>2, DeclaredType
        <4>. QED  BY <4>1, <4>2
      <3>. QED  BY <1>2, <3>1, <3>2
    <2>2. ASSUME NEW t \in Teams, NEW g \in servers, NEW r \in Declarations,
                 CreateTenant(g, t, r)
          PROVE  CeilingTypeOK'
      BY <1>2, <2>2, ZeroType DEF CreateTenant
    <2>3. ASSUME NEW t \in Teams, NEW g \in servers, NEW r \in Declarations,
                 UpdateTenant(g, t, r)
          PROVE  CeilingTypeOK'
      <3>1. Lower(least[t], Declared(r)) \in [Fields -> Nat]
        <4>1. least[t] \in [Fields -> Nat] /\ Declared(r) \in [Fields -> Nat]
          BY <1>2, DeclaredType
        <4>. QED  BY <4>1 DEF Lower
      <3>. QED  BY <1>2, <2>3, <3>1 DEF UpdateTenant
    <2>4. ASSUME NEW t \in Teams, Vanish(t)
          PROVE  CeilingTypeOK'
      BY <1>2, <2>4, ZeroType, CeilingAssumption DEF Vanish
    <2>5. ASSUME NEW t \in Teams, DeleteTenant(t)
          PROVE  CeilingTypeOK'
      <3>1. CASE Vanish(t)
        BY <3>1, <2>4
      <3>2. CASE ~Vanish(t)
        BY <1>2, <2>5, <3>2 DEF DeleteTenant
      <3>. QED  BY <3>1, <3>2
    <2>6. ASSUME NEW t \in Teams, FinalizerWrites(t)
          PROVE  CeilingTypeOK'
      <3>1. CASE Vanish(t)
        BY <3>1, <2>4
      <3>2. CASE ~Vanish(t)
        BY <1>2, <2>6, <3>2
           DEF FinalizerWrites, ensureTenantFinalizer, releaseTenantFinalizer
      <3>. QED  BY <3>1, <3>2
    <2>7. CASE UNCHANGED ceilingVars
      BY <1>2, <2>7 DEF ceilingVars
    <2>. QED  BY <1>2, <2>1, <2>2, <2>3, <2>5, <2>6, <2>7 DEF CeilingNext
  <1>. QED  BY <1>1, <1>2, PTL DEF CeilingSpec

-----------------------------------------------------------------------------
(* The ratchet *)

\* As long as the same managers serve, a field of a Tenant above every ceiling
\* does not exceed the least it was in that time (Worsened, ValidateCreate,
\* ValidateUpdate, and main's conversion of the pods flag).  Flags are not
\* negative (CeilingAssumption).
THEOREM RatchetHolds == CeilingSpec => []CeilingRatchet
  <1>1. CeilingInit => CeilingRatchet
    BY DEF CeilingInit, CeilingRatchet, Declared, ZeroResources
  <1>2. ASSUME CeilingTypeOK, CeilingTypeOK', CeilingRatchet,
               [CeilingNext]_ceilingVars
        PROVE  CeilingRatchet'
    <2>. SUFFICES ASSUME NEW u \in Teams, NEW f \in Fields
         PROVE  \/ Declared(res'[u])[f] <= least'[u][f]
                \/ \E h \in servers' : h[f] = 0 \/ Declared(res'[u])[f] <= h[f]
      BY DEF CeilingRatchet, Declared
    <2>0. /\ Declared(res[u])[f] \in Nat /\ least[u][f] \in Nat
          /\ Declared(res'[u])[f] \in Nat /\ least'[u][f] \in Nat
          /\ res[u] \in Declarations /\ servers \subseteq FlagSettings
      BY <1>2, DeclaredType DEF CeilingTypeOK
    <2>1. ASSUME NEW g \in FlagSettings, StartServer(g) \/ StopServer(g)
          PROVE  Declared(res'[u])[f] <= least'[u][f]
      BY <2>0, <2>1 DEF StartServer, StopServer, ResetLeast
    <2>2. ASSUME NEW t \in Teams, NEW g \in servers, NEW r \in Declarations,
                 CreateTenant(g, t, r), t = u
          PROVE  g \in servers' /\ (g[f] = 0 \/ Declared(res'[u])[f] <= g[f])
      <3>1. g \in FlagSettings /\ f \notin Exceeded(tenantLimits(g), r)
        BY <2>0, <2>2 DEF CreateTenant, ValidateCreate
      <3>2. res'[u] = r /\ servers' = servers
        BY <1>2, <2>2 DEF CreateTenant, CeilingTypeOK
      <3>. QED  BY <3>1, <3>2, WithinFlag
    <2>3. ASSUME NEW t \in Teams, NEW g \in servers, NEW r \in Declarations,
                 UpdateTenant(g, t, r), t = u
          PROVE  \/ Declared(res'[u])[f] <= least'[u][f]
                 \/ \E h \in servers' : h[f] = 0 \/ Declared(res'[u])[f] <= h[f]
      <3>1. res'[u] = r /\ servers' = servers
            /\ least'[u] = Lower(least[u], Declared(r))
        BY <1>2, <2>3 DEF UpdateTenant, CeilingTypeOK
      <3>2. least'[u][f] = IF Declared(r)[f] < least[u][f]
                           THEN Declared(r)[f] ELSE least[u][f]
        BY <3>1 DEF Lower
      <3>3. \/ Declared(r)[f] <= Declared(res[u])[f]
            \/ g[f] = 0 \/ Declared(r)[f] <= g[f]
        BY <2>0, <2>3, NotWorse DEF UpdateTenant
      <3>4. CASE g[f] = 0 \/ Declared(r)[f] <= g[f]
        BY <3>1, <3>4
      <3>5. CASE Declared(r)[f] <= Declared(res[u])[f]
        <4>1. CASE Declared(res[u])[f] <= least[u][f]
          BY <2>0, <3>1, <3>2, <3>5, <4>1
        <4>2. CASE ~(Declared(res[u])[f] <= least[u][f])
          <5>1. PICK h \in servers : h[f] = 0 \/ Declared(res[u])[f] <= h[f]
            BY <1>2, <4>2 DEF CeilingRatchet
          <5>2. h[f] \in Nat
            BY <2>0, CeilingAssumption
          <5>. QED  BY <2>0, <3>1, <3>5, <5>1, <5>2
        <4>. QED  BY <4>1, <4>2
      <3>. QED  BY <3>3, <3>4, <3>5
    <2>4. ASSUME NEW t \in Teams, Vanish(t), t = u
          PROVE  Declared(res'[u])[f] <= least'[u][f]
      BY <1>2, <2>4 DEF Vanish, Declared, ZeroResources, CeilingTypeOK
    <2>5. CASE UNCHANGED <<res[u], least[u], servers>>
      BY <1>2, <2>5 DEF CeilingRatchet
    <2>6. ASSUME NEW t \in Teams, NEW g \in servers, NEW r \in Declarations,
                 CreateTenant(g, t, r) \/ UpdateTenant(g, t, r), t # u
          PROVE  UNCHANGED <<res[u], least[u], servers>>
      BY <1>2, <2>6 DEF CreateTenant, UpdateTenant, CeilingTypeOK
    <2>7. ASSUME NEW t \in Teams, Vanish(t), t # u
          PROVE  UNCHANGED <<res[u], least[u], servers>>
      BY <1>2, <2>7 DEF Vanish, CeilingTypeOK
    <2>8. ASSUME NEW t \in Teams, DeleteTenant(t) \/ FinalizerWrites(t),
                 ~Vanish(t)
          PROVE  UNCHANGED <<res[u], least[u], servers>>
      BY <2>8 DEF DeleteTenant, FinalizerWrites, ensureTenantFinalizer,
                  releaseTenantFinalizer
    <2>9. CASE UNCHANGED ceilingVars
      BY <2>5, <2>9 DEF ceilingVars
    <2>. QED
      BY <1>2, <2>1, <2>2, <2>3, <2>4, <2>5, <2>6, <2>7, <2>8, <2>9
         DEF CeilingNext
  <1>. QED  BY <1>1, <1>2, CeilingTypeCorrect, PTL DEF CeilingSpec

\* No Tenant is wedged: an update that raises no field is accepted by every
\* manager, whatever ceilings the Tenant has lived through (ValidateUpdate).
THEOREM NobodyWedged == CeilingSpec => []NeverWedged
  <1>1. CeilingTypeOK => NeverWedged
    BY NoRaiseAccepted DEF CeilingTypeOK, NeverWedged
  <1>. QED  BY <1>1, CeilingTypeCorrect, PTL
=============================================================================
