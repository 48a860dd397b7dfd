--------------------------- MODULE OwnershipProofs --------------------------
(***************************************************************************)
(* Proofs about OwnershipConflict, for any teams, claims and resources, any *)
(* of the troubles, any number of them and any number of late events: the   *)
(* types, and that a claim which is wrongly Ready will be looked at.  For   *)
(* every trouble but "fast_drain": the one owner of a team's namespace.     *)
(***************************************************************************)
EXTENDS OwnershipConflict, SequenceTheorems, TLAPS

-----------------------------------------------------------------------------
(* Version logs *)

LEMMA LogEnds ==
    ASSUME NEW S, NEW log \in Seq(S), Len(log) \in Lengths
    PROVE  /\ Stored(log) \in S /\ Cached(log) \in S
           /\ Len(log) \in Nat /\ Len(log) >= 1
           /\ Len(log) = 1 => Stored(log) = Cached(log)
  BY OwnershipAssumption DEF Stored, Cached, Lengths

\* A cache that has just been filled.
LEMMA OneVersion ==
    ASSUME NEW S, NEW v \in S
    PROVE  <<v>> \in Seq(S) /\ Len(<<v>>) = 1 /\ 1 \in Lengths
           /\ <<v>>[1] = v /\ Stored(<<v>>) = v
  BY OwnershipAssumption DEF Stored, Lengths

\* A write that changes something is the last event under way, or, if it is not
\* held up, has reached the cache and the work queue.
LEMMA NewLogFacts ==
    ASSUME NEW S, NEW log \in Seq(S), Len(log) \in Lengths, HasRoom(log),
           NEW v \in S, NEW held \in BOOLEAN
    PROVE  LET new == NewLog(log, v, held)
           IN  /\ new \in Seq(S) /\ Len(new) \in Lengths
               /\ Stored(new) = v
               /\ \/ new = log /\ v = Stored(log)
                  \/ new = Append(log, v) /\ v # Stored(log)
                  \/ /\ new = <<v>> /\ v # Stored(log) /\ Len(log) = 1
                     /\ \A who : WokenAtOnce(log, v, held, who) = who
  <1>1. Len(log) \in Nat /\ Len(log) >= 1
    BY LogEnds
  <1>2. CASE Held(log, held) /\ v = Stored(log)
    BY <1>2 DEF NewLog, Written
  <1>3. CASE Held(log, held) /\ v # Stored(log)
    <2>1. NewLog(log, v, held) = Append(log, v)
      BY <1>3 DEF NewLog, Written
    <2>2. Append(log, v) \in Seq(S) /\ Len(Append(log, v)) = Len(log) + 1
          /\ Append(log, v)[Len(log) + 1] = v
      BY <1>1
    <2>3. Len(log) + 1 \in Lengths
      BY <1>1, OwnershipAssumption DEF HasRoom, Lengths
    <2>. QED  BY <1>3, <2>1, <2>2, <2>3 DEF Stored
  <1>4. CASE ~Held(log, held)
    <2>1. Len(log) = 1
      BY <1>1, <1>4 DEF Held
    <2>2. NewLog(log, v, held) = <<v>>
      BY <1>4 DEF NewLog
    <2>3. v = Stored(log) => <<v>> = log
      BY <2>1 DEF Stored
    <2>4. v # Stored(log) => \A who : WokenAtOnce(log, v, held, who) = who
      BY <1>4 DEF WokenAtOnce
    <2>. QED  BY <2>1, <2>2, <2>3, <2>4, OneVersion
  <1>. QED  BY <1>2, <1>3, <1>4

\* An event moves the cache on; what is stored stays.
LEMMA TailFacts ==
    ASSUME NEW S, NEW log \in Seq(S), Len(log) \in Lengths, Len(log) > 1
    PROVE  /\ Tail(log) \in Seq(S) /\ Len(Tail(log)) \in Lengths
           /\ Len(Tail(log)) = Len(log) - 1
           /\ Stored(Tail(log)) = Stored(log)
           /\ \A i \in 1..Len(Tail(log)) : Tail(log)[i] = log[i + 1]
  <1>1. log # <<>> /\ Len(log) \in Nat
    BY EmptySeq
  <1>2. /\ Tail(log) \in Seq(S)
        /\ Len(Tail(log)) = Len(log) - 1
        /\ \A i \in 1..Len(Tail(log)) : Tail(log)[i] = log[i + 1]
    BY <1>1, HeadTailProperties
  <1>3. Len(Tail(log)) \in Lengths
    BY <1>1, <1>2, OwnershipAssumption DEF Lengths
  <1>4. Tail(log)[Len(Tail(log))] = log[Len(log)]
    BY <1>1, <1>2
  <1>. QED  BY <1>2, <1>3, <1>4 DEF Stored

-----------------------------------------------------------------------------
(* Types of the values *)

Worker == [pc : Pcs, key : Claims \cup {None}, copy : ServiceClaim,
           st : ClaimStatus, err : BOOLEAN]

LEMMA NoneApart == None \notin Claims /\ None \notin Teams
  BY OwnershipAssumption

\* A fresh status, an absent claim, an absent object and an absent Application
\* have their types.
LEMMA NewStatusType == NewStatus \in ClaimStatus
  BY DEF NewStatus, ClaimStatus, Condition, Phases

LEMMA NoClaimType ==
    ASSUME NEW u \in Nat
    PROVE  NoClaim(u) \in ServiceClaim /\ NoClaim(u).live = FALSE
  BY NewStatusType DEF NoClaim, ServiceClaim

\* What a claim is made of.
LEMMA ClaimParts ==
    ASSUME NEW s \in ServiceClaim
    PROVE  /\ s.live \in BOOLEAN /\ s.uid \in Nat /\ s.gen \in Nat
           /\ s.res \in Resources \cup {NilResources}
           /\ s.team \in Teams \cup {None}
           /\ s.live => s.team \in Teams
           /\ s.status \in ClaimStatus
  BY DEF ServiceClaim

LEMMA NobodyType == Nobody \in Owner /\ Nobody.name = None
  BY DEF Nobody, Owner

LEMMA NoObjectType ==
    NoObject \in TeamObject /\ NoObject.live = FALSE
    /\ NoObject.owner.name = None
  BY NobodyType DEF NoObject, TeamObject

LEMMA ObjectParts ==
    ASSUME NEW o \in TeamObject
    PROVE  /\ o.live \in BOOLEAN /\ o.del \in BOOLEAN /\ o.owner \in Owner
           /\ o.owner.name \in Claims \cup {None}
           /\ o.live \/ o = NoObject
  <1>1. CASE o = NoObject
    BY <1>1, NobodyType DEF NoObject, Owner
  <1>2. CASE o # NoObject
    BY <1>2 DEF TeamObject, Owner
  <1>. QED  BY <1>1, <1>2

LEMMA NoAppType == NoApp \in AppObject
  BY NobodyType DEF NoApp, AppObject

LEMMA IdleType == Idle \in Worker /\ Idle.pc = "idle" /\ Idle.key = None
                  /\ Idle.err = FALSE
  BY NoClaimType, NewStatusType DEF Idle, Worker, Pcs

LEMMA SetConditionFacts ==
    ASSUME NEW st \in ClaimStatus, NEW gen \in Nat, NEW type \in AllConds,
           NEW val \in {"True", "False"}
    PROVE  LET new == setCondition(st, gen, type, val)
           IN  /\ new \in ClaimStatus
               /\ new.phase = st.phase /\ new.og = st.og
               /\ new.conds[type].status = val
               /\ \A x \in AllConds \ {type} : new.conds[x] = st.conds[x]
  <1>. DEFINE cond == [status |-> val, gen |-> gen]
  <1>1. cond \in Condition /\ cond.status = val
    BY DEF Condition
  <1>2. setCondition(st, gen, type, val)
           = [st EXCEPT !.conds = [st.conds EXCEPT ![type] = cond]]
    BY DEF setCondition
  <1>. HIDE DEF cond
  <1>. QED  BY <1>1, <1>2 DEF ClaimStatus

\* aggregateReady is Ready for the generation exactly if every step is True.
LEMMA AggregateReadyFacts ==
    ASSUME NEW st \in ClaimStatus, NEW g \in Nat
    PROVE  LET new == aggregateReady(st, g)
           IN  /\ new \in ClaimStatus
               /\ (\A k \in StepConds : st.conds[k].status = "True") =>
                     new.og = g /\ new.phase = "Ready"
                     /\ new.conds["Ready"].status = "True"
  <1>. DEFINE ready == \A k \in StepConds : st.conds[k].status = "True"
              agg == [st EXCEPT !.og = g,
                                !.phase = IF ready THEN "Ready" ELSE "Pending"]
              val == IF ready THEN "True" ELSE "False"
  <1>1. agg \in ClaimStatus /\ agg.og = g /\ (ready => agg.phase = "Ready")
    BY DEF ClaimStatus, Phases
  <1>2. aggregateReady(st, g) = setCondition(agg, g, "Ready", val)
    BY DEF aggregateReady
  <1>3. val \in {"True", "False"} /\ (ready => val = "True")
    OBVIOUS
  <1>4. "Ready" \in AllConds
    BY DEF AllConds
  <1>. HIDE DEF agg, val
  <1>. QED  BY <1>1, <1>2, <1>3, <1>4, SetConditionFacts

LEMMA PatchedStatusFacts ==
    ASSUME NEW stored \in ClaimStatus, NEW base \in ClaimStatus,
           NEW new \in ClaimStatus
    PROVE  /\ PatchedStatus(stored, base, new) \in ClaimStatus
           /\ PatchedStatus(base, base, new) = base => new = base
  BY DEF PatchedStatus, ClaimStatus

\* Declared limits come from declared resources.
LEMMA DeclaredHardType ==
    ASSUME NEW r \in Resources \cup {NilResources}, declaredHard(r) # NoHard
    PROVE  declaredHard(r) \in {quotaHard(x) : x \in Resources}
  BY DEF declaredHard, quotaHard

\* A deleted object has its type, and nobody new.
LEMMA RemovalFacts ==
    ASSUME NEW k \in TeamKinds, NEW o \in TeamObject, o.live
    PROVE  /\ Removal(k, o) \in TeamObject
           /\ k = "Namespace" => /\ Removal(k, o).live
                                 /\ Removal(k, o).owner = o.owner
           /\ k # "Namespace" => Removal(k, o) = NoObject
  <1>1. o \in [live : {TRUE}, del : BOOLEAN, owner : Owner,
               hard : {quotaHard(r) : r \in Resources} \cup {NoHard}]
    BY NoObjectType DEF TeamObject
  <1>. QED  BY <1>1, NoObjectType DEF Removal, TeamObject

-----------------------------------------------------------------------------
(* Watches *)

\* The watches queue claims only, and the owner before and after a change.
LEMMA WakesFacts ==
    ASSUME NEW o \in TeamObject, NEW n \in TeamObject
    PROVE  /\ Wakes(o, n) \subseteq Claims
           /\ \A c \in Claims : o.owner.name = c \/ n.owner.name = c
                                   => c \in Wakes(o, n)
  BY NoneApart, ObjectParts DEF Wakes

LEMMA WokenAtOnceFacts ==
    ASSUME NEW log, NEW v, NEW held, NEW who
    PROVE  WokenAtOnce(log, v, held, who) \subseteq who
  BY DEF WokenAtOnce

\* Nothing is under way to a cache that is up to date.
LEMMA WakeNone ==
    ASSUME NEW c, NEW log, Len(log) = 1
    PROVE  ~WillWake(c, log)
  BY DEF WillWake

\* A claim that owns what the cache shows will hear of every later version.
LEMMA WakeCached ==
    ASSUME NEW c \in Claims, NEW log \in Seq(TeamObject), Len(log) \in Lengths,
           Cached(log).owner.name = c, ~WillWake(c, log)
    PROVE  Len(log) = 1
  <1>1. Len(log) \in Nat /\ Len(log) >= 1
    BY LogEnds
  <1>2. CASE Len(log) > 1
    <2>1. log[1] \in TeamObject /\ log[2] \in TeamObject
          /\ 1 \in 1..(Len(log) - 1)
      BY <1>1, <1>2
    <2>2. c \in Wakes(log[1], log[2])
      BY <2>1, WakesFacts DEF Cached
    <2>. QED  BY <2>1, <2>2 DEF WillWake
  <1>3. CASE ~(Len(log) > 1)
    <2>1. \A m \in Nat : m >= 1 /\ ~(m > 1) => m = 1
      OBVIOUS
    <2>. QED  BY <1>1, <1>3, <2>1
  <1>. QED  BY <1>2, <1>3

\* After a write that no claim c will hear of, c was to hear of nothing before,
\* and the write does not concern it.
LEMMA WakeWritten ==
    ASSUME NEW c \in Claims, NEW log \in Seq(TeamObject), Len(log) \in Lengths,
           HasRoom(log), NEW n \in TeamObject, NEW held \in BOOLEAN,
           c \notin WokenByObject(log, n, held),
           ~WillWake(c, NewLog(log, n, held))
    PROVE  /\ ~WillWake(c, log)
           /\ \/ n = Stored(log)
              \/ Stored(log).owner.name # c /\ n.owner.name # c
  <1>. DEFINE new == NewLog(log, n, held)
  <1>1. Len(log) \in Nat /\ Len(log) >= 1 /\ Stored(log) \in TeamObject
    BY LogEnds
  <1>2. \/ new = log /\ n = Stored(log)
        \/ new = Append(log, n)
        \/ /\ Len(log) = 1
           /\ WokenAtOnce(log, n, held, Wakes(Stored(log), n))
                 = Wakes(Stored(log), n)
    BY NewLogFacts
  <1>3. CASE new = log /\ n = Stored(log)
    BY <1>3
  <1>4. CASE new = Append(log, n)
    <2>1. /\ Len(new) = Len(log) + 1
          /\ \A i \in 1..Len(log) : new[i] = log[i]
          /\ new[Len(log) + 1] = n
      BY <1>1, <1>4
    <2>. HIDE DEF new
    <2>2. \A i \in 1..(Len(log) - 1) : c \notin Wakes(log[i], log[i + 1])
      <3>. SUFFICES ASSUME NEW i \in 1..(Len(log) - 1)
                    PROVE  c \notin Wakes(log[i], log[i + 1])
        OBVIOUS
      <3>1. /\ i \in 1..Len(log) /\ i + 1 \in 1..Len(log)
            /\ i \in 1..(Len(new) - 1)
        BY <1>1, <2>1
      <3>2. c \notin Wakes(new[i], new[i + 1])
        BY <3>1 DEF WillWake, new
      <3>. QED  BY <2>1, <3>1, <3>2
    <2>3. c \notin Wakes(Stored(log), n)
      <3>1. /\ Len(log) \in 1..Len(log) /\ Len(log) \in 1..(Len(new) - 1)
        BY <1>1, <2>1
      <3>2. c \notin Wakes(new[Len(log)], new[Len(log) + 1])
        BY <3>1 DEF WillWake, new
      <3>. QED  BY <2>1, <3>1, <3>2 DEF Stored
    <2>. QED  BY <1>1, <2>2, <2>3, WakesFacts DEF WillWake
  <1>5. CASE /\ Len(log) = 1
             /\ WokenAtOnce(log, n, held, Wakes(Stored(log), n))
                   = Wakes(Stored(log), n)
    <2>1. c \notin Wakes(Stored(log), n)
      BY <1>5 DEF WokenByObject
    <2>. QED  BY <1>1, <1>5, <2>1, WakesFacts, WakeNone
  <1>. QED  BY <1>2, <1>3, <1>4, <1>5

\* The same for an event that arrives.
LEMMA WakeDelivered ==
    ASSUME NEW c \in Claims, NEW log \in Seq(TeamObject), Len(log) \in Lengths,
           Len(log) > 1, c \notin Wakes(log[1], log[2]),
           ~WillWake(c, Tail(log))
    PROVE  ~WillWake(c, log)
  <1>1. /\ Len(Tail(log)) = Len(log) - 1 /\ Len(log) \in Nat
        /\ \A i \in 1..Len(Tail(log)) : Tail(log)[i] = log[i + 1]
    BY TailFacts, LogEnds
  <1>. SUFFICES ASSUME NEW i \in 1..(Len(log) - 1)
                PROVE  c \notin Wakes(log[i], log[i + 1])
    BY DEF WillWake
  <1>2. CASE i = 1
    BY <1>2
  <1>3. CASE i > 1
    <2>1. i - 1 \in 1..(Len(Tail(log)) - 1)
      BY <1>1, <1>3
    <2>2. c \notin Wakes(Tail(log)[i - 1], Tail(log)[(i - 1) + 1])
      BY <2>1 DEF WillWake
    <2>3. Tail(log)[i - 1] = log[i] /\ Tail(log)[(i - 1) + 1] = log[i + 1]
      BY <1>1, <1>3
    <2>. QED  BY <2>2, <2>3
  <1>. QED  BY <1>2, <1>3

-----------------------------------------------------------------------------
(* A step tells the claims that it concerns *)

\* Claim c is queued, or will be by an event under way, unless the step leaves
\* it, its Application and its team objects as they were.
KeptClaim(c) ==
    c \notin queue' /\ Len(claimLog'[c]) = 1 => claimLog'[c] = claimLog[c]

KeptApp(c) ==
    c \notin queue' /\ c \notin appEvents' => c \notin appEvents /\ app'[c] = app[c]

KeptObject(c, t, k) ==
    c \notin queue' /\ ~WillWake(c, objLog'[t][k]) =>
        /\ ~WillWake(c, objLog[t][k])
        /\ \/ Obj(t, k)' = Obj(t, k)
           \/ Obj(t, k).owner.name # c /\ (Obj(t, k)').owner.name # c

Kept(c) ==
    /\ c \in queue => c \in queue'
    /\ KeptClaim(c) /\ KeptApp(c)
    /\ \A t \in Teams, k \in TeamKinds : KeptObject(c, t, k)

\* The parts that a step does not touch.
LEMMA SameClaims ==
    ASSUME claimLog' = claimLog, NEW c
    PROVE  KeptClaim(c) /\ Claim(c)' = Claim(c)
  BY DEF KeptClaim, Claim

LEMMA SameApps ==
    ASSUME app' = app, appEvents' = appEvents, NEW c
    PROVE  KeptApp(c)
  BY DEF KeptApp

LEMMA SameObjects ==
    ASSUME objLog' = objLog, NEW c, NEW t, NEW k
    PROVE  KeptObject(c, t, k) /\ Obj(t, k)' = Obj(t, k)
  BY DEF KeptObject, Obj

-----------------------------------------------------------------------------
(* Writes and deliveries *)

LEMMA ClaimFacts ==
    ASSUME OwnershipTypeOK, NEW c \in Claims
    PROVE  /\ claimLog[c] \in Seq(ServiceClaim) /\ Len(claimLog[c]) \in Lengths
           /\ Claim(c) \in ServiceClaim /\ Cached(claimLog[c]) \in ServiceClaim
           /\ Len(claimLog[c]) \in Nat /\ Len(claimLog[c]) >= 1
  <1>1. claimLog[c] \in Seq(ServiceClaim) /\ Len(claimLog[c]) \in Lengths
    BY DEF OwnershipTypeOK
  <1>. QED  BY <1>1, LogEnds DEF Claim

LEMMA ObjFacts ==
    ASSUME OwnershipTypeOK, NEW t \in Teams, NEW k \in TeamKinds
    PROVE  /\ objLog[t][k] \in Seq(TeamObject) /\ Len(objLog[t][k]) \in Lengths
           /\ Obj(t, k) \in TeamObject /\ Cached(objLog[t][k]) \in TeamObject
           /\ Len(objLog[t][k]) \in Nat /\ Len(objLog[t][k]) >= 1
  <1>1. objLog[t][k] \in Seq(TeamObject) /\ Len(objLog[t][k]) \in Lengths
    BY DEF OwnershipTypeOK
  <1>. QED  BY <1>1, LogEnds DEF Obj

ClaimLogs == {f \in [Claims -> Seq(ServiceClaim)] :
                \A c \in Claims : Len(f[c]) \in Lengths}
ObjLogs == {f \in [Teams -> [TeamKinds -> Seq(TeamObject)]] :
              \A t \in Teams, k \in TeamKinds : Len(f[t][k]) \in Lengths}

LEMMA HoldUpType ==
    ASSUME OwnershipTypeOK, NEW held \in BOOLEAN, HoldUp(held)
    PROVE  late' \in 0..MaxLate
  BY OwnershipAssumption DEF HoldUp, OwnershipTypeOK

\* A write of one claim.
LEMMA PutClaimFacts ==
    ASSUME OwnershipTypeOK, NEW c \in Claims, NEW v \in ServiceClaim,
           NEW retry \in SUBSET Claims, PutClaim(c, v, retry)
    PROVE  /\ claimLog' \in ClaimLogs
           /\ late' \in 0..MaxLate
           /\ Claim(c)' = v
           /\ queue' \subseteq Claims /\ queue \cup retry \subseteq queue'
           /\ \A d \in Claims : KeptClaim(d)
           /\ \A d \in Claims \ {c} : Claim(d)' = Claim(d)
  <1>1. PICK held \in BOOLEAN :
           /\ HasRoom(claimLog[c])
           /\ HoldUp(held)
           /\ claimLog' = [claimLog EXCEPT ![c] = NewLog(claimLog[c], v, held)]
           /\ queue' = queue \cup retry
                             \cup WokenAtOnce(claimLog[c], v, held, {c})
    BY DEF PutClaim
  <1>. DEFINE log == claimLog[c]
              new == NewLog(log, v, held)
  <1>2. /\ log \in Seq(ServiceClaim) /\ Len(log) \in Lengths
        /\ Len(log) \in Nat /\ Len(log) >= 1
    BY ClaimFacts
  <1>3. /\ new \in Seq(ServiceClaim) /\ Len(new) \in Lengths /\ Stored(new) = v
        /\ \/ new = log
           \/ new = Append(log, v)
           \/ WokenAtOnce(log, v, held, {c}) = {c}
    BY <1>1, <1>2, NewLogFacts
  <1>4. /\ claimLog \in [Claims -> Seq(ServiceClaim)]
        /\ \A d \in Claims : Len(claimLog[d]) \in Lengths
        /\ queue \subseteq Claims
    BY DEF OwnershipTypeOK
  <1>5. WokenAtOnce(log, v, held, {c}) \subseteq {c}
    BY WokenAtOnceFacts
  <1>6. new = Append(log, v) => Len(new) # 1
    BY <1>2
  <1>. HIDE DEF new
  <1>7. claimLog' = [claimLog EXCEPT ![c] = new]
    BY <1>1 DEF new
  <1>8. claimLog' \in ClaimLogs
    BY <1>3, <1>4, <1>7 DEF ClaimLogs
  <1>9. /\ claimLog'[c] = new
        /\ \A d \in Claims \ {c} : claimLog'[d] = claimLog[d]
    BY <1>4, <1>7
  <1>10. late' \in 0..MaxLate
    BY <1>1, HoldUpType
  <1>11. queue' \subseteq Claims /\ queue \cup retry \subseteq queue'
    BY <1>1, <1>4, <1>5
  <1>12. KeptClaim(c)
    BY <1>1, <1>3, <1>6, <1>9 DEF KeptClaim
  <1>13. \A d \in Claims : KeptClaim(d)
    BY <1>9, <1>12 DEF KeptClaim
  <1>. QED  BY <1>3, <1>8, <1>9, <1>10, <1>11, <1>13 DEF Claim

\* A write of one team object.
LEMMA PutObjectFacts ==
    ASSUME OwnershipTypeOK, NEW t \in Teams, NEW k \in TeamKinds,
           NEW n \in TeamObject, PutObject(t, k, n)
    PROVE  /\ objLog' \in ObjLogs
           /\ late' \in 0..MaxLate
           /\ Obj(t, k)' = n
           /\ queue' \subseteq Claims /\ queue \subseteq queue'
           /\ \A tt \in Teams, kk \in TeamKinds :
                 tt # t \/ kk # k => /\ objLog'[tt][kk] = objLog[tt][kk]
                                     /\ Obj(tt, kk)' = Obj(tt, kk)
           /\ \A c \in Claims, tt \in Teams, kk \in TeamKinds :
                 KeptObject(c, tt, kk)
           /\ \/ objLog'[t][k] = objLog[t][k] /\ n = Obj(t, k)
              \/ objLog'[t][k] = Append(objLog[t][k], n)
              \/ objLog'[t][k] = <<n>> /\ Len(objLog[t][k]) = 1
  <1>. DEFINE log == objLog[t][k]
  <1>1. PICK held \in BOOLEAN :
           /\ HasRoom(log)
           /\ HoldUp(held)
           /\ objLog' = [objLog EXCEPT ![t] =
                            [objLog[t] EXCEPT ![k] = NewLog(log, n, held)]]
           /\ queue' = queue \cup WokenByObject(log, n, held)
    BY DEF PutObject
  <1>. DEFINE new == NewLog(log, n, held)
  <1>2. /\ log \in Seq(TeamObject) /\ Len(log) \in Lengths
        /\ Obj(t, k) \in TeamObject
    BY ObjFacts
  <1>3. /\ new \in Seq(TeamObject) /\ Len(new) \in Lengths /\ Stored(new) = n
        /\ \/ new = log /\ n = Stored(log)
           \/ new = Append(log, n)
           \/ new = <<n>> /\ Len(log) = 1
    BY <1>1, <1>2, NewLogFacts
  <1>4. \A c \in Claims :
           c \notin queue' /\ ~WillWake(c, new) =>
              /\ ~WillWake(c, log)
              /\ \/ n = Stored(log)
                 \/ Stored(log).owner.name # c /\ n.owner.name # c
    BY <1>1, <1>2, WakeWritten
  <1>5. WokenByObject(log, n, held) \subseteq Claims
    BY <1>2, WokenAtOnceFacts, WakesFacts DEF WokenByObject, Obj
  <1>6. /\ objLog \in [Teams -> [TeamKinds -> Seq(TeamObject)]]
        /\ \A tt \in Teams, kk \in TeamKinds : Len(objLog[tt][kk]) \in Lengths
        /\ queue \subseteq Claims
    BY DEF OwnershipTypeOK
  <1>. HIDE DEF new
  <1>7. objLog' = [objLog EXCEPT ![t] = [objLog[t] EXCEPT ![k] = new]]
    BY <1>1 DEF new
  <1>8. /\ objLog' \in [Teams -> [TeamKinds -> Seq(TeamObject)]]
        /\ objLog'[t][k] = new
        /\ \A tt \in Teams, kk \in TeamKinds :
              tt # t \/ kk # k => objLog'[tt][kk] = objLog[tt][kk]
    BY <1>3, <1>6, <1>7
  <1>9. objLog' \in ObjLogs
    BY <1>3, <1>6, <1>8 DEF ObjLogs
  <1>10. late' \in 0..MaxLate
    BY <1>1, HoldUpType
  <1>11. queue' \subseteq Claims /\ queue \subseteq queue'
    BY <1>1, <1>5, <1>6
  <1>12. Obj(t, k)' = n
    BY <1>3, <1>8 DEF Obj
  <1>13. \A c \in Claims, tt \in Teams, kk \in TeamKinds : KeptObject(c, tt, kk)
    BY <1>4, <1>8, <1>12 DEF KeptObject, Obj
  <1>. QED
    BY <1>3, <1>8, <1>9, <1>10, <1>11, <1>12, <1>13 DEF Obj

\* A delivery of a claim's event.
LEMMA DeliverClaimFacts ==
    ASSUME OwnershipTypeOK, NEW c \in Claims, DeliverClaim(c)
    PROVE  /\ claimLog' \in ClaimLogs
           /\ queue' = queue \cup {c}
           /\ \A d \in Claims : KeptClaim(d)
  <1>. DEFINE new == Tail(claimLog[c])
  <1>1. /\ claimLog \in [Claims -> Seq(ServiceClaim)]
        /\ \A d \in Claims : Len(claimLog[d]) \in Lengths
    BY DEF OwnershipTypeOK
  <1>2. claimLog' = [claimLog EXCEPT ![c] = new] /\ queue' = queue \cup {c}
    BY DEF DeliverClaim
  <1>3. new \in Seq(ServiceClaim) /\ Len(new) \in Lengths
    BY <1>1, TailFacts DEF DeliverClaim
  <1>. HIDE DEF new
  <1>4. claimLog' \in ClaimLogs
        /\ \A d \in Claims \ {c} : claimLog'[d] = claimLog[d]
    BY <1>1, <1>2, <1>3 DEF ClaimLogs
  <1>. QED  BY <1>2, <1>4 DEF KeptClaim

\* A delivery of a team object's event: what is stored stays.
LEMMA DeliverObjectFacts ==
    ASSUME OwnershipTypeOK, NEW t \in Teams, NEW k \in TeamKinds,
           DeliverObject(t, k)
    PROVE  /\ objLog' \in ObjLogs
           /\ queue' \subseteq Claims /\ queue \subseteq queue'
           /\ \A tt \in Teams, kk \in TeamKinds :
                 /\ Obj(tt, kk)' = Obj(tt, kk)
                 /\ tt # t \/ kk # k => objLog'[tt][kk] = objLog[tt][kk]
           /\ objLog'[t][k] = Tail(objLog[t][k]) /\ Len(objLog[t][k]) > 1
           /\ \A c \in Claims, tt \in Teams, kk \in TeamKinds :
                 KeptObject(c, tt, kk)
  <1>. DEFINE log == objLog[t][k]
              new == Tail(log)
  <1>1. /\ objLog \in [Teams -> [TeamKinds -> Seq(TeamObject)]]
        /\ \A tt \in Teams, kk \in TeamKinds : Len(objLog[tt][kk]) \in Lengths
        /\ queue \subseteq Claims
    BY DEF OwnershipTypeOK
  <1>2. /\ objLog' = [objLog EXCEPT ![t] = [objLog[t] EXCEPT ![k] = new]]
        /\ queue' = queue \cup Wakes(log[1], log[2])
        /\ Len(log) > 1
    BY DEF DeliverObject
  <1>3. /\ log \in Seq(TeamObject) /\ Len(log) \in Lengths /\ Len(log) \in Nat
    BY ObjFacts
  <1>4. log[1] \in TeamObject /\ log[2] \in TeamObject
    BY <1>2, <1>3
  <1>5. Wakes(log[1], log[2]) \subseteq Claims
    BY <1>4, WakesFacts
  <1>6. new \in Seq(TeamObject) /\ Len(new) \in Lengths
        /\ Stored(new) = Stored(log)
    BY <1>2, <1>3, TailFacts
  <1>7. \A c \in Claims : c \notin queue' /\ ~WillWake(c, new)
                             => ~WillWake(c, log)
    BY <1>2, <1>3, WakeDelivered
  <1>. HIDE DEF new
  <1>8. /\ objLog' \in [Teams -> [TeamKinds -> Seq(TeamObject)]]
        /\ objLog'[t][k] = new
        /\ \A tt \in Teams, kk \in TeamKinds :
              tt # t \/ kk # k => objLog'[tt][kk] = objLog[tt][kk]
    BY <1>1, <1>2, <1>6
  <1>9. objLog' \in ObjLogs
    BY <1>1, <1>6, <1>8 DEF ObjLogs
  <1>10. \A tt \in Teams, kk \in TeamKinds : Obj(tt, kk)' = Obj(tt, kk)
    BY <1>6, <1>8 DEF Obj
  <1>11. \A c \in Claims, tt \in Teams, kk \in TeamKinds : KeptObject(c, tt, kk)
    BY <1>7, <1>8, <1>10 DEF KeptObject
  <1>. QED  BY <1>1, <1>2, <1>5, <1>8, <1>9, <1>10, <1>11 DEF new

\* The end of a namespace: it and what is in it are gone.
LEMMA FinishFacts ==
    ASSUME OwnershipTypeOK, NEW t \in Teams, FinishNamespace(t)
    PROVE  /\ objLog' \in ObjLogs
           /\ late' \in 0..MaxLate
           /\ queue' \subseteq Claims /\ queue \subseteq queue'
           /\ \A k \in TeamKinds : Obj(t, k)' = NoObject
           /\ \A tt \in Teams, kk \in TeamKinds :
                 tt # t => /\ objLog'[tt][kk] = objLog[tt][kk]
                           /\ Obj(tt, kk)' = Obj(tt, kk)
           /\ \A k \in TeamKinds :
                 \/ objLog'[t][k] = objLog[t][k] /\ NoObject = Obj(t, k)
                 \/ objLog'[t][k] = Append(objLog[t][k], NoObject)
                 \/ objLog'[t][k] = <<NoObject>> /\ Len(objLog[t][k]) = 1
           /\ \A c \in Claims, tt \in Teams, kk \in TeamKinds :
                 KeptObject(c, tt, kk)
  <1>1. PICK held \in SUBSET TeamKinds :
           /\ HoldUp(held # {})
           /\ objLog' = [objLog EXCEPT ![t] = [k \in TeamKinds |->
                            NewLog(objLog[t][k], NoObject, k \in held)]]
           /\ queue' = queue \cup
                 UNION {WokenByObject(objLog[t][k], NoObject, k \in held) :
                           k \in TeamKinds}
    BY DEF FinishNamespace
  <1>. DEFINE new(k) == NewLog(objLog[t][k], NoObject, k \in held)
  <1>2. /\ objLog \in [Teams -> [TeamKinds -> Seq(TeamObject)]]
        /\ \A tt \in Teams, kk \in TeamKinds : Len(objLog[tt][kk]) \in Lengths
        /\ queue \subseteq Claims
    BY DEF OwnershipTypeOK
  <1>3. ASSUME NEW k \in TeamKinds
        PROVE  /\ new(k) \in Seq(TeamObject) /\ Len(new(k)) \in Lengths
               /\ Stored(new(k)) = NoObject
               /\ \/ new(k) = objLog[t][k] /\ NoObject = Stored(objLog[t][k])
                  \/ new(k) = Append(objLog[t][k], NoObject)
                  \/ new(k) = <<NoObject>> /\ Len(objLog[t][k]) = 1
               /\ WokenByObject(objLog[t][k], NoObject, k \in held) \subseteq queue'
               /\ WokenByObject(objLog[t][k], NoObject, k \in held) \subseteq Claims
               /\ \A c \in Claims :
                     c \notin queue' /\ ~WillWake(c, new(k)) =>
                        /\ ~WillWake(c, objLog[t][k])
                        /\ \/ NoObject = Stored(objLog[t][k])
                           \/ Stored(objLog[t][k]).owner.name # c
    <2>1. /\ objLog[t][k] \in Seq(TeamObject) /\ Len(objLog[t][k]) \in Lengths
          /\ Stored(objLog[t][k]) \in TeamObject
      BY ObjFacts DEF Obj
    <2>2. HasRoom(objLog[t][k]) /\ (k \in held) \in BOOLEAN
      BY DEF FinishNamespace
    <2>3. /\ new(k) \in Seq(TeamObject) /\ Len(new(k)) \in Lengths
          /\ Stored(new(k)) = NoObject
          /\ \/ new(k) = objLog[t][k] /\ NoObject = Stored(objLog[t][k])
             \/ new(k) = Append(objLog[t][k], NoObject)
             \/ new(k) = <<NoObject>> /\ Len(objLog[t][k]) = 1
      <3>1. PICK h \in BOOLEAN : new(k) = NewLog(objLog[t][k], NoObject, h)
        BY <2>2
      <3>. HIDE DEF new
      <3>. QED  BY <2>1, <2>2, <3>1, NewLogFacts, NoObjectType
    <2>4. WokenByObject(objLog[t][k], NoObject, k \in held) \subseteq queue'
      BY <1>1
    <2>5. WokenByObject(objLog[t][k], NoObject, k \in held) \subseteq Claims
      BY <2>1, WokenAtOnceFacts, WakesFacts, NoObjectType DEF WokenByObject
    <2>6. \A c \in Claims :
             c \notin queue' /\ ~WillWake(c, new(k)) =>
                /\ ~WillWake(c, objLog[t][k])
                /\ \/ NoObject = Stored(objLog[t][k])
                   \/ Stored(objLog[t][k]).owner.name # c
      BY <2>1, <2>2, <2>4, WakeWritten, NoObjectType
    <2>. QED  BY <2>3, <2>4, <2>5, <2>6
  <1>. HIDE DEF new
  <1>4. objLog' = [objLog EXCEPT ![t] = [k \in TeamKinds |-> new(k)]]
    BY <1>1 DEF new
  <1>5. /\ objLog' \in [Teams -> [TeamKinds -> Seq(TeamObject)]]
        /\ \A k \in TeamKinds : objLog'[t][k] = new(k)
        /\ \A tt \in Teams, kk \in TeamKinds :
              tt # t => objLog'[tt][kk] = objLog[tt][kk]
    BY <1>2, <1>3, <1>4
  <1>6. objLog' \in ObjLogs
    BY <1>2, <1>3, <1>5 DEF ObjLogs
  <1>7. queue' \subseteq Claims /\ queue \subseteq queue'
    BY <1>1, <1>2, <1>3
  <1>8. late' \in 0..MaxLate
    BY <1>1, HoldUpType
  <1>9. /\ \A k \in TeamKinds : Obj(t, k)' = NoObject
        /\ \A tt \in Teams, kk \in TeamKinds :
              tt # t => Obj(tt, kk)' = Obj(tt, kk)
    BY <1>3, <1>5 DEF Obj
  <1>10. ASSUME NEW c \in Claims, NEW tt \in Teams, NEW kk \in TeamKinds
         PROVE  KeptObject(c, tt, kk)
    <2>1. CASE tt # t
      BY <1>5, <1>9, <2>1 DEF KeptObject
    <2>2. CASE tt = t
      BY <1>3, <1>5, <1>9, <2>2, NoObjectType, NoneApart DEF KeptObject, Obj
    <2>. QED  BY <2>1, <2>2
  <1>. QED  BY <1>3, <1>5, <1>6, <1>7, <1>8, <1>9, <1>10 DEF Obj

\* A write of an Application.
LEMMA PutAppFacts ==
    ASSUME OwnershipTypeOK, NEW c \in Claims, NEW v \in AppObject, PutApp(c, v)
    PROVE  /\ app' \in [Claims -> AppObject] /\ app'[c] = v
           /\ appEvents' \subseteq Claims
           /\ queue' \subseteq Claims /\ queue \subseteq queue'
           /\ late' \in 0..MaxLate
           /\ \A d \in Claims : KeptApp(d)
  <1>1. app \in [Claims -> AppObject] /\ appEvents \subseteq Claims
        /\ queue \subseteq Claims /\ late \in 0..MaxLate
    BY DEF OwnershipTypeOK
  <1>2. app' = [app EXCEPT ![c] = v]
    BY DEF PutApp
  <1>3. app' \in [Claims -> AppObject] /\ app'[c] = v
        /\ \A d \in Claims \ {c} : app'[d] = app[d]
    BY <1>1, <1>2
  <1>4. late' \in 0..MaxLate
    BY <1>1, HoldUpType DEF PutApp
  <1>5. /\ appEvents' \subseteq Claims /\ appEvents \subseteq appEvents'
        /\ queue' \subseteq Claims /\ queue \subseteq queue'
        /\ v = app[c] \/ c \in queue' \/ c \in appEvents'
    BY <1>1 DEF PutApp
  <1>6. \A d \in Claims : KeptApp(d)
    BY <1>3, <1>5 DEF KeptApp
  <1>. QED  BY <1>3, <1>4, <1>5, <1>6

-----------------------------------------------------------------------------
(* Steps by their effects *)

\* The types of everything but the worker, after a step.
RestTyped ==
    /\ claimLog' \in ClaimLogs
    /\ objLog' \in ObjLogs
    /\ app' \in [Claims -> AppObject]
    /\ appEvents' \subseteq Claims
    /\ queue' \subseteq Claims
    /\ trouble' \in 0..MaxTrouble
    /\ late' \in 0..MaxLate

AllKept == \A c \in Claims : Kept(c)

LEMMA TypeFacts ==
    ASSUME OwnershipTypeOK
    PROVE  /\ claimLog \in ClaimLogs
           /\ objLog \in ObjLogs
           /\ app \in [Claims -> AppObject]
           /\ appEvents \subseteq Claims
           /\ queue \subseteq Claims
           /\ trouble \in 0..MaxTrouble
           /\ late \in 0..MaxLate
           /\ w \in Worker
  BY DEF OwnershipTypeOK, ClaimLogs, ObjLogs, Worker

LEMMA TypeFromParts ==
    ASSUME RestTyped, w' \in Worker, (w'.pc = "idle") <=> (w'.key = None),
           w'.pc # "idle" => w'.copy.live
    PROVE  OwnershipTypeOK'
  BY DEF RestTyped, ClaimLogs, ObjLogs, OwnershipTypeOK, Worker

LEMMA TroubleType ==
    ASSUME OwnershipTypeOK, NEW kind, Trouble(kind)
    PROVE  trouble' \in 0..MaxTrouble
  BY OwnershipAssumption DEF Trouble, OwnershipTypeOK

LEMMA CallType ==
    ASSUME OwnershipTypeOK, NEW out, Call(out)
    PROVE  trouble' \in 0..MaxTrouble
  BY TroubleType DEF Call, OwnershipTypeOK

\* A step that only writes one claim, one object, one Application, or queues.
LEMMA ClaimStep ==
    ASSUME OwnershipTypeOK, NEW c \in Claims, NEW v \in ServiceClaim,
           NEW retry \in SUBSET Claims, PutClaim(c, v, retry),
           UNCHANGED <<objLog, app, appEvents>>, trouble' \in 0..MaxTrouble
    PROVE  RestTyped /\ AllKept
  <1>1. /\ claimLog' \in ClaimLogs /\ late' \in 0..MaxLate
        /\ queue' \subseteq Claims /\ queue \subseteq queue'
        /\ \A d \in Claims : KeptClaim(d)
    BY PutClaimFacts
  <1>2. RestTyped
    BY <1>1, TypeFacts DEF RestTyped
  <1>. QED  BY <1>1, <1>2, SameApps, SameObjects DEF AllKept, Kept

LEMMA ObjectStep ==
    ASSUME OwnershipTypeOK, NEW t \in Teams, NEW k \in TeamKinds,
           NEW n \in TeamObject, PutObject(t, k, n),
           UNCHANGED <<claimLog, app, appEvents>>, trouble' \in 0..MaxTrouble
    PROVE  RestTyped /\ AllKept
  <1>1. /\ objLog' \in ObjLogs /\ late' \in 0..MaxLate
        /\ queue' \subseteq Claims /\ queue \subseteq queue'
        /\ \A c \in Claims, tt \in Teams, kk \in TeamKinds :
              KeptObject(c, tt, kk)
    BY PutObjectFacts
  <1>2. RestTyped
    BY <1>1, TypeFacts DEF RestTyped
  <1>. QED  BY <1>1, <1>2, SameApps, SameClaims DEF AllKept, Kept

LEMMA AppStep ==
    ASSUME OwnershipTypeOK, NEW c \in Claims, NEW v \in AppObject, PutApp(c, v),
           UNCHANGED <<claimLog, objLog>>, trouble' \in 0..MaxTrouble
    PROVE  RestTyped /\ AllKept
  <1>1. /\ app' \in [Claims -> AppObject] /\ appEvents' \subseteq Claims
        /\ queue' \subseteq Claims /\ queue \subseteq queue'
        /\ late' \in 0..MaxLate
        /\ \A d \in Claims : KeptApp(d)
    BY PutAppFacts
  <1>2. RestTyped
    BY <1>1, TypeFacts DEF RestTyped
  <1>. QED  BY <1>1, <1>2, SameObjects, SameClaims DEF AllKept, Kept

LEMMA QueueStep ==
    ASSUME OwnershipTypeOK, queue \subseteq queue', queue' \subseteq Claims,
           UNCHANGED <<claimLog, objLog, app, appEvents, late>>,
           trouble' \in 0..MaxTrouble
    PROVE  RestTyped /\ AllKept
  <1>1. RestTyped
    BY TypeFacts DEF RestTyped
  <1>. QED  BY <1>1, SameApps, SameObjects, SameClaims DEF AllKept, Kept

\* The users' requests.
LEMMA RequestFacts ==
    ASSUME OwnershipTypeOK, NEW c \in Claims, NEW t \in Teams,
           NEW res \in Resources,
           CreateServiceClaim(c, t, res) \/ EditServiceClaim(c, t, res)
    PROVE  RestTyped /\ AllKept /\ w' = w /\ objLog' = objLog
  <1>1. /\ Claim(c) \in ServiceClaim /\ Claim(c).uid \in Nat
        /\ Claim(c).gen \in Nat
    BY ClaimFacts, ClaimParts
  <1>2. CASE CreateServiceClaim(c, t, res)
    <2>. DEFINE new == [NoClaim(Claim(c).uid + 1) EXCEPT
                          !.live = TRUE, !.gen = 1, !.team = t, !.res = res]
    <2>1. NoClaim(Claim(c).uid + 1) \in ServiceClaim
      <3>1. Claim(c).uid + 1 \in Nat
        BY <1>1
      <3>. QED  BY <3>1, NoClaimType
    <2>2. new \in ServiceClaim
      <3>1. \A o \in ServiceClaim :
               [o EXCEPT !.live = TRUE, !.gen = 1, !.team = t, !.res = res]
                  \in ServiceClaim
        BY DEF ServiceClaim
      <3>. QED  BY <2>1, <3>1
    <2>3. PutClaim(c, new, {}) /\ UNCHANGED <<objLog, app, appEvents, w>>
      BY <1>2 DEF CreateServiceClaim
    <2>4. trouble' \in 0..MaxTrouble
      <3>1. trouble' = trouble \/ Trouble("again")
        BY <1>2 DEF CreateServiceClaim
      <3>. QED  BY <3>1, TroubleType DEF OwnershipTypeOK
    <2>. HIDE DEF new
    <2>. QED  BY <2>2, <2>3, <2>4, ClaimStep
  <1>3. CASE EditServiceClaim(c, t, res)
    <2>. DEFINE new == [Claim(c) EXCEPT !.team = t, !.res = res,
                                        !.gen = Claim(c).gen + 1]
    <2>1. new \in ServiceClaim
      <3>1. \A o \in ServiceClaim, g \in Nat :
               [o EXCEPT !.team = t, !.res = res, !.gen = g] \in ServiceClaim
        BY DEF ServiceClaim
      <3>2. Claim(c).gen + 1 \in Nat
        BY <1>1
      <3>. QED  BY <1>1, <3>1, <3>2
    <2>2. PutClaim(c, new, {}) /\ UNCHANGED <<objLog, app, appEvents, w>>
          /\ Trouble("edit")
      BY <1>3 DEF EditServiceClaim
    <2>. HIDE DEF new
    <2>. QED  BY <2>1, <2>2, TroubleType, ClaimStep
  <1>. QED  BY <1>2, <1>3

LEMMA DeleteFacts ==
    ASSUME OwnershipTypeOK, NEW c \in Claims, DeleteServiceClaim(c)
    PROVE  RestTyped /\ AllKept /\ w' = w /\ objLog' = objLog
  <1>1. NoClaim(Claim(c).uid) \in ServiceClaim
    BY ClaimFacts, ClaimParts, NoClaimType
  <1>2. /\ PutClaim(c, NoClaim(Claim(c).uid), {})
        /\ UNCHANGED <<objLog, app, appEvents, w, trouble>>
    BY DEF DeleteServiceClaim
  <1>. QED  BY <1>1, <1>2, TypeFacts, ClaimStep

\* A deletion of an object by hand or by the garbage collector.
LEMMA RemovedFacts ==
    ASSUME OwnershipTypeOK, NEW t \in Teams, NEW k \in TeamKinds,
           DeleteObjectByHand(t, k) \/ CollectObject(t, k)
    PROVE  /\ Obj(t, k).live
           /\ Removal(k, Obj(t, k)) \in TeamObject
           /\ PutObject(t, k, Removal(k, Obj(t, k)))
           /\ RestTyped /\ AllKept /\ w' = w
  <1>1. Obj(t, k) \in TeamObject
    BY ObjFacts
  <1>2. /\ Obj(t, k).live /\ PutObject(t, k, Removal(k, Obj(t, k)))
        /\ UNCHANGED <<claimLog, app, appEvents, w>>
        /\ trouble' = trouble \/ Trouble("by_hand")
    BY DEF DeleteObjectByHand, CollectObject
  <1>3. trouble' \in 0..MaxTrouble
    BY <1>2, TroubleType DEF OwnershipTypeOK
  <1>. QED  BY <1>1, <1>2, <1>3, RemovalFacts, ObjectStep

LEMMA FinishStep ==
    ASSUME OwnershipTypeOK, NEW t \in Teams, FinishNamespace(t)
    PROVE  RestTyped /\ AllKept /\ w' = w
  <1>1. /\ objLog' \in ObjLogs /\ late' \in 0..MaxLate
        /\ queue' \subseteq Claims /\ queue \subseteq queue'
        /\ \A c \in Claims, tt \in Teams, kk \in TeamKinds :
              KeptObject(c, tt, kk)
    BY FinishFacts
  <1>2. UNCHANGED <<claimLog, app, appEvents, w>>
        /\ (trouble' = trouble \/ Trouble("fast_drain"))
    BY DEF FinishNamespace
  <1>3. trouble' \in 0..MaxTrouble
    BY <1>2, TroubleType DEF OwnershipTypeOK
  <1>4. RestTyped
    BY <1>1, <1>2, <1>3, TypeFacts DEF RestTyped
  <1>. QED  BY <1>1, <1>2, <1>4, SameApps, SameClaims DEF AllKept, Kept

\* Deliveries, resyncs and the collection of an Application.
LEMMA DeliverStep ==
    ASSUME OwnershipTypeOK, Deliver
    PROVE  RestTyped /\ AllKept /\ w' = w
  <1>1. ASSUME NEW c \in Claims, DeliverClaim(c)
        PROVE  RestTyped /\ AllKept /\ w' = w
    <2>1. UNCHANGED <<objLog, app, appEvents, w, trouble, late>>
      BY <1>1 DEF DeliverClaim
    <2>2. claimLog' \in ClaimLogs /\ queue' = queue \cup {c}
          /\ \A d \in Claims : KeptClaim(d)
      BY <1>1, DeliverClaimFacts
    <2>3. RestTyped
      BY <2>1, <2>2, TypeFacts DEF RestTyped
    <2>. QED  BY <2>1, <2>2, <2>3, SameApps, SameObjects DEF AllKept, Kept
  <1>2. ASSUME NEW c \in Claims, DeliverApp(c)
        PROVE  RestTyped /\ AllKept /\ w' = w
    <2>1. /\ UNCHANGED <<claimLog, objLog, app, w, trouble, late>>
          /\ queue' = queue \cup {c} /\ appEvents' = appEvents \ {c}
      BY <1>2 DEF DeliverApp
    <2>2. RestTyped
      BY <2>1, TypeFacts DEF RestTyped
    <2>3. \A d \in Claims : KeptApp(d)
      BY <2>1 DEF KeptApp
    <2>. QED  BY <2>1, <2>2, <2>3, SameClaims, SameObjects DEF AllKept, Kept
  <1>3. ASSUME NEW t \in Teams, NEW k \in TeamKinds, DeliverObject(t, k)
        PROVE  RestTyped /\ AllKept /\ w' = w
    <2>1. UNCHANGED <<claimLog, app, appEvents, w, trouble, late>>
      BY <1>3 DEF DeliverObject
    <2>2. /\ objLog' \in ObjLogs
          /\ queue' \subseteq Claims /\ queue \subseteq queue'
          /\ \A c \in Claims, tt \in Teams, kk \in TeamKinds :
                KeptObject(c, tt, kk)
      BY <1>3, DeliverObjectFacts
    <2>3. RestTyped
      BY <2>1, <2>2, TypeFacts DEF RestTyped
    <2>. QED  BY <2>1, <2>2, <2>3, SameApps, SameClaims DEF AllKept, Kept
  <1>. QED  BY <1>1, <1>2, <1>3 DEF Deliver

LEMMA ResyncStep ==
    ASSUME OwnershipTypeOK, NEW c \in Claims, Resync(c)
    PROVE  RestTyped /\ AllKept /\ w' = w /\ objLog' = objLog
  <1>1. /\ UNCHANGED <<claimLog, objLog, app, appEvents, w, late>>
        /\ queue' = queue \cup {c} /\ Trouble("resync")
    BY DEF Resync
  <1>. QED  BY <1>1, TypeFacts, TroubleType, QueueStep

LEMMA CollectAppStep ==
    ASSUME OwnershipTypeOK, NEW c \in Claims, CollectApp(c)
    PROVE  RestTyped /\ AllKept /\ w' = w /\ objLog' = objLog
  <1>1. PutApp(c, NoApp) /\ UNCHANGED <<claimLog, objLog, w, trouble>>
    BY DEF CollectApp
  <1>. QED  BY <1>1, TypeFacts, NoAppType, AppStep

\* What happens outside the reconciler.
Outside ==
    \/ \E c \in Claims :
          \/ \E t \in Teams, res \in Resources :
                CreateServiceClaim(c, t, res) \/ EditServiceClaim(c, t, res)
          \/ DeleteServiceClaim(c) \/ Resync(c) \/ CollectApp(c)
    \/ \E t \in Teams, k \in TeamKinds :
          DeleteObjectByHand(t, k) \/ CollectObject(t, k)
    \/ \E t \in Teams : FinishNamespace(t)
    \/ Deliver

LEMMA NextCases ==
    ASSUME [OwnershipNext]_ownershipVars
    PROVE  \/ UNCHANGED ownershipVars
           \/ Outside
           \/ \E c \in Claims : Reconcile(c)
           \/ \E out : ReconcileStep(out)
           \/ RestartManager
  <1>1. ASSUME NEW c \in Claims, NEW spec \in FirstSpecs,
               CreateServiceClaim(c, spec[1], spec[2])
        PROVE  Outside
    <2>1. spec[1] \in Teams /\ spec[2] \in Resources
      BY OwnershipAssumption
    <2>. QED  BY <1>1, <2>1 DEF Outside
  <1>2. CASE OwnershipNext
    BY <1>1, <1>2 DEF OwnershipNext, Outside, Collect
  <1>. QED  BY <1>2

LEMMA OutsideFacts ==
    ASSUME OwnershipTypeOK, Outside
    PROVE  RestTyped /\ AllKept /\ w' = w
  BY RequestFacts, DeleteFacts, ResyncStep, CollectAppStep, RemovedFacts,
     FinishStep, DeliverStep DEF Outside

-----------------------------------------------------------------------------
(* The reconciler by its effects *)

\* The busy worker has a claim's name for its key, and a team.
LEMMA WorkerFacts ==
    ASSUME OwnershipTypeOK
    PROVE  /\ w \in Worker /\ w.copy \in ServiceClaim
           /\ w.pc # "idle" => w.key \in Claims /\ w.copy.team \in Teams
           /\ w.pc = "idle" => w.key \notin Claims
           /\ w.copy.uid \in Nat /\ w.copy.gen \in Nat
           /\ w.copy.res \in Resources \cup {NilResources}
           /\ w.copy.status \in ClaimStatus /\ w.st \in ClaimStatus
           /\ w.err \in BOOLEAN /\ w.pc \in Pcs
  <1>1. w \in Worker /\ ((w.pc = "idle") <=> (w.key = None))
        /\ (w.pc # "idle" => w.copy.live)
    BY DEF OwnershipTypeOK, Worker
  <1>2. w.copy \in ServiceClaim /\ w.key \in Claims \cup {None}
        /\ w.st \in ClaimStatus /\ w.err \in BOOLEAN /\ w.pc \in Pcs
    BY <1>1 DEF Worker
  <1>. QED  BY <1>1, <1>2, ClaimParts, NoneApart

\* The worker after a step of a reconcile.
LEMMA ProceedFacts ==
    ASSUME OwnershipTypeOK, w.pc # "idle", NEW ok \in BOOLEAN,
           NEW type \in AllConds, NEW next \in Pcs \ {"idle"},
           Proceed(ok, type, next)
    PROVE  /\ w' \in Worker
           /\ w'.pc # "idle" /\ w'.key # None /\ w'.copy.live
           /\ w'.key = w.key /\ w'.copy = w.copy
           /\ w'.pc = IF ok THEN next ELSE "status"
           /\ w'.err = ~ok
           /\ ok => w'.st.conds[type].status = "True"
           /\ \A x \in AllConds \ {type} : w'.st.conds[x] = w.st.conds[x]
  <1>. DEFINE val == IF ok THEN "True" ELSE "False"
              st2 == setCondition(w.st, w.copy.gen, type, val)
  <1>1. w \in Worker /\ w.key # None /\ w.copy.live
    BY DEF OwnershipTypeOK, Worker
  <1>2. val \in {"True", "False"} /\ (ok => val = "True")
    OBVIOUS
  <1>. HIDE DEF val
  <1>3. /\ st2 \in ClaimStatus
        /\ ok => st2.conds[type].status = "True"
        /\ \A x \in AllConds \ {type} : st2.conds[x] = w.st.conds[x]
    <2>1. w.st \in ClaimStatus /\ w.copy.gen \in Nat
      BY WorkerFacts
    <2>2. /\ st2 \in ClaimStatus
          /\ st2.conds[type].status = val
          /\ \A x \in AllConds \ {type} : st2.conds[x] = w.st.conds[x]
      <3>1. \A st \in ClaimStatus, g \in Nat, v \in {"True", "False"} :
               /\ setCondition(st, g, type, v) \in ClaimStatus
               /\ setCondition(st, g, type, v).conds[type].status = v
               /\ \A x \in AllConds \ {type} :
                     setCondition(st, g, type, v).conds[x] = st.conds[x]
        BY SetConditionFacts
      <3>. QED  BY <1>2, <2>1, <3>1, Zenon
    <2>. HIDE DEF st2
    <2>. QED  BY <1>2, <2>2
  <1>. HIDE DEF st2
  <1>4. w' = [w EXCEPT !.pc = IF ok THEN next ELSE "status",
                       !.st = st2, !.err = ~ok]
    BY DEF Proceed, st2, val
  <1>5. "status" \in Pcs \ {"idle"}
    BY DEF Pcs
  <1>. QED  BY <1>1, <1>3, <1>4, <1>5 DEF Worker

\* The object that CreateOrUpdate wants: the claim's own.
LEMMA MutatedFacts ==
    ASSUME OwnershipTypeOK, w.pc # "idle", NEW o \in TeamObject,
           NEW hard \in {quotaHard(r) : r \in Resources} \cup {NoHard}
    PROVE  /\ Mutated(o, hard) \in TeamObject
           /\ Mutated(o, hard).live
           /\ Mutated(o, hard).owner = [name |-> w.key, uid |-> w.copy.uid]
           /\ Mutated(o, hard).owner.name = w.key
           /\ Mutated(o, hard).hard = hard
  <1>. DEFINE own == [name |-> w.key, uid |-> w.copy.uid]
  <1>1. own \in Owner /\ own.name = w.key
    BY WorkerFacts DEF Owner
  <1>. HIDE DEF own
  <1>2. Mutated(o, hard) = [o EXCEPT !.live = TRUE, !.hard = hard, !.owner = own]
    BY DEF Mutated, own
  <1>3. CASE o = NoObject
    <2>1. Mutated(o, hard) = [live |-> TRUE, del |-> FALSE, owner |-> own,
                              hard |-> hard]
      BY <1>2, <1>3 DEF NoObject
    <2>. QED  BY <1>1, <2>1 DEF TeamObject, own
  <1>4. CASE o # NoObject
    BY <1>1, <1>2, <1>4 DEF TeamObject, own
  <1>. QED  BY <1>3, <1>4

\* What an ensure step does to the object of kind k for team t, and to the
\* reconcile of claim c.
EnsureEffect(t, c, k, hard, type, next) ==
    LET log == objLog[t][k]
        o == Cached(log)
        n == Mutated(o, hard)
    IN  /\ RestTyped /\ AllKept
        /\ UNCHANGED <<claimLog, app, appEvents>>
        /\ \/ /\ PutObject(t, k, n)
              /\ \/ /\ o.live /\ o.owner.name = c
                    /\ Len(log) = 1 /\ n # o
                 \/ /\ ~o.live /\ ~Obj(t, k).live
                    /\ k = "Namespace" \/ TeamNamespaceUsable(t)
           \/ UNCHANGED <<objLog, queue>> /\ (w'.err \/ n = o)
        /\ w' \in Worker /\ w'.pc # "idle" /\ w'.key # None
        /\ w'.copy.live
        /\ w'.key = c /\ w'.copy = w.copy
        /\ w'.pc = IF w'.err THEN "status" ELSE next
        /\ w'.err = FALSE => w'.st.conds[type].status = "True"
        /\ \A x \in AllConds \ {type} : w'.st.conds[x] = w.st.conds[x]

\* One ensure step, as its effects: the object is created where the name is
\* free, updated where the cache is up to date, or nothing is written; then the
\* step fails, unless the cached object is as it should be.
LEMMA EnsureFacts ==
    ASSUME OwnershipTypeOK, w.pc # "idle",
           NEW out, NEW k \in TeamKinds,
           NEW hard \in {quotaHard(r) : r \in Resources} \cup {NoHard},
           NEW type \in AllConds, NEW next \in Pcs \ {"idle"},
           CreateOrUpdateTeamObject(out, k, hard, type, next),
           NEW t, NEW c, t = w.copy.team, c = w.key
    PROVE  EnsureEffect(t, c, k, hard, type, next)
  <1>. DEFINE log == objLog[t][k]
              o == Cached(log)
              n == Mutated(o, hard)
              possible == IF o.live
                          THEN CanOwn(o) /\ (n = o \/ Len(log) = 1)
                          ELSE ~Obj(t, k).live
                               /\ (k = "Namespace" \/ TeamNamespaceUsable(t))
              ok == possible /\ out = "ok"
  <1>1. t \in Teams /\ o \in TeamObject
    BY WorkerFacts, ObjFacts
  <1>2. n \in TeamObject
    BY <1>1, MutatedFacts
  <1>3. trouble' \in 0..MaxTrouble
    BY CallType DEF CreateOrUpdateTeamObject
  <1>4. /\ IF possible /\ n # o /\ out # "fail"
           THEN PutObject(t, k, n) ELSE UNCHANGED <<objLog, queue, late>>
        /\ Proceed(ok, type, next)
        /\ UNCHANGED <<claimLog, app, appEvents>>
    BY DEF CreateOrUpdateTeamObject, PutObject, Obj, TeamNamespaceUsable
  <1>5. ok \in BOOLEAN
    OBVIOUS
  <1>6. ok => possible /\ out # "fail"
    OBVIOUS
  <1>7. possible /\ n # o =>
           \/ o.live /\ o.owner.name = c /\ Len(log) = 1 /\ n # o
           \/ /\ ~o.live /\ ~Obj(t, k).live
              /\ k = "Namespace" \/ TeamNamespaceUsable(t)
    BY DEF CanOwn
  <1>. HIDE DEF ok, possible, n
  <1>8. /\ w' \in Worker /\ w'.pc # "idle" /\ w'.key # None /\ w'.copy.live
        /\ w'.key = w.key /\ w'.copy = w.copy
        /\ w'.pc = IF ok THEN next ELSE "status"
        /\ w'.err = ~ok
        /\ ok => w'.st.conds[type].status = "True"
        /\ \A x \in AllConds \ {type} : w'.st.conds[x] = w.st.conds[x]
    BY <1>4, <1>5, ProceedFacts
  <1>9. w'.pc = IF w'.err THEN "status" ELSE next
    BY <1>5, <1>8
  <1>10. CASE PutObject(t, k, n) /\ possible /\ n # o
    <2>1. RestTyped /\ AllKept
      BY <1>1, <1>2, <1>3, <1>4, <1>10, ObjectStep
    <2>. QED  BY <1>4, <1>5, <1>7, <1>8, <1>9, <1>10, <2>1 DEF n, EnsureEffect
  <1>11. CASE UNCHANGED <<objLog, queue, late>> /\ (~ok \/ n = o)
    <2>1. RestTyped /\ AllKept
      BY <1>3, <1>4, <1>11, TypeFacts, QueueStep
    <2>2. w'.err \/ n = o
      BY <1>5, <1>8, <1>11
    <2>. QED  BY <1>4, <1>5, <1>8, <1>9, <1>11, <2>1, <2>2 DEF n, EnsureEffect
  <1>. QED  BY <1>4, <1>6, <1>10, <1>11

\* The same for the three team objects, each with its step and its limits.
Ensuring(k, hard, next, type) ==
    \/ w.pc = "namespace" /\ k = "Namespace" /\ hard = NoHard
       /\ next = "rolebinding" /\ type = "NamespaceReady"
    \/ w.pc = "rolebinding" /\ k = "RoleBinding" /\ hard = NoHard
       /\ next = "quota" /\ type = "RBACReady"
    \/ w.pc = "quota" /\ k = "ResourceQuota" /\ next = "app"
       /\ type = "QuotaApplied" /\ hard = declaredHard(w.copy.res) /\ hard # NoHard

LEMMA EnsuringTypes ==
    ASSUME OwnershipTypeOK, NEW k, NEW hard, NEW next, NEW type,
           Ensuring(k, hard, next, type)
    PROVE  /\ k \in TeamKinds /\ next \in Pcs \ {"idle"} /\ w.pc # "idle"
           /\ hard \in {quotaHard(r) : r \in Resources} \cup {NoHard}
           /\ w.key \in Claims /\ w.copy.team \in Teams
  <1>1. hard = NoHard \/ hard \in {quotaHard(r) : r \in Resources}
    BY WorkerFacts, DeclaredHardType DEF Ensuring
  <1>. QED  BY <1>1, WorkerFacts DEF Ensuring, TeamKinds, Pcs

\* ensureQuota without declared resources.
NoQuota ==
    /\ w.pc = "quota" /\ declaredHard(w.copy.res) = NoHard
    /\ Proceed(TRUE, "QuotaApplied", "app")
    /\ UNCHANGED <<claimLog, objLog, app, appEvents, queue, trouble, late>>

\* A step of the reconcile is one of these.
LEMMA StepCases ==
    ASSUME OwnershipTypeOK, NEW out, ReconcileStep(out)
    PROVE  \/ \E k, hard, next : \E type \in AllConds :
                 /\ Ensuring(k, hard, next, type)
                 /\ CreateOrUpdateTeamObject(out, k, hard, type, next)
           \/ NoQuota
           \/ ensureArgoApplication(out)
           \/ patchStatus(out)
  <1>1. CASE ensureNamespace(out)
    <2>1. Ensuring("Namespace", NoHard, "rolebinding", "NamespaceReady")
          /\ CreateOrUpdateTeamObject(out, "Namespace", NoHard,
                                      "NamespaceReady", "rolebinding")
          /\ "NamespaceReady" \in AllConds
      BY <1>1 DEF ensureNamespace, Ensuring, AllConds, StepConds
    <2>. QED  BY <2>1
  <1>2. CASE ensureRoleBinding(out)
    <2>1. Ensuring("RoleBinding", NoHard, "quota", "RBACReady")
          /\ CreateOrUpdateTeamObject(out, "RoleBinding", NoHard, "RBACReady",
                                      "quota")
          /\ "RBACReady" \in AllConds
      BY <1>2 DEF ensureRoleBinding, Ensuring, AllConds, StepConds
    <2>. QED  BY <2>1
  <1>3. CASE ensureQuota(out) /\ declaredHard(w.copy.res) # NoHard
    <2>1. Ensuring("ResourceQuota", declaredHard(w.copy.res), "app",
                   "QuotaApplied")
          /\ CreateOrUpdateTeamObject(out, "ResourceQuota",
                declaredHard(w.copy.res), "QuotaApplied", "app")
          /\ "QuotaApplied" \in AllConds
      BY <1>3 DEF ensureQuota, Ensuring, AllConds, StepConds
    <2>. QED  BY <2>1
  <1>4. CASE ensureQuota(out) /\ declaredHard(w.copy.res) = NoHard
    BY <1>4 DEF ensureQuota, NoQuota
  <1>. QED  BY <1>1, <1>2, <1>3, <1>4 DEF ReconcileStep

LEMMA NoQuotaFacts ==
    ASSUME OwnershipTypeOK, NoQuota
    PROVE  /\ RestTyped /\ AllKept
           /\ UNCHANGED <<claimLog, objLog, app, appEvents, queue>>
           /\ w' \in Worker /\ w'.pc = "app" /\ w'.key # None /\ w'.copy.live
           /\ w'.key = w.key /\ w'.copy = w.copy /\ w'.err = FALSE
           /\ w'.st.conds["QuotaApplied"].status = "True"
           /\ \A x \in AllConds \ {"QuotaApplied"} :
                 w'.st.conds[x] = w.st.conds[x]
  <1>1. w.pc # "idle" /\ "QuotaApplied" \in AllConds /\ "app" \in Pcs \ {"idle"}
    BY DEF NoQuota, AllConds, StepConds, Pcs
  <1>2. UNCHANGED <<claimLog, objLog, app, appEvents, queue, trouble, late>>
        /\ Proceed(TRUE, "QuotaApplied", "app")
    BY DEF NoQuota
  <1>3. RestTyped /\ AllKept
    BY <1>2, TypeFacts, QueueStep
  <1>. QED  BY <1>1, <1>2, <1>3, ProceedFacts

\* ensureArgoApplication, as its effects.
LEMMA AppFacts ==
    ASSUME OwnershipTypeOK, NEW out, ensureArgoApplication(out)
    PROVE  /\ RestTyped /\ AllKept
           /\ UNCHANGED <<claimLog, objLog>>
           /\ w.pc = "app" /\ w.key \in Claims
           /\ w' \in Worker /\ w'.pc = "status" /\ w'.key # None
           /\ w'.copy.live
           /\ w'.key = w.key /\ w'.copy = w.copy
           /\ ~w'.err => AppInPlace(w.key, w.copy)'
           /\ ~w'.err => w'.st.conds["ArgoAppCreated"].status = "True"
           /\ \A x \in AllConds \ {"ArgoAppCreated"} :
                 w'.st.conds[x] = w.st.conds[x]
  <1>. DEFINE new == [live |-> TRUE, dest |-> w.copy.team,
                      owner |-> [name |-> w.key, uid |-> w.copy.uid]]
              ok == out = "ok"
  <1>1. w.pc = "app" /\ w.pc # "idle" /\ w.key \in Claims
        /\ w.copy.team \in Teams
    BY WorkerFacts DEF ensureArgoApplication
  <1>2. new \in AppObject
    BY <1>1, WorkerFacts DEF AppObject, Owner
  <1>3. /\ IF out = "fail" THEN UNCHANGED <<app, appEvents, queue, late>>
                           ELSE PutApp(w.key, new)
        /\ Proceed(ok, "ArgoAppCreated", "status")
        /\ UNCHANGED <<claimLog, objLog>> /\ Call(out)
    BY DEF ensureArgoApplication
  <1>4. ok \in BOOLEAN /\ "ArgoAppCreated" \in AllConds
        /\ "status" \in Pcs \ {"idle"}
    BY DEF AllConds, StepConds, Pcs
  <1>5. ok => out # "fail"
    OBVIOUS
  <1>. HIDE DEF ok
  <1>6. /\ w' \in Worker /\ w'.pc = "status" /\ w'.key # None /\ w'.copy.live
        /\ w'.key = w.key /\ w'.copy = w.copy /\ w'.err = ~ok
        /\ ok => w'.st.conds["ArgoAppCreated"].status = "True"
        /\ \A x \in AllConds \ {"ArgoAppCreated"} :
              w'.st.conds[x] = w.st.conds[x]
    BY <1>1, <1>3, <1>4, ProceedFacts
  <1>7. trouble' \in 0..MaxTrouble
    BY <1>3, CallType
  <1>8. RestTyped /\ AllKept
    <2>. HIDE DEF new
    <2>1. CASE out = "fail"
      BY <1>3, <1>7, <2>1, TypeFacts, QueueStep
    <2>2. CASE out # "fail"
      BY <1>1, <1>2, <1>3, <1>7, <2>2, AppStep
    <2>. QED  BY <2>1, <2>2
  <1>9. ok => app'[w.key] = new
    <2>. HIDE DEF new
    <2>. QED  BY <1>1, <1>2, <1>3, <1>5, PutAppFacts
  <1>10. ~w'.err => /\ AppInPlace(w.key, w.copy)'
                     /\ w'.st.conds["ArgoAppCreated"].status = "True"
    BY <1>4, <1>6, <1>9 DEF AppInPlace
  <1>. QED  BY <1>1, <1>3, <1>6, <1>8, <1>10

\* patchStatus, as its effects: a claim whose reconcile failed is queued again;
\* one whose status is not what it was will be.
LEMMA PatchFacts ==
    ASSUME OwnershipTypeOK, NEW out, patchStatus(out)
    PROVE  /\ RestTyped /\ AllKept
           /\ w.key \in Claims /\ w.pc = "status"
           /\ UNCHANGED <<objLog, app, appEvents>> /\ w' = Idle
           /\ w.key \notin queue' /\ Len(claimLog'[w.key]) = 1 =>
                 /\ ~w.err
                 /\ Claim(w.key) = w.copy =>
                       w.copy.status = aggregateReady(w.st, w.copy.gen)
  <1>0. PICK c \in Claims : c = w.key
    BY WorkerFacts DEF patchStatus
  <1>. DEFINE old == Claim(c)
              agg == aggregateReady(w.st, w.copy.gen)
              st2 == PatchedStatus(old.status, w.copy.status, agg)
              new == [old EXCEPT !.status = st2]
              bad == w.err \/ out # "ok" \/ ~old.live
              retry == Retry(c, bad)
  <1>1. w.pc = "status" /\ c \in Claims /\ w.copy.status \in ClaimStatus
    BY <1>0, WorkerFacts DEF patchStatus
  <1>2. old \in ServiceClaim /\ old.status \in ClaimStatus
    BY <1>1, ClaimFacts, ClaimParts
  <1>3. agg \in ClaimStatus
    BY WorkerFacts, AggregateReadyFacts
  <1>4. st2 \in ClaimStatus
    BY <1>1, <1>2, <1>3, PatchedStatusFacts
  <1>5. /\ IF old.live /\ out # "fail"
           THEN PutClaim(c, new, retry)
           ELSE queue' = queue \cup retry /\ UNCHANGED <<claimLog, late>>
        /\ w' = Idle /\ UNCHANGED <<objLog, app, appEvents>> /\ Call(out)
    BY <1>0 DEF patchStatus
  <1>6. retry \in SUBSET Claims /\ (bad => c \in retry)
    BY <1>1 DEF Retry
  <1>7. trouble' \in 0..MaxTrouble
    BY <1>5, CallType
  <1>. HIDE DEF st2, retry
  <1>8. new \in ServiceClaim /\ new.status = st2
    BY <1>2, <1>4 DEF ServiceClaim
  <1>. HIDE DEF new
  <1>9. RestTyped /\ AllKept /\ retry \subseteq queue'
    <2>1. CASE PutClaim(c, new, retry)
      BY <1>1, <1>5, <1>6, <1>7, <1>8, <2>1, ClaimStep, PutClaimFacts
    <2>2. CASE queue' = queue \cup retry /\ UNCHANGED <<claimLog, late>>
      BY <1>5, <1>6, <1>7, <2>2, TypeFacts, QueueStep
    <2>. QED  BY <1>5, <2>1, <2>2
  <1>10. ASSUME c \notin queue', Len(claimLog'[c]) = 1
         PROVE  ~w.err /\ (old = w.copy => w.copy.status = agg)
    <2>1. ~bad
      BY <1>6, <1>9, <1>10
    <2>2. PutClaim(c, new, retry)
      BY <1>5, <2>1
    <2>3. Claim(c)' = new
      BY <1>1, <1>6, <1>8, <2>2, PutClaimFacts
    <2>4. Claim(c)' = old
      BY <1>1, <1>9, <1>10 DEF AllKept, Kept, KeptClaim, Claim
    <2>5. st2 = old.status
      BY <1>8, <2>3, <2>4
    <2>6. old = w.copy => w.copy.status = agg
      BY <1>1, <1>3, <2>5, PatchedStatusFacts DEF st2
    <2>. QED  BY <2>1, <2>6
  <1>. QED  BY <1>0, <1>1, <1>5, <1>9, <1>10

\* Reconcile takes a key from the queue, and the cached claim with it.
LEMMA ReconcileFacts ==
    ASSUME OwnershipTypeOK, NEW c \in Claims, Reconcile(c)
    PROVE  /\ w.pc = "idle" /\ w.key = None /\ c \in queue
           /\ queue' = queue \ {c}
           /\ UNCHANGED <<claimLog, objLog, app, appEvents>>
           /\ RestTyped
           /\ Cached(claimLog[c]).live =>
                 /\ w' \in Worker
                 /\ w'.pc = "namespace" /\ w'.key = c
                 /\ w'.copy = Cached(claimLog[c])
                 /\ w'.err = FALSE
           /\ ~Cached(claimLog[c]).live => w' = w
  <1>. DEFINE read == Cached(claimLog[c])
  <1>1. read \in ServiceClaim /\ read.status \in ClaimStatus
    BY ClaimFacts, ClaimParts
  <1>2. "namespace" \in Pcs
    BY DEF Pcs
  <1>3. /\ w.pc = "idle" /\ c \in queue
        /\ queue' = queue \ {c}
        /\ w' = IF read.live THEN [pc |-> "namespace", key |-> c, copy |-> read,
                                   st |-> read.status, err |-> FALSE]
                ELSE w
        /\ UNCHANGED <<claimLog, objLog, app, appEvents, trouble, late>>
    BY DEF Reconcile
  <1>4. RestTyped
    BY <1>3, TypeFacts DEF RestTyped
  <1>5. w.key = None
    BY <1>3 DEF OwnershipTypeOK
  <1>. QED  BY <1>1, <1>2, <1>3, <1>4, <1>5 DEF Worker

\* A restart fills the caches and queues every claim.
LEMMA RestartFacts ==
    ASSUME OwnershipTypeOK, RestartManager
    PROVE  /\ RestTyped /\ w' = Idle
           /\ \A c \in Claims : Claim(c)' = Claim(c)
           /\ \A t \in Teams, k \in TeamKinds :
                 objLog'[t][k] = <<Obj(t, k)>> /\ Obj(t, k)' = Obj(t, k)
           /\ \A c \in Claims : Claim(c).live => c \in queue'
  <1>1. trouble' \in 0..MaxTrouble
    BY TroubleType DEF RestartManager
  <1>2. /\ claimLog' = [c \in Claims |-> <<Claim(c)>>]
        /\ objLog' = [t \in Teams |-> [k \in TeamKinds |-> <<Obj(t, k)>>]]
        /\ appEvents' = {} /\ queue' \subseteq Claims /\ w' = Idle
        /\ \A c \in Claims : Claim(c).live => c \in queue'
        /\ UNCHANGED <<app, late>>
    BY DEF RestartManager
  <1>3. /\ \A c \in Claims : Claim(c) \in ServiceClaim
        /\ \A t \in Teams, k \in TeamKinds : Obj(t, k) \in TeamObject
    BY ClaimFacts, ObjFacts
  <1>4. /\ \A c \in Claims : <<Claim(c)>> \in Seq(ServiceClaim)
                             /\ Len(<<Claim(c)>>) \in Lengths
                             /\ Stored(<<Claim(c)>>) = Claim(c)
        /\ \A t \in Teams, k \in TeamKinds : <<Obj(t, k)>> \in Seq(TeamObject)
                             /\ Len(<<Obj(t, k)>>) \in Lengths
                             /\ Stored(<<Obj(t, k)>>) = Obj(t, k)
    BY <1>3, OneVersion
  <1>5. claimLog' \in ClaimLogs
    BY <1>2, <1>4 DEF ClaimLogs
  <1>6. objLog' \in ObjLogs
    BY <1>2, <1>4 DEF ObjLogs
  <1>7. RestTyped
    BY <1>1, <1>2, <1>5, <1>6, TypeFacts DEF RestTyped
  <1>8. \A c \in Claims : Claim(c)' = Claim(c)
    BY <1>2, <1>4 DEF Claim
  <1>9. \A t \in Teams, k \in TeamKinds :
           objLog'[t][k] = <<Obj(t, k)>> /\ Obj(t, k)' = Obj(t, k)
    BY <1>2, <1>4 DEF Obj
  <1>. QED  BY <1>2, <1>7, <1>8, <1>9

-----------------------------------------------------------------------------
(* Types *)

LEMMA TypeInit == ASSUME OwnershipInit PROVE OwnershipTypeOK
  <1>1. /\ <<NoClaim(0)>> \in Seq(ServiceClaim) /\ Len(<<NoClaim(0)>>) \in Lengths
        /\ <<NoObject>> \in Seq(TeamObject) /\ Len(<<NoObject>>) \in Lengths
    BY NoClaimType, NoObjectType, OneVersion
  <1>. QED
    BY <1>1, NoAppType, IdleType, OwnershipAssumption
    DEF OwnershipInit, OwnershipTypeOK, Worker

\* Each step keeps the types.
LEMMA TypeStep ==
    ASSUME OwnershipTypeOK, [OwnershipNext]_ownershipVars
    PROVE  OwnershipTypeOK'
  <1>1. /\ w \in Worker /\ ((w.pc = "idle") <=> (w.key = None))
        /\ (w.pc # "idle" => w.copy.live)
    BY DEF OwnershipTypeOK, Worker
  <1>2. CASE UNCHANGED ownershipVars
    BY <1>2 DEF ownershipVars, OwnershipTypeOK
  <1>3. CASE Outside
    BY <1>1, <1>3, OutsideFacts, TypeFromParts
  <1>4. ASSUME NEW c \in Claims, Reconcile(c)  PROVE OwnershipTypeOK'
    <2>1. CASE Cached(claimLog[c]).live
      BY <1>4, <2>1, ReconcileFacts, TypeFromParts, NoneApart
    <2>2. CASE ~Cached(claimLog[c]).live
      BY <1>1, <1>4, <2>2, ReconcileFacts, TypeFromParts
    <2>. QED  BY <2>1, <2>2
  <1>5. ASSUME NEW out, ReconcileStep(out)  PROVE OwnershipTypeOK'
    <2>1. ASSUME NEW k, NEW hard, NEW next, NEW type \in AllConds,
                 Ensuring(k, hard, next, type),
                 CreateOrUpdateTeamObject(out, k, hard, type, next)
          PROVE  OwnershipTypeOK'
      <3>1. RestTyped /\ w' \in Worker /\ w'.pc # "idle" /\ w'.key # None
            /\ w'.copy.live
        <4>1. EnsureEffect(w.copy.team, w.key, k, hard, type, next)
          BY <2>1, EnsuringTypes, EnsureFacts
        <4>. QED  BY <4>1 DEF EnsureEffect
      <3>. QED  BY <3>1, TypeFromParts
    <2>2. CASE NoQuota
      BY <2>2, NoQuotaFacts, TypeFromParts
    <2>3. CASE ensureArgoApplication(out)
      BY <2>3, AppFacts, TypeFromParts
    <2>4. CASE patchStatus(out)
      BY <2>4, PatchFacts, IdleType, TypeFromParts
    <2>. QED  BY <1>5, <2>1, <2>2, <2>3, <2>4, StepCases
  <1>6. CASE RestartManager
    BY <1>6, RestartFacts, IdleType, TypeFromParts
  <1>. QED  BY <1>2, <1>3, <1>4, <1>5, <1>6, NextCases

-----------------------------------------------------------------------------
(* What is in place stays in place, or its claim will be looked at *)

\* Quiet(c) after a step.
QuietNext(c) ==
    /\ c \notin queue'
    /\ Len(claimLog'[c]) = 1
    /\ c \notin appEvents'
    /\ \A t \in Teams, k \in TeamKinds : ~WillWake(c, objLog'[t][k])

LEMMA KeptQuiet ==
    ASSUME NEW c \in Claims, Kept(c), QuietNext(c)
    PROVE  /\ Quiet(c)
           /\ Claim(c)' = Claim(c) /\ app'[c] = app[c]
           /\ \A t \in Teams, k \in TeamKinds :
                 \/ Obj(t, k)' = Obj(t, k)
                 \/ Obj(t, k).owner.name # c /\ (Obj(t, k)').owner.name # c
  <1>1. /\ c \notin queue' /\ Len(claimLog'[c]) = 1 /\ c \notin appEvents'
        /\ \A t \in Teams, k \in TeamKinds : ~WillWake(c, objLog'[t][k])
    BY DEF QuietNext
  <1>2. claimLog'[c] = claimLog[c] /\ c \notin appEvents /\ app'[c] = app[c]
        /\ c \notin queue
    BY <1>1 DEF Kept, KeptClaim, KeptApp
  <1>3. \A t \in Teams, k \in TeamKinds :
           /\ ~WillWake(c, objLog[t][k])
           /\ \/ Obj(t, k)' = Obj(t, k)
              \/ Obj(t, k).owner.name # c /\ (Obj(t, k)').owner.name # c
    BY <1>1 DEF Kept, KeptObject
  <1>. QED  BY <1>1, <1>2, <1>3 DEF Quiet, Claim

LEMMA InPlaceKept ==
    ASSUME NEW c \in Claims, Kept(c), QuietNext(c), NEW s, s.team \in Teams,
           NEW k \in TeamKinds, ObjectInPlace(c, s, k)
    PROVE  ObjectInPlace(c, s, k)'
  <1>1. CASE k = "ResourceQuota" /\ declaredHard(s.res) = NoHard
    BY <1>1 DEF ObjectInPlace
  <1>2. CASE ~(k = "ResourceQuota" /\ declaredHard(s.res) = NoHard)
    <2>1. Obj(s.team, k).owner = [name |-> c, uid |-> s.uid]
      BY <1>2 DEF ObjectInPlace
    <2>2. Obj(s.team, k).owner.name = c
      BY <2>1
    <2>3. Obj(s.team, k)' = Obj(s.team, k)
      BY <2>2, KeptQuiet
    <2>. QED  BY <2>3 DEF ObjectInPlace
  <1>. QED  BY <1>1, <1>2

LEMMA AppKept ==
    ASSUME NEW c \in Claims, Kept(c), QuietNext(c), NEW s, AppInPlace(c, s)
    PROVE  AppInPlace(c, s)'
  BY KeptQuiet DEF AppInPlace

LEMMA PassedKinds ==
    ASSUME NEW pc \in Pcs \ {"idle"}
    PROVE  Passed[pc] \subseteq TeamKinds
  BY DEF Passed, Pcs, TeamKinds

\* The two invariants after a step, with the claim named.
LEMMA QuietNamed ==
    ASSUME \A c \in Claims : \A s :
              /\ QuietNext(c) /\ w'.key # c
              /\ Claim(c)' = s /\ s.live
              => /\ ReadyForGeneration(s)
                 /\ \A k \in TeamKinds : ObjectInPlace(c, s, k)'
                 /\ AppInPlace(c, s)'
    PROVE  QuietInPlace'
  <1>. SUFFICES ASSUME NEW c \in Claims, (Claim(c)').live, Quiet(c)', w'.key # c
                PROVE  /\ ReadyForGeneration(Claim(c)')
                       /\ \A k \in TeamKinds : ObjectInPlace(c, Claim(c), k)'
                       /\ AppInPlace(c, Claim(c))'
    BY DEF QuietInPlace, ReadyForGeneration
  <1>1. QuietNext(c)
    BY DEF Quiet, QuietNext
  <1>2. PICK s : s = Claim(c)'
    OBVIOUS
  <1>3. /\ ReadyForGeneration(s)
        /\ \A k \in TeamKinds : ObjectInPlace(c, s, k)'
        /\ AppInPlace(c, s)'
    BY <1>1, <1>2
  <1>. QED  BY <1>2, <1>3 DEF ObjectInPlace, AppInPlace

LEMMA UpToDateNamed ==
    ASSUME w'.err => w'.pc = "status",
           \A c, s :
              /\ w'.pc # "idle" /\ w'.key = c /\ w'.copy = s /\ QuietNext(c)
              => /\ Claim(c)' = s
                 /\ ~w'.err => /\ \A k \in Passed[w'.pc] : ObjectInPlace(c, s, k)'
                               /\ w'.pc = "status" => AppInPlace(c, s)'
    PROVE  ReconcileUpToDate'
  <1>1. PICK c : c = w'.key
    OBVIOUS
  <1>2. PICK s : s = w'.copy
    OBVIOUS
  <1>3. Quiet(w.key)' => QuietNext(c)
    BY <1>1 DEF Quiet, QuietNext
  <1>4. w'.pc # "idle" /\ QuietNext(c) =>
           /\ Claim(c)' = s
           /\ ~w'.err => /\ \A k \in Passed[w'.pc] : ObjectInPlace(c, s, k)'
                         /\ w'.pc = "status" => AppInPlace(c, s)'
    BY <1>1, <1>2
  <1>. QED
    BY <1>1, <1>2, <1>3, <1>4
    DEF ReconcileUpToDate, ObjectInPlace, AppInPlace, Claim

\* A step that tells the claims it concerns keeps a quiet claim right.
LEMMA QuietKept ==
    ASSUME OwnershipTypeOK, QuietInPlace, NEW c \in Claims, Kept(c),
           QuietNext(c), w.key # c, NEW s, Claim(c)' = s, s.live
    PROVE  /\ ReadyForGeneration(s)
           /\ \A k \in TeamKinds : ObjectInPlace(c, s, k)'
           /\ AppInPlace(c, s)'
  <1>1. Quiet(c) /\ Claim(c) = s
    BY KeptQuiet
  <1>2. /\ ReadyForGeneration(s)
        /\ \A k \in TeamKinds : ObjectInPlace(c, s, k)
        /\ AppInPlace(c, s)
    BY <1>1 DEF QuietInPlace
  <1>3. s.team \in Teams
    BY <1>1, ClaimFacts, ClaimParts
  <1>. QED  BY <1>2, <1>3, InPlaceKept, AppKept

\* The same for what a reconcile has passed.
LEMMA UpToDateKept ==
    ASSUME OwnershipTypeOK, ReconcileUpToDate, w.pc # "idle", Kept(w.key),
           QuietNext(w.key)
    PROVE  /\ Quiet(w.key) /\ Claim(w.key) = w.copy
           /\ \A c \in Claims : c = w.key => Claim(c)' = w.copy
           /\ ~w.err => \A s : s = w.copy =>
                \A c \in Claims : c = w.key =>
                  /\ \A k \in Passed[w.pc] : ObjectInPlace(c, s, k)'
                  /\ w.pc = "status" => AppInPlace(c, s)'
  <1>1. w.key \in Claims /\ w.copy.team \in Teams /\ w.pc \in Pcs \ {"idle"}
    BY WorkerFacts
  <1>2. PICK c \in Claims : c = w.key
    BY <1>1
  <1>3. Quiet(c) /\ Claim(c)' = Claim(c)
    BY <1>2, KeptQuiet
  <1>4. Claim(c) = w.copy
    BY <1>2, <1>3 DEF ReconcileUpToDate
  <1>5. ASSUME ~w.err, NEW s, s = w.copy
        PROVE  /\ \A k \in Passed[w.pc] : ObjectInPlace(c, s, k)'
               /\ w.pc = "status" => AppInPlace(c, s)'
    <2>1. /\ \A k \in Passed[w.pc] : ObjectInPlace(c, s, k)
          /\ w.pc = "status" => AppInPlace(c, s)
      BY <1>2, <1>3, <1>5 DEF ReconcileUpToDate
    <2>2. Passed[w.pc] \subseteq TeamKinds
      BY <1>1, PassedKinds
    <2>. QED  BY <1>1, <1>2, <1>5, <2>1, <2>2, InPlaceKept, AppKept
  <1>. QED  BY <1>2, <1>3, <1>4, <1>5

-----------------------------------------------------------------------------
(* The invariant of the quiet claims *)

LEMMA InvInit == ASSUME OwnershipInit PROVE OwnershipInv
  <1>1. w.pc = "idle" /\ w.err = FALSE
    BY IdleType DEF OwnershipInit
  <1>2. \A c \in Claims : ~Claim(c).live
    <2>1. \A c \in Claims : Claim(c) = NoClaim(0)
      BY NoClaimType, OneVersion DEF OwnershipInit, Claim
    <2>. QED  BY <2>1, NoClaimType
  <1>. QED
    BY <1>1, <1>2
    DEF OwnershipInv, PassedConditions, ReconcileUpToDate, QuietInPlace

LEMMA OutsideInv ==
    ASSUME OwnershipTypeOK, OwnershipInv, AllKept, w' = w
    PROVE  OwnershipInv'
  <1>1. PassedConditions'
    BY DEF OwnershipInv, PassedConditions
  <1>2. ReconcileUpToDate'
    <2>1. w.err => w.pc = "status"
      BY DEF OwnershipInv, ReconcileUpToDate
    <2>2. ASSUME NEW c, NEW s, w.pc # "idle", w.key = c, w.copy = s, QuietNext(c)
          PROVE  /\ Claim(c)' = s
                 /\ ~w.err => /\ \A k \in Passed[w.pc] : ObjectInPlace(c, s, k)'
                              /\ w.pc = "status" => AppInPlace(c, s)'
      <3>1. c \in Claims /\ Kept(c)
        BY <2>2, WorkerFacts DEF AllKept
      <3>. QED  BY <2>2, <3>1, UpToDateKept DEF OwnershipInv
    <2>. QED  BY <2>1, <2>2, UpToDateNamed
  <1>3. QuietInPlace'
    BY QuietKept, QuietNamed DEF OwnershipInv, AllKept
  <1>. QED  BY <1>1, <1>2, <1>3 DEF OwnershipInv

\* Reconcile takes a cached claim; if nothing is under way it is the stored one.
LEMMA ReconcileInv ==
    ASSUME OwnershipTypeOK, OwnershipInv, NEW c \in Claims, Reconcile(c)
    PROVE  OwnershipInv'
  <1>. DEFINE read == Cached(claimLog[c])
  <1>1. /\ w.pc = "idle" /\ w.key = None
        /\ queue' = queue \ {c}
        /\ UNCHANGED <<claimLog, objLog, app, appEvents>>
        /\ read.live => /\ w'.pc = "namespace" /\ w'.key = c
                        /\ w'.copy = read /\ w'.err = FALSE
        /\ ~read.live => w' = w
    BY ReconcileFacts
  <1>2. \A d \in Claims : Claim(d)' = Claim(d)
    BY <1>1 DEF Claim
  <1>3. QuietNext(c) => Claim(c) = read
    BY <1>1, ClaimFacts, LogEnds DEF QuietNext, Claim
  <1>4. w.err = FALSE
    <2>1. w.err \in BOOLEAN
      BY WorkerFacts
    <2>. QED  BY <1>1, <2>1 DEF OwnershipInv, ReconcileUpToDate
  <1>5. PassedConditions'
    BY <1>1 DEF PassedConditions, Passed
  <1>6. ReconcileUpToDate'
    <2>1. w'.err => w'.pc = "status"
      BY <1>1, <1>4
    <2>2. ASSUME NEW d, NEW s, w'.pc # "idle", w'.key = d, w'.copy = s,
                 QuietNext(d)
          PROVE  /\ Claim(d)' = s
                 /\ ~w'.err => /\ \A k \in Passed[w'.pc] : ObjectInPlace(d, s, k)'
                               /\ w'.pc = "status" => AppInPlace(d, s)'
      <3>1. read.live /\ d = c /\ s = read /\ w'.pc = "namespace"
        BY <1>1, <2>2
      <3>2. Claim(d)' = s
        BY <1>2, <1>3, <2>2, <3>1
      <3>3. Passed[w'.pc] = {}
        BY <3>1 DEF Passed
      <3>. QED  BY <3>1, <3>2, <3>3
    <2>. QED  BY <2>1, <2>2, UpToDateNamed
  <1>7. QuietInPlace'
    <2>1. ASSUME NEW d \in Claims, NEW s, QuietNext(d), w'.key # d,
                 Claim(d)' = s, s.live
          PROVE  /\ ReadyForGeneration(s)
                 /\ \A k \in TeamKinds : ObjectInPlace(d, s, k)'
                 /\ AppInPlace(d, s)'
      <3>1. d # c
        BY <1>1, <1>2, <1>3, <2>1
      <3>2. Kept(d)
        BY <1>1, <3>1, SameClaims, SameApps, SameObjects DEF Kept
      <3>3. w.key # d
        BY <1>1, NoneApart
      <3>. QED  BY <2>1, <3>2, <3>3, QuietKept DEF OwnershipInv
    <2>. QED  BY <2>1, QuietNamed
  <1>. QED  BY <1>5, <1>6, <1>7 DEF OwnershipInv

LEMMA IdleInv ==
    ASSUME w' = Idle
    PROVE  PassedConditions' /\ ReconcileUpToDate'
  <1>1. w'.pc = "idle" /\ w'.err = FALSE
    BY IdleType
  <1>. QED  BY <1>1 DEF PassedConditions, ReconcileUpToDate

LEMMA RestartInv ==
    ASSUME OwnershipTypeOK, OwnershipInv, RestartManager
    PROVE  OwnershipInv'
  <1>1. /\ w' = Idle
        /\ \A c \in Claims : Claim(c)' = Claim(c)
        /\ \A c \in Claims : Claim(c).live => c \in queue'
    BY RestartFacts
  <1>2. QuietInPlace'
    BY <1>1, QuietNamed DEF QuietNext
  <1>. QED  BY <1>1, <1>2, IdleInv DEF OwnershipInv

\* One ensure step.  A write wakes its own claim; a step that writes nothing and
\* succeeds has the cached object right, and if that is old its owner will be
\* woken.
LEMMA EnsureInv ==
    ASSUME OwnershipTypeOK, OwnershipInv, NEW out, NEW k, NEW hard, NEW next,
           NEW type \in AllConds, Ensuring(k, hard, next, type),
           CreateOrUpdateTeamObject(out, k, hard, type, next)
    PROVE  OwnershipInv'
  <1>0. /\ k \in TeamKinds /\ next \in Pcs \ {"idle"} /\ w.pc # "idle"
        /\ hard \in {quotaHard(r) : r \in Resources} \cup {NoHard}
        /\ w.key \in Claims /\ w.copy.team \in Teams
    BY EnsuringTypes
  <1>1. PICK c \in Claims, t \in Teams : c = w.key /\ t = w.copy.team
    BY <1>0
  <1>. DEFINE log == objLog[t][k]
              o == Cached(log)
              n == Mutated(o, hard)
  <1>2. /\ log \in Seq(TeamObject) /\ Len(log) \in Lengths /\ o \in TeamObject
        /\ Obj(t, k) \in TeamObject
        /\ Len(log) = 1 => Obj(t, k) = o
    BY <1>0, ObjFacts, LogEnds DEF Obj
  <1>3. /\ AllKept
        /\ UNCHANGED <<claimLog, app, appEvents>>
        /\ \/ /\ PutObject(t, k, n)
              /\ \/ Len(log) = 1 /\ n # o
                 \/ ~Obj(t, k).live
           \/ UNCHANGED <<objLog, queue>> /\ (w'.err \/ n = o)
        /\ w' \in Worker /\ w'.pc # "idle"
        /\ w'.key = c /\ w'.copy = w.copy
        /\ w'.pc = IF w'.err THEN "status" ELSE next
        /\ w'.err = FALSE => w'.st.conds[type].status = "True"
        /\ \A x \in AllConds \ {type} : w'.st.conds[x] = w.st.conds[x]
    <2>1. EnsureEffect(t, c, k, hard, type, next)
      BY <1>0, <1>1, EnsureFacts
    <2>. QED  BY <2>1 DEF EnsureEffect
  <1>4. /\ n \in TeamObject /\ n.live
        /\ n.owner = [name |-> c, uid |-> w.copy.uid] /\ n.owner.name = c
        /\ n.hard = hard
    BY <1>0, <1>1, <1>2, MutatedFacts
  <1>5. ~w.err /\ w.pc # "status" /\ next # "status"
    BY DEF Ensuring, OwnershipInv, ReconcileUpToDate
  <1>6. w'.err \in BOOLEAN
    BY <1>3 DEF Worker
  <1>. HIDE DEF n
  <1>7. QuietNext(c) => UNCHANGED <<objLog, queue>> /\ (w'.err \/ n = o)
    <2>1. ASSUME PutObject(t, k, n), QuietNext(c)  PROVE n = Obj(t, k)
      <3>1. Obj(t, k)' = n
        BY <1>0, <1>4, <2>1, PutObjectFacts
      <3>2. Obj(t, k)' = Obj(t, k) \/ (Obj(t, k)').owner.name # c
        BY <1>0, <1>3, <2>1, KeptQuiet DEF AllKept
      <3>. QED  BY <1>4, <3>1, <3>2
    <2>. QED  BY <1>2, <1>3, <1>4, <2>1
  <1>8. ReconcileUpToDate'
    <2>1. w'.err => w'.pc = "status"
      BY <1>3, <1>6
    <2>2. ASSUME NEW s, w'.copy = s, QuietNext(c)
          PROVE  /\ Claim(c)' = s
                 /\ ~w'.err => \A kk \in Passed[next] : ObjectInPlace(c, s, kk)'
      <3>1. /\ Quiet(c) /\ Claim(c)' = s
            /\ \A kk \in Passed[w.pc] : ObjectInPlace(c, s, kk)'
        BY <1>0, <1>1, <1>3, <1>5, <2>2, UpToDateKept DEF OwnershipInv, AllKept
      <3>2. ASSUME ~w'.err  PROVE ObjectInPlace(c, s, k)'
        <4>1. UNCHANGED <<objLog, queue>> /\ n = o
          BY <1>7, <2>2, <3>2
        <4>2. Len(log) = 1
          BY <1>0, <1>2, <1>4, <3>1, <4>1, WakeCached DEF Quiet
        <4>3. Obj(t, k) = n
          BY <1>2, <4>1, <4>2
        <4>4. k = "ResourceQuota" => hard = declaredHard(s.res)
          BY <1>3, <2>2 DEF Ensuring
        <4>5. s.team = t /\ s.uid = w.copy.uid
          BY <1>1, <1>3, <2>2
        <4>6. ObjectInPlace(c, s, k)
          BY <1>4, <4>3, <4>4, <4>5 DEF ObjectInPlace
        <4>. QED  BY <4>1, <4>6 DEF ObjectInPlace, Obj
      <3>3. Passed[next] = Passed[w.pc] \cup {k}
        BY DEF Ensuring, Passed
      <3>. QED  BY <3>1, <3>2, <3>3
    <2>3. ASSUME NEW d, NEW s, w'.pc # "idle", w'.key = d, w'.copy = s,
                 QuietNext(d)
          PROVE  /\ Claim(d)' = s
                 /\ ~w'.err => /\ \A kk \in Passed[w'.pc] : ObjectInPlace(d, s, kk)'
                               /\ w'.pc = "status" => AppInPlace(d, s)'
      BY <1>3, <1>5, <2>2, <2>3
    <2>. QED  BY <2>1, <2>3, UpToDateNamed
  <1>9. QuietInPlace'
    <2>1. \A d \in Claims : w'.key # d => w.key # d
      BY <1>1, <1>3
    <2>. QED  BY <1>3, <2>1, QuietKept, QuietNamed DEF OwnershipInv, AllKept
  <1>10. PassedConditions'
    <2>. SUFFICES ASSUME ~w'.err, NEW kk \in Passed[next]
                  PROVE  w'.st.conds[StepCond[kk]].status = "True"
      BY <1>3, <1>5, <1>6 DEF PassedConditions
    <2>1. Passed[next] = Passed[w.pc] \cup {k} /\ StepCond[k] = type
      BY DEF Ensuring, Passed, StepCond
    <2>2. Passed[w.pc] \subseteq TeamKinds
      BY <1>0, WorkerFacts, PassedKinds
    <2>3. \A x \in TeamKinds : StepCond[x] \in AllConds
      BY DEF StepCond, TeamKinds, AllConds, StepConds
    <2>4. \A x \in Passed[w.pc] : w.st.conds[StepCond[x]].status = "True"
      BY <1>0, <1>5 DEF OwnershipInv, PassedConditions
    <2>. QED  BY <1>3, <1>6, <2>1, <2>2, <2>3, <2>4
  <1>. QED  BY <1>8, <1>9, <1>10 DEF OwnershipInv

\* ensureQuota without declared resources: there is nothing to put in place.
LEMMA NoQuotaInv ==
    ASSUME OwnershipTypeOK, OwnershipInv, NoQuota
    PROVE  OwnershipInv'
  <1>1. /\ AllKept
        /\ UNCHANGED <<claimLog, objLog, app, appEvents, queue>>
        /\ w'.pc = "app" /\ w'.key = w.key /\ w'.copy = w.copy /\ w'.err = FALSE
        /\ w'.st.conds["QuotaApplied"].status = "True"
        /\ \A x \in AllConds \ {"QuotaApplied"} : w'.st.conds[x] = w.st.conds[x]
        /\ w.pc = "quota" /\ declaredHard(w.copy.res) = NoHard
    BY NoQuotaFacts DEF NoQuota
  <1>2. w.pc # "idle" /\ w.key \in Claims /\ ~w.err
    BY <1>1, WorkerFacts DEF OwnershipInv, ReconcileUpToDate
  <1>3. ReconcileUpToDate'
    <2>1. ASSUME NEW c, NEW s, w'.pc # "idle", w'.key = c, w'.copy = s,
                 QuietNext(c)
          PROVE  /\ Claim(c)' = s
                 /\ ~w'.err => /\ \A k \in Passed[w'.pc] : ObjectInPlace(c, s, k)'
                               /\ w'.pc = "status" => AppInPlace(c, s)'
      <3>1. c \in Claims /\ c = w.key /\ s = w.copy /\ Kept(c)
        BY <1>1, <1>2, <2>1 DEF AllKept
      <3>2. /\ Claim(c)' = s
            /\ \A k \in Passed["quota"] : ObjectInPlace(c, s, k)'
        BY <1>1, <1>2, <2>1, <3>1, UpToDateKept DEF OwnershipInv
      <3>3. ObjectInPlace(c, s, "ResourceQuota")'
        BY <1>1, <3>1 DEF ObjectInPlace
      <3>4. Passed["app"] = Passed["quota"] \cup {"ResourceQuota"}
        BY DEF Passed
      <3>. QED  BY <1>1, <3>2, <3>3, <3>4
    <2>. QED  BY <1>1, <2>1, UpToDateNamed
  <1>4. QuietInPlace'
    BY <1>1, QuietKept, QuietNamed DEF OwnershipInv, AllKept
  <1>5. PassedConditions'
    <2>1. /\ w.st.conds["NamespaceReady"].status = "True"
          /\ w.st.conds["RBACReady"].status = "True"
      BY <1>1, <1>2 DEF OwnershipInv, PassedConditions, Passed, StepCond
    <2>2. \A k \in Passed["app"] : w'.st.conds[StepCond[k]].status = "True"
      BY <1>1, <2>1 DEF Passed, StepCond, AllConds, StepConds
    <2>. QED  BY <1>1, <2>2 DEF PassedConditions
  <1>. QED  BY <1>3, <1>4, <1>5 DEF OwnershipInv

\* ensureArgoApplication writes the claim's own Application.
LEMMA AppInv ==
    ASSUME OwnershipTypeOK, OwnershipInv, NEW out, ensureArgoApplication(out)
    PROVE  OwnershipInv'
  <1>1. /\ AllKept
        /\ w.pc = "app" /\ w.key \in Claims
        /\ w'.pc = "status" /\ w'.key = w.key /\ w'.copy = w.copy
        /\ ~w'.err => /\ AppInPlace(w.key, w.copy)'
                      /\ w'.st.conds["ArgoAppCreated"].status = "True"
        /\ \A x \in AllConds \ {"ArgoAppCreated"} :
              w'.st.conds[x] = w.st.conds[x]
    BY AppFacts
  <1>2. w.pc # "idle" /\ ~w.err
    BY <1>1 DEF OwnershipInv, ReconcileUpToDate
  <1>3. ReconcileUpToDate'
    <2>1. ASSUME NEW c, NEW s, w'.pc # "idle", w'.key = c, w'.copy = s,
                 QuietNext(c)
          PROVE  /\ Claim(c)' = s
                 /\ ~w'.err => /\ \A k \in Passed[w'.pc] : ObjectInPlace(c, s, k)'
                               /\ w'.pc = "status" => AppInPlace(c, s)'
      <3>1. c \in Claims /\ c = w.key /\ s = w.copy /\ Kept(c)
        BY <1>1, <2>1 DEF AllKept
      <3>2. /\ Claim(c)' = s
            /\ \A k \in Passed["app"] : ObjectInPlace(c, s, k)'
        BY <1>1, <1>2, <2>1, <3>1, UpToDateKept DEF OwnershipInv
      <3>3. Passed["status"] = Passed["app"]
        BY DEF Passed
      <3>4. ~w'.err => AppInPlace(c, s)'
        BY <1>1, <2>1 DEF AppInPlace
      <3>. QED  BY <1>1, <3>2, <3>3, <3>4
    <2>. QED  BY <1>1, <2>1, UpToDateNamed
  <1>4. QuietInPlace'
    BY <1>1, QuietKept, QuietNamed DEF OwnershipInv, AllKept
  <1>5. PassedConditions'
    <2>1. /\ w.st.conds["NamespaceReady"].status = "True"
          /\ w.st.conds["RBACReady"].status = "True"
          /\ w.st.conds["QuotaApplied"].status = "True"
      BY <1>1, <1>2 DEF OwnershipInv, PassedConditions, Passed, StepCond
    <2>2. \A k \in Passed["status"] : w'.st.conds[StepCond[k]].status = "True"
      BY <1>1, <2>1 DEF Passed, StepCond, AllConds, StepConds
    <2>. QED  BY <1>1, <2>2 DEF PassedConditions
  <1>. QED  BY <1>3, <1>4, <1>5 DEF OwnershipInv

\* The status of a reconcile that has passed every step is Ready.
LEMMA ReadyAtTheEnd ==
    ASSUME OwnershipTypeOK, PassedConditions, w.pc = "status", ~w.err
    PROVE  LET st == aggregateReady(w.st, w.copy.gen)
           IN  /\ st.og = w.copy.gen /\ st.phase = "Ready"
               /\ st.conds["Ready"].status = "True"
  <1>1. \A k \in StepConds : w.st.conds[k].status = "True"
    BY DEF PassedConditions, Passed, StepCond, StepConds
  <1>2. w.st \in ClaimStatus /\ w.copy.gen \in Nat
    BY WorkerFacts
  <1>. QED  BY <1>1, <1>2, AggregateReadyFacts

\* The end of a reconcile.  If nobody will look at its claim again, nothing
\* failed, the status was already what the reconcile found, and so is everything
\* else.
LEMMA PatchInv ==
    ASSUME OwnershipTypeOK, OwnershipInv, NEW out, patchStatus(out)
    PROVE  OwnershipInv'
  <1>1. /\ AllKept /\ w.key \in Claims /\ w.pc = "status" /\ w' = Idle
        /\ w.key \notin queue' /\ Len(claimLog'[w.key]) = 1 =>
              /\ ~w.err
              /\ Claim(w.key) = w.copy =>
                    w.copy.status = aggregateReady(w.st, w.copy.gen)
    BY PatchFacts
  <1>2. QuietInPlace'
    <2>1. ASSUME NEW c \in Claims, NEW s, QuietNext(c), Claim(c)' = s, s.live
          PROVE  /\ ReadyForGeneration(s)
                 /\ \A k \in TeamKinds : ObjectInPlace(c, s, k)'
                 /\ AppInPlace(c, s)'
      <3>1. CASE c # w.key
        BY <1>1, <2>1, <3>1, QuietKept DEF OwnershipInv, AllKept
      <3>2. CASE c = w.key
        <4>1. ~w.err
          BY <1>1, <2>1, <3>2 DEF QuietNext
        <4>2. /\ Claim(c) = w.copy /\ s = w.copy
              /\ \A k \in Passed["status"] : ObjectInPlace(c, s, k)'
              /\ AppInPlace(c, s)'
          BY <1>1, <2>1, <3>2, <4>1, UpToDateKept DEF OwnershipInv, AllKept
        <4>3. Passed["status"] = TeamKinds
          BY DEF Passed, TeamKinds
        <4>4. w.copy.status = aggregateReady(w.st, w.copy.gen)
          BY <1>1, <2>1, <3>2, <4>2 DEF QuietNext
        <4>5. ReadyForGeneration(s)
          BY <1>1, <4>1, <4>2, <4>4, ReadyAtTheEnd
          DEF OwnershipInv, ReadyForGeneration
        <4>. QED  BY <4>2, <4>3, <4>5
      <3>. QED  BY <3>1, <3>2
    <2>. QED  BY <2>1, QuietNamed
  <1>. QED  BY <1>1, <1>2, IdleInv DEF OwnershipInv

LEMMA InvStep ==
    ASSUME OwnershipTypeOK, OwnershipInv, [OwnershipNext]_ownershipVars
    PROVE  OwnershipInv'
  <1>1. CASE UNCHANGED ownershipVars
    <2>1. UNCHANGED <<claimLog, objLog, app, appEvents, queue, w>>
      BY <1>1 DEF ownershipVars
    <2>2. AllKept
      BY <2>1, SameClaims, SameApps, SameObjects DEF AllKept, Kept
    <2>. QED  BY <2>1, <2>2, OutsideInv
  <1>2. CASE Outside
    BY <1>2, OutsideFacts, OutsideInv
  <1>3. ASSUME NEW out, ReconcileStep(out)  PROVE OwnershipInv'
    BY <1>3, StepCases, EnsureInv, NoQuotaInv, AppInv, PatchInv
  <1>. QED  BY <1>1, <1>2, <1>3, NextCases, ReconcileInv, RestartInv

\* The inductive invariant of the reconstructed reconciler, for any teams and
\* claims and any number of edits, recreations, deletions by hand, failed calls,
\* restarts and late events: a reconcile or a Ready status that nothing queued
\* or under way will have looked at again is right.
THEOREM OwnershipInvariant == OwnershipSpec => [](OwnershipTypeOK /\ OwnershipInv)
  <1>1. OwnershipInit => OwnershipTypeOK /\ OwnershipInv
    BY TypeInit, InvInit
  <1>2. OwnershipTypeOK /\ OwnershipInv /\ [OwnershipNext]_ownershipVars
        => (OwnershipTypeOK /\ OwnershipInv)'
    BY TypeStep, InvStep
  <1>. QED  BY <1>1, <1>2, PTL DEF OwnershipSpec

\* Every variable keeps its type: the watches queue claims only, and a write
\* goes to the team of a claim that was live.
THEOREM OwnershipTypes == OwnershipSpec => []OwnershipTypeOK
  BY OwnershipInvariant, PTL

\* A claim that is not in work, not queued and not about to be queued by an event
\* under way is Ready for its present spec and has all it asked for, or waits for
\* the end of its namespace: no stale Ready of aggregateReady and no write that
\* CreateOrUpdate left out on an old cached object stays unnoticed, and no
\* refused claim is forgotten.
THEOREM UnattendedIsInPlace == OwnershipSpec => []UnattendedMeansInPlace
  <1>1. OwnershipTypeOK /\ OwnershipInv => UnattendedMeansInPlace
    <2>. SUFFICES ASSUME OwnershipTypeOK, OwnershipInv, NEW c \in Claims,
                         Claim(c).live, Quiet(c), w.key # c
                  PROVE  /\ ReadyForGeneration(Claim(c))
                         /\ ~Obj(Claim(c).team, "Namespace").del => InPlace(c)
      BY DEF UnattendedMeansInPlace
    <2>1. /\ ReadyForGeneration(Claim(c))
          /\ \A k \in TeamKinds : ObjectInPlace(c, Claim(c), k)
          /\ AppInPlace(c, Claim(c))
      BY DEF OwnershipInv, QuietInPlace
    <2>2. /\ ObjectInPlace(c, Claim(c), "Namespace")
          /\ ObjectInPlace(c, Claim(c), "RoleBinding")
          /\ ObjectInPlace(c, Claim(c), "ResourceQuota")
      BY <2>1 DEF TeamKinds
    <2>3. \A k \in {"Namespace", "RoleBinding"} :
             /\ Obj(Claim(c).team, k).live
             /\ Obj(Claim(c).team, k).owner = [name |-> c, uid |-> Claim(c).uid]
      BY <2>2 DEF ObjectInPlace
    <2>4. LET hard == declaredHard(Claim(c).res)
          IN  hard # NoHard =>
                /\ Obj(Claim(c).team, "ResourceQuota").owner
                       = [name |-> c, uid |-> Claim(c).uid]
                /\ Obj(Claim(c).team, "ResourceQuota").hard = hard
      BY <2>2 DEF ObjectInPlace
    <2>5. app[c].live /\ app[c].owner = [name |-> c, uid |-> Claim(c).uid]
          /\ app[c].dest = Claim(c).team
      BY <2>1 DEF AppInPlace
    <2>. QED  BY <2>1, <2>3, <2>4, <2>5 DEF InPlace, TeamNamespaceUsable
  <1>. QED  BY <1>1, OwnershipInvariant, PTL

-----------------------------------------------------------------------------
(* A cached namespace is behind within one life of the namespace *)

LEMMA AppendFacts ==
    ASSUME NEW S, NEW log \in Seq(S), NEW v \in S
    PROVE  LET new == Append(log, v)
           IN  /\ Len(new) = Len(log) + 1
               /\ \A i \in 1..Len(log) : new[i] = log[i]
               /\ new[Len(log) + 1] = v
  OBVIOUS

LEMMA OneLifeSingle ==
    ASSUME NEW v
    PROVE  OneLife(<<v>>)
  BY DEF OneLife

LEMMA OneLifeOwner ==
    ASSUME NEW log \in Seq(TeamObject), Len(log) \in Lengths, OneLife(log),
           Cached(log).live, Stored(log).live
    PROVE  Cached(log).owner.name = Stored(log).owner.name
  BY LogEnds DEF OneLife, Cached, Stored

\* Written to while it is there: its owner stays.
LEMMA OneLifeChanged ==
    ASSUME NEW log \in Seq(TeamObject), Len(log) \in Lengths, OneLife(log),
           NEW n \in TeamObject, Stored(log).live, n.live,
           n.owner.name = Stored(log).owner.name
    PROVE  OneLife(Append(log, n))
  <1>. DEFINE new == Append(log, n)
              last == Len(log)
  <1>1. /\ last \in Nat /\ last >= 1 /\ Stored(log) = log[last]
        /\ Len(new) = last + 1
        /\ \A i \in 1..last : new[i] = log[i]
        /\ new[last + 1] = n
    BY LogEnds DEF Stored
  <1>2. \A i \in 1..Len(new) :
           new[i].live => new[i].owner.name = Stored(log).owner.name
    <2>. SUFFICES ASSUME NEW i \in 1..Len(new), new[i].live
                  PROVE  new[i].owner.name = Stored(log).owner.name
      OBVIOUS
    <2>1. CASE i = last + 1
      BY <1>1, <2>1
    <2>2. CASE i \in 1..last
      <3>1. new[i] = log[i] /\ log[i].live /\ last \in 1..last /\ log[last].live
        BY <1>1, <2>2
      <3>. QED  BY <1>1, <2>2, <3>1 DEF OneLife
    <2>. QED  BY <1>1, <2>1, <2>2
  <1>3. \A i \in 2..Len(new) : new[i].live
    <2>. SUFFICES ASSUME NEW i \in 2..Len(new), ~new[i].live
                  PROVE  FALSE
      OBVIOUS
    <2>1. i \in 2..last /\ ~log[i].live
      BY <1>1
    <2>2. last = 2
      BY <2>1 DEF OneLife
    <2>. QED  BY <1>1, <2>1, <2>2
  <1>. QED  BY <1>2, <1>3 DEF OneLife

\* Created, or gone for good, when the cache is up to date.
LEMMA OneLifeEnds ==
    ASSUME NEW log \in Seq(TeamObject), Len(log) \in Lengths, Len(log) = 1,
           NEW n \in TeamObject, Stored(log).live # n.live
    PROVE  OneLife(Append(log, n))
  <1>. DEFINE new == Append(log, n)
  <1>1. Len(new) = 2 /\ new[1] = log[1] /\ new[2] = n /\ Stored(log) = log[1]
    <2>1. 1 \in 1..Len(log) /\ Len(log) + 1 = 2
      OBVIOUS
    <2>2. /\ Len(new) = Len(log) + 1
          /\ \A i \in 1..Len(log) : new[i] = log[i]
          /\ new[Len(log) + 1] = n
      BY AppendFacts
    <2>. HIDE DEF new
    <2>. QED  BY <2>1, <2>2 DEF Stored
  <1>2. \A i \in 1..Len(new) : i = 1 \/ i = 2
    BY <1>1
  <1>3. \A i \in 2..Len(new) : i = 2
    BY <1>1
  <1>4. log[1] \in TeamObject
    BY LogEnds DEF Cached
  <1>5. log[1].live \in BOOLEAN /\ n.live \in BOOLEAN
    BY <1>4, ObjectParts
  <1>6. ~(new[1].live /\ new[2].live)
    BY <1>1, <1>5
  <1>7. ~new[2].live => new[1].live
    BY <1>1, <1>5
  <1>8. \A i, j \in 1..Len(new) :
           new[i].live /\ new[j].live => new[i].owner.name = new[j].owner.name
    BY <1>2, <1>6
  <1>. QED  BY <1>1, <1>3, <1>7, <1>8 DEF OneLife

LEMMA OneLifeTail ==
    ASSUME NEW log \in Seq(TeamObject), Len(log) \in Lengths, Len(log) > 1,
           OneLife(log)
    PROVE  OneLife(Tail(log))
  <1>. DEFINE new == Tail(log)
  <1>1. /\ Len(log) \in Nat /\ Len(new) = Len(log) - 1
        /\ \A i \in 1..Len(new) : new[i] = log[i + 1]
    BY TailFacts, LogEnds
  <1>2. \A i, j \in 1..Len(new) :
           new[i].live /\ new[j].live => new[i].owner.name = new[j].owner.name
    <2>. SUFFICES ASSUME NEW i \in 1..Len(new), NEW j \in 1..Len(new),
                         new[i].live, new[j].live
                  PROVE  new[i].owner.name = new[j].owner.name
      OBVIOUS
    <2>1. i + 1 \in 1..Len(log) /\ j + 1 \in 1..Len(log)
      BY <1>1
    <2>. QED  BY <1>1, <2>1 DEF OneLife
  <1>3. \A i \in 2..Len(new) : new[i].live
    <2>. SUFFICES ASSUME NEW i \in 2..Len(new), ~new[i].live
                  PROVE  FALSE
      OBVIOUS
    <2>1. i + 1 \in 2..Len(log) /\ i \in 1..Len(new) /\ i + 1 > 2
      BY <1>1
    <2>2. Len(log) = 2
      BY <1>1, <2>1 DEF OneLife
    <2>. QED  BY <1>1, <2>1, <2>2
  <1>. QED  BY <1>2, <1>3 DEF OneLife

-----------------------------------------------------------------------------
(* One owner per namespace *)

\* The invariant after a step, with team, kind and claim named.
LEMMA OneOwnerNamed ==
    ASSUME w'.err => w'.pc = "status",
           \A t \in Teams : OneLife(objLog'[t]["Namespace"]),
           \A t \in Teams, k \in TeamKinds :
              (Obj(t, k)').live =>
                 /\ (Obj(t, "Namespace")').live
                 /\ (Obj(t, k)').owner.name = (Obj(t, "Namespace")').owner.name,
           \A t, c :
              /\ w'.pc \in {"rolebinding", "quota"} /\ ~w'.err
              /\ w'.copy.team = t /\ w'.key = c
              /\ (Obj(t, "Namespace")').live
              => (Obj(t, "Namespace")').owner.name = c
    PROVE  OneOwnerInv'
  <1>1. NamespaceHasOneOwner'
    BY DEF NamespaceHasOneOwner
  <1>2. WorksInOwnNamespace'
    <2>. SUFFICES ASSUME w'.pc \in {"rolebinding", "quota"}, ~w'.err,
                         (Obj(w.copy.team, "Namespace")').live
                  PROVE  (Obj(w.copy.team, "Namespace")').owner.name = w'.key
      BY DEF WorksInOwnNamespace
    <2>1. PICK t, c : t = w'.copy.team /\ c = w'.key
      OBVIOUS
    <2>2. Obj(w.copy.team, "Namespace")' = Obj(t, "Namespace")'
      BY <2>1 DEF Obj
    <2>. QED  BY <2>1, <2>2
  <1>. QED  BY <1>1, <1>2 DEF OneOwnerInv

\* A step that leaves the reconcile alone, and no namespace to another owner.
LEMMA OutsideOwners ==
    ASSUME OneOwnerInv, w' = w,
           \A t \in Teams : OneLife(objLog'[t]["Namespace"]),
           \A t \in Teams, k \in TeamKinds :
              (Obj(t, k)').live =>
                 /\ (Obj(t, "Namespace")').live
                 /\ (Obj(t, k)').owner.name = (Obj(t, "Namespace")').owner.name,
           \A t \in Teams : (Obj(t, "Namespace")').live =>
              /\ Obj(t, "Namespace").live
              /\ (Obj(t, "Namespace")').owner.name
                     = Obj(t, "Namespace").owner.name,
           OwnershipTypeOK
    PROVE  OneOwnerInv'
  <1>1. \A t, c :
           /\ w'.pc \in {"rolebinding", "quota"} /\ ~w'.err
           /\ w'.copy.team = t /\ w'.key = c
           /\ (Obj(t, "Namespace")').live
           => (Obj(t, "Namespace")').owner.name = c
    <2>. SUFFICES ASSUME NEW t, NEW c,
                         w.pc \in {"rolebinding", "quota"}, ~w.err,
                         w.copy.team = t, w.key = c, (Obj(t, "Namespace")').live
                  PROVE  (Obj(t, "Namespace")').owner.name = c
      OBVIOUS
    <2>1. t \in Teams
      BY WorkerFacts
    <2>2. Obj(t, "Namespace").live => Obj(t, "Namespace").owner.name = c
      BY DEF OneOwnerInv, WorksInOwnNamespace
    <2>. QED  BY <2>1, <2>2
  <1>2. w'.err => w'.pc = "status"
    BY DEF OneOwnerInv
  <1>. QED  BY <1>1, <1>2, OneOwnerNamed

\* A step that leaves the objects alone.
LEMMA SameOwners ==
    ASSUME OneOwnerInv, objLog' = objLog, w'.err => w'.pc = "status",
           w'.pc \in {"rolebinding", "quota"} =>
              w.pc \in {"rolebinding", "quota"} /\ w'.err = w.err
              /\ w'.copy = w.copy /\ w'.key = w.key
    PROVE  OneOwnerInv'
  <1>1. \A t, k : Obj(t, k)' = Obj(t, k)
    BY SameObjects
  <1>2. \A t, c :
           /\ w'.pc \in {"rolebinding", "quota"} /\ ~w'.err
           /\ w'.copy.team = t /\ w'.key = c
           /\ (Obj(t, "Namespace")').live
           => (Obj(t, "Namespace")').owner.name = c
    BY <1>1 DEF OneOwnerInv, WorksInOwnNamespace
  <1>3. \A t \in Teams : OneLife(objLog'[t]["Namespace"])
    BY DEF OneOwnerInv
  <1>4. \A t \in Teams, k \in TeamKinds :
           (Obj(t, k)').live =>
              /\ (Obj(t, "Namespace")').live
              /\ (Obj(t, k)').owner.name = (Obj(t, "Namespace")').owner.name
    BY <1>1 DEF OneOwnerInv, NamespaceHasOneOwner
  <1>. QED  BY <1>2, <1>3, <1>4, OneOwnerNamed

LEMMA NamespaceKind == "Namespace" \in TeamKinds
  BY DEF TeamKinds

\* Deleted by hand or collected: a namespace is only marked.
LEMMA RemovedOwners ==
    ASSUME OwnershipTypeOK, OneOwnerInv, NEW t \in Teams, NEW k \in TeamKinds,
           DeleteObjectByHand(t, k) \/ CollectObject(t, k)
    PROVE  OneOwnerInv'
  <1>. DEFINE n == Removal(k, Obj(t, k))
              log == objLog[t][k]
  <1>1. /\ Obj(t, k).live /\ n \in TeamObject /\ PutObject(t, k, n) /\ w' = w
    BY RemovedFacts
  <1>2. /\ log \in Seq(TeamObject) /\ Len(log) \in Lengths
        /\ Obj(t, k) \in TeamObject /\ Stored(log) = Obj(t, k)
    BY ObjFacts DEF Obj
  <1>3. /\ k = "Namespace" => n.live /\ n.owner = Obj(t, k).owner
        /\ k # "Namespace" => n = NoObject
    BY <1>1, <1>2, RemovalFacts
  <1>. HIDE DEF n
  <1>4. /\ Obj(t, k)' = n
        /\ \A tt \in Teams, kk \in TeamKinds :
              tt # t \/ kk # k => /\ objLog'[tt][kk] = objLog[tt][kk]
                                  /\ Obj(tt, kk)' = Obj(tt, kk)
        /\ \/ objLog'[t][k] = log
           \/ objLog'[t][k] = Append(log, n)
           \/ objLog'[t][k] = <<n>>
    BY <1>1, PutObjectFacts
  <1>5. \A tt \in Teams : OneLife(objLog'[tt]["Namespace"])
    <2>. SUFFICES ASSUME NEW tt \in Teams
                  PROVE  OneLife(objLog'[tt]["Namespace"])
      OBVIOUS
    <2>1. OneLife(objLog[tt]["Namespace"])
      BY DEF OneOwnerInv
    <2>2. CASE tt # t \/ k # "Namespace"
      BY <1>4, <2>1, <2>2, NamespaceKind
    <2>3. CASE tt = t /\ k = "Namespace"
      BY <1>1, <1>2, <1>3, <1>4, <2>1, <2>3, OneLifeChanged, OneLifeSingle
    <2>. QED  BY <2>2, <2>3
  <1>6. \A tt \in Teams : /\ (Obj(tt, "Namespace")').live
                                = Obj(tt, "Namespace").live
                          /\ (Obj(tt, "Namespace")').owner.name
                                = Obj(tt, "Namespace").owner.name
    <2>1. CASE k = "Namespace"
      <3>1. n.live /\ Obj(t, k).live /\ n.owner.name = Obj(t, k).owner.name
        BY <1>1, <1>3, <2>1
      <3>2. n.live = Obj(t, k).live
        BY <1>1, <1>2, <3>1, ObjectParts
      <3>. QED  BY <1>4, <2>1, <3>1, <3>2
    <2>2. CASE k # "Namespace"
      BY <1>4, <2>2, NamespaceKind
    <2>. QED  BY <2>1, <2>2
  <1>7. \A tt \in Teams, kk \in TeamKinds :
           (Obj(tt, kk)').live =>
              /\ (Obj(tt, "Namespace")').live
              /\ (Obj(tt, kk)').owner.name = (Obj(tt, "Namespace")').owner.name
    <2>. SUFFICES ASSUME NEW tt \in Teams, NEW kk \in TeamKinds,
                         (Obj(tt, kk)').live
                  PROVE  /\ (Obj(tt, "Namespace")').live
                         /\ (Obj(tt, kk)').owner.name
                               = (Obj(tt, "Namespace")').owner.name
      OBVIOUS
    <2>1. Obj(tt, kk).live => /\ Obj(tt, "Namespace").live
                              /\ Obj(tt, kk).owner.name
                                    = Obj(tt, "Namespace").owner.name
      BY DEF OneOwnerInv, NamespaceHasOneOwner
    <2>2. CASE tt = t /\ kk = k
      BY <1>3, <1>4, <2>2, NoObjectType
    <2>3. CASE tt # t \/ kk # k
      BY <1>4, <1>6, <2>1, <2>3
    <2>. QED  BY <2>2, <2>3
  <1>. QED  BY <1>1, <1>5, <1>6, <1>7, OutsideOwners

LEMMA DeliveredOwners ==
    ASSUME OwnershipTypeOK, OneOwnerInv, Deliver
    PROVE  OneOwnerInv'
  <1>1. ASSUME NEW c \in Claims, DeliverClaim(c) \/ DeliverApp(c)
        PROVE  OneOwnerInv'
    <2>1. objLog' = objLog /\ w' = w
      BY <1>1 DEF DeliverClaim, DeliverApp
    <2>. QED  BY <2>1, SameOwners DEF OneOwnerInv
  <1>2. ASSUME NEW t \in Teams, NEW k \in TeamKinds, DeliverObject(t, k)
        PROVE  OneOwnerInv'
    <2>1. /\ \A tt \in Teams, kk \in TeamKinds :
                /\ Obj(tt, kk)' = Obj(tt, kk)
                /\ tt # t \/ kk # k => objLog'[tt][kk] = objLog[tt][kk]
          /\ objLog'[t][k] = Tail(objLog[t][k]) /\ Len(objLog[t][k]) > 1
      BY <1>2, DeliverObjectFacts
    <2>2. w' = w
      BY <1>2 DEF DeliverObject
    <2>3. \A tt \in Teams : OneLife(objLog'[tt]["Namespace"])
      <3>. SUFFICES ASSUME NEW tt \in Teams
                    PROVE  OneLife(objLog'[tt]["Namespace"])
        OBVIOUS
      <3>1. OneLife(objLog[tt]["Namespace"])
        BY DEF OneOwnerInv
      <3>2. CASE tt = t /\ k = "Namespace"
        BY <2>1, <3>1, <3>2, ObjFacts, OneLifeTail
      <3>3. CASE tt # t \/ k # "Namespace"
        BY <2>1, <3>1, <3>3, NamespaceKind
      <3>. QED  BY <3>2, <3>3
    <2>4. \A tt \in Teams, kk \in TeamKinds :
             (Obj(tt, kk)').live =>
                /\ (Obj(tt, "Namespace")').live
                /\ (Obj(tt, kk)').owner.name = (Obj(tt, "Namespace")').owner.name
      BY <2>1, NamespaceKind DEF OneOwnerInv, NamespaceHasOneOwner
    <2>. QED  BY <2>1, <2>2, <2>3, <2>4, NamespaceKind, OutsideOwners
  <1>. QED  BY <1>1, <1>2 DEF Deliver

\* The namespace is removed with all that is in it, when the cache knows that it
\* was terminating.
LEMMA FinishOwners ==
    ASSUME OwnershipTypeOK, OneOwnerInv, "fast_drain" \notin Troubles,
           NEW t \in Teams, FinishNamespace(t)
    PROVE  OneOwnerInv'
  <1>. DEFINE log == objLog[t]["Namespace"]
  <1>1. /\ \A k \in TeamKinds : Obj(t, k)' = NoObject
        /\ \A tt \in Teams, kk \in TeamKinds :
              tt # t => /\ objLog'[tt][kk] = objLog[tt][kk]
                        /\ Obj(tt, kk)' = Obj(tt, kk)
        /\ \A k \in TeamKinds :
              \/ objLog'[t][k] = objLog[t][k]
              \/ objLog'[t][k] = Append(objLog[t][k], NoObject)
              \/ objLog'[t][k] = <<NoObject>>
    BY FinishFacts
  <1>2. w' = w
    BY DEF FinishNamespace
  <1>3. Len(log) = 1 /\ Obj(t, "Namespace").live
    BY DEF FinishNamespace, Trouble
  <1>4. /\ log \in Seq(TeamObject) /\ Len(log) \in Lengths
        /\ Stored(log) = Obj(t, "Namespace")
    BY ObjFacts, NamespaceKind DEF Obj
  <1>5. OneLife(Append(log, NoObject))
    <2>1. Stored(log) \in TeamObject
      BY <1>4, LogEnds
    <2>2. Stored(log).live # NoObject.live
      BY <1>3, <1>4, <2>1, ObjectParts, NoObjectType
    <2>. QED  BY <1>3, <1>4, <2>2, NoObjectType, OneLifeEnds
  <1>6. \A tt \in Teams : OneLife(objLog'[tt]["Namespace"])
    <2>. SUFFICES ASSUME NEW tt \in Teams
                  PROVE  OneLife(objLog'[tt]["Namespace"])
      OBVIOUS
    <2>1. OneLife(objLog[tt]["Namespace"])
      BY DEF OneOwnerInv
    <2>2. CASE tt = t
      BY <1>1, <1>5, <2>1, <2>2, NamespaceKind, OneLifeSingle
    <2>3. CASE tt # t
      BY <1>1, <2>1, <2>3, NamespaceKind
    <2>. QED  BY <2>2, <2>3
  <1>7. \A tt \in Teams, kk \in TeamKinds :
           (Obj(tt, kk)').live =>
              /\ (Obj(tt, "Namespace")').live
              /\ (Obj(tt, kk)').owner.name = (Obj(tt, "Namespace")').owner.name
    BY <1>1, NoObjectType, NamespaceKind DEF OneOwnerInv, NamespaceHasOneOwner
  <1>. QED  BY <1>1, <1>2, <1>6, <1>7, NoObjectType, NamespaceKind, OutsideOwners

\* ensureNamespace writes the namespace: it is new, or was this claim's before.
LEMMA NamespaceOwners ==
    ASSUME OwnershipTypeOK, OneOwnerInv, NEW t \in Teams, NEW c \in Claims,
           NEW n \in TeamObject, n.live, n.owner.name = c,
           PutObject(t, "Namespace", n),
           w'.copy.team = t, w'.key = c, w'.err => w'.pc = "status",
           LET log == objLog[t]["Namespace"]
           IN  \/ /\ Cached(log).live /\ Cached(log).owner.name = c
                  /\ Len(log) = 1
               \/ ~Cached(log).live /\ ~Obj(t, "Namespace").live
    PROVE  OneOwnerInv'
  <1>. DEFINE log == objLog[t]["Namespace"]
              ns == Obj(t, "Namespace")
  <1>1. /\ log \in Seq(TeamObject) /\ Len(log) \in Lengths /\ ns \in TeamObject
        /\ Len(log) \in Nat /\ Len(log) >= 1 /\ Stored(log) = ns
    BY ObjFacts, NamespaceKind DEF Obj
  <1>2. OneLife(log)
    BY DEF OneOwnerInv
  <1>3. Len(log) = 1
    <2>1. ASSUME ~Cached(log).live, ~ns.live, Len(log) # 1  PROVE FALSE
      <3>1. Len(log) \in 2..Len(log) /\ ~log[Len(log)].live
        <4>1. \A m \in Nat : m >= 1 /\ m # 1 => m \in 2..m
          OBVIOUS
        <4>2. log[Len(log)] = ns
          BY <1>1 DEF Stored
        <4>. QED  BY <1>1, <2>1, <4>1, <4>2
      <3>2. log[1].live
        BY <1>2, <3>1 DEF OneLife
      <3>. QED  BY <2>1, <3>2 DEF Cached
    <2>. QED  BY <2>1
  <1>4. ns.live => ns.owner.name = c
    BY <1>1, <1>3, LogEnds
  <1>5. /\ ns' = n
        /\ \A tt \in Teams, kk \in TeamKinds :
              tt # t \/ kk # "Namespace" => /\ objLog'[tt][kk] = objLog[tt][kk]
                                            /\ Obj(tt, kk)' = Obj(tt, kk)
        /\ \/ objLog'[t]["Namespace"] = log
           \/ objLog'[t]["Namespace"] = Append(log, n)
           \/ objLog'[t]["Namespace"] = <<n>>
    BY NamespaceKind, PutObjectFacts
  <1>6. OneLife(Append(log, n))
    <2>1. CASE ns.live
      BY <1>1, <1>2, <1>4, <2>1, OneLifeChanged
    <2>2. CASE ~ns.live
      <3>1. ns.live # n.live
        BY <1>1, <2>2, ObjectParts
      <3>. QED  BY <1>1, <1>3, <3>1, OneLifeEnds
    <2>. QED  BY <2>1, <2>2
  <1>7. \A tt \in Teams : OneLife(objLog'[tt]["Namespace"])
    <2>. SUFFICES ASSUME NEW tt \in Teams
                  PROVE  OneLife(objLog'[tt]["Namespace"])
      OBVIOUS
    <2>1. CASE tt = t
      BY <1>2, <1>5, <1>6, <2>1, OneLifeSingle
    <2>2. CASE tt # t
      BY <1>5, <2>2, NamespaceKind DEF OneOwnerInv
    <2>. QED  BY <2>1, <2>2
  <1>8. \A tt \in Teams, kk \in TeamKinds :
           (Obj(tt, kk)').live =>
              /\ (Obj(tt, "Namespace")').live
              /\ (Obj(tt, kk)').owner.name = (Obj(tt, "Namespace")').owner.name
    <2>. SUFFICES ASSUME NEW tt \in Teams, NEW kk \in TeamKinds,
                         (Obj(tt, kk)').live
                  PROVE  /\ (Obj(tt, "Namespace")').live
                         /\ (Obj(tt, kk)').owner.name
                               = (Obj(tt, "Namespace")').owner.name
      OBVIOUS
    <2>1. Obj(tt, kk).live => /\ Obj(tt, "Namespace").live
                              /\ Obj(tt, kk).owner.name
                                    = Obj(tt, "Namespace").owner.name
      BY DEF OneOwnerInv, NamespaceHasOneOwner
    <2>2. CASE tt = t /\ kk = "Namespace"
      BY <2>2
    <2>3. CASE tt = t /\ kk # "Namespace"
      BY <1>4, <1>5, <2>1, <2>3
    <2>4. CASE tt # t
      BY <1>5, <2>1, <2>4, NamespaceKind
    <2>. QED  BY <2>2, <2>3, <2>4
  <1>9. (ns').owner.name = c
    BY <1>5
  <1>. HIDE DEF ns
  <1>10. \A tt, d :
            /\ w'.pc \in {"rolebinding", "quota"} /\ ~w'.err
            /\ w'.copy.team = tt /\ w'.key = d
            /\ (Obj(tt, "Namespace")').live
            => (Obj(tt, "Namespace")').owner.name = d
    BY <1>9 DEF ns
  <1>. QED  BY <1>7, <1>8, <1>10, OneOwnerNamed

\* A later step writes inside the namespace of its own claim.
LEMMA InsideOwners ==
    ASSUME OwnershipTypeOK, OneOwnerInv, NEW t \in Teams, NEW c \in Claims,
           NEW k \in TeamKinds, k # "Namespace",
           NEW n \in TeamObject, n.owner.name = c,
           PutObject(t, k, n),
           w'.copy.team = t, w'.key = c, w'.err => w'.pc = "status",
           Obj(t, "Namespace").live => Obj(t, "Namespace").owner.name = c,
           Obj(t, k).live \/ TeamNamespaceUsable(t)
    PROVE  OneOwnerInv'
  <1>1. /\ Obj(t, k)' = n
        /\ \A tt \in Teams, kk \in TeamKinds :
              tt # t \/ kk # k => /\ objLog'[tt][kk] = objLog[tt][kk]
                                  /\ Obj(tt, kk)' = Obj(tt, kk)
    BY PutObjectFacts
  <1>2. \A tt \in Teams :
           /\ objLog'[tt]["Namespace"] = objLog[tt]["Namespace"]
           /\ Obj(tt, "Namespace")' = Obj(tt, "Namespace")
    BY <1>1, NamespaceKind
  <1>3. Obj(t, "Namespace").live
    BY DEF TeamNamespaceUsable, OneOwnerInv, NamespaceHasOneOwner
  <1>4. \A tt \in Teams : OneLife(objLog'[tt]["Namespace"])
    BY <1>2 DEF OneOwnerInv
  <1>5. \A tt \in Teams, kk \in TeamKinds :
           (Obj(tt, kk)').live =>
              /\ (Obj(tt, "Namespace")').live
              /\ (Obj(tt, kk)').owner.name = (Obj(tt, "Namespace")').owner.name
    <2>. SUFFICES ASSUME NEW tt \in Teams, NEW kk \in TeamKinds,
                         (Obj(tt, kk)').live
                  PROVE  /\ (Obj(tt, "Namespace")').live
                         /\ (Obj(tt, kk)').owner.name
                               = (Obj(tt, "Namespace")').owner.name
      OBVIOUS
    <2>1. CASE tt = t /\ kk = k
      BY <1>1, <1>2, <1>3, <2>1
    <2>2. CASE tt # t \/ kk # k
      BY <1>1, <1>2, <2>2 DEF OneOwnerInv, NamespaceHasOneOwner
    <2>. QED  BY <2>1, <2>2
  <1>6. \A tt, d :
           /\ w'.pc \in {"rolebinding", "quota"} /\ ~w'.err
           /\ w'.copy.team = tt /\ w'.key = d
           /\ (Obj(tt, "Namespace")').live
           => (Obj(tt, "Namespace")').owner.name = d
    BY <1>2
  <1>. QED  BY <1>4, <1>5, <1>6, OneOwnerNamed

LEMMA EnsureOwners ==
    ASSUME OwnershipTypeOK, OneOwnerInv, NEW out, NEW k, NEW hard, NEW next,
           NEW type \in AllConds, Ensuring(k, hard, next, type),
           CreateOrUpdateTeamObject(out, k, hard, type, next)
    PROVE  OneOwnerInv'
  <1>0. /\ k \in TeamKinds /\ next \in Pcs \ {"idle"} /\ w.pc # "idle"
        /\ hard \in {quotaHard(r) : r \in Resources} \cup {NoHard}
        /\ w.key \in Claims /\ w.copy.team \in Teams
    BY EnsuringTypes
  <1>1. PICK c \in Claims, t \in Teams : c = w.key /\ t = w.copy.team
    BY <1>0
  <1>. DEFINE log == objLog[t][k]
              o == Cached(log)
              n == Mutated(o, hard)
  <1>2. EnsureEffect(t, c, k, hard, type, next)
    BY <1>0, <1>1, EnsureFacts
  <1>3. /\ \/ /\ PutObject(t, k, n)
              /\ \/ o.live /\ o.owner.name = c /\ Len(log) = 1
                 \/ /\ ~o.live /\ ~Obj(t, k).live
                    /\ k = "Namespace" \/ TeamNamespaceUsable(t)
           \/ objLog' = objLog /\ (w'.err \/ n = o)
        /\ w'.copy = w.copy /\ w'.key = c
        /\ w'.pc = IF w'.err THEN "status" ELSE next
        /\ w'.err \in BOOLEAN
    BY <1>2 DEF EnsureEffect, Worker
  <1>4. /\ o \in TeamObject /\ n \in TeamObject /\ n.live /\ n.owner.name = c
        /\ log \in Seq(TeamObject) /\ Len(log) \in Lengths
        /\ Stored(log) = Obj(t, k)
    BY <1>0, <1>1, ObjFacts, MutatedFacts DEF Obj
  <1>5. w.err = FALSE /\ next # "status" /\ w.pc # "status"
    BY WorkerFacts DEF Ensuring, OneOwnerInv
  <1>6. w'.copy.team = t /\ (w'.err => w'.pc = "status")
    BY <1>1, <1>3
  <1>7. k # "Namespace" =>
           /\ w.pc \in {"rolebinding", "quota"}
           /\ Obj(t, "Namespace").live => Obj(t, "Namespace").owner.name = c
    BY <1>1, <1>5 DEF Ensuring, OneOwnerInv, WorksInOwnNamespace
  <1>. HIDE DEF n
  <1>8. CASE /\ PutObject(t, k, n)
             /\ \/ o.live /\ o.owner.name = c /\ Len(log) = 1
                \/ /\ ~o.live /\ ~Obj(t, k).live
                   /\ k = "Namespace" \/ TeamNamespaceUsable(t)
    <2>1. CASE k = "Namespace"
      BY <1>3, <1>4, <1>6, <1>8, <2>1, NamespaceOwners
    <2>2. CASE k # "Namespace"
      <3>1. Obj(t, k).live \/ TeamNamespaceUsable(t)
        BY <1>4, <1>8, <2>2, LogEnds
      <3>. QED  BY <1>0, <1>3, <1>4, <1>6, <1>7, <1>8, <2>2, <3>1, InsideOwners
    <2>. QED  BY <2>1, <2>2
  <1>9. CASE objLog' = objLog /\ (w'.err \/ n = o)
    <2>1. CASE w'.err
      BY <1>3, <1>6, <1>9, <2>1, SameOwners
    <2>2. CASE ~w'.err /\ k # "Namespace"
      BY <1>1, <1>3, <1>5, <1>6, <1>7, <1>9, <2>2, SameOwners
    <2>3. CASE ~w'.err /\ k = "Namespace"
      <3>1. o.live /\ o.owner.name = c
        BY <1>4, <1>9, <2>3
      <3>2. Obj(t, "Namespace").live => Obj(t, "Namespace").owner.name = c
        BY <1>4, <2>3, <3>1, OneLifeOwner DEF OneOwnerInv
      <3>3. \A tt, kk : Obj(tt, kk)' = Obj(tt, kk)
        BY <1>9, SameObjects
      <3>4. \A tt, d :
               /\ w'.pc \in {"rolebinding", "quota"} /\ ~w'.err
               /\ w'.copy.team = tt /\ w'.key = d
               /\ (Obj(tt, "Namespace")').live
               => (Obj(tt, "Namespace")').owner.name = d
        BY <1>3, <1>6, <3>2, <3>3
      <3>5. \A tt \in Teams : OneLife(objLog'[tt]["Namespace"])
        BY <1>9 DEF OneOwnerInv
      <3>6. \A tt \in Teams, kk \in TeamKinds :
               (Obj(tt, kk)').live =>
                  /\ (Obj(tt, "Namespace")').live
                  /\ (Obj(tt, kk)').owner.name
                        = (Obj(tt, "Namespace")').owner.name
        BY <3>3 DEF OneOwnerInv, NamespaceHasOneOwner
      <3>. QED  BY <1>6, <3>4, <3>5, <3>6, OneOwnerNamed
    <2>. QED  BY <2>1, <2>2, <2>3
  <1>. QED  BY <1>3, <1>8, <1>9

LEMMA RestartOwners ==
    ASSUME OwnershipTypeOK, OneOwnerInv, RestartManager
    PROVE  OneOwnerInv'
  <1>1. /\ w'.pc = "idle" /\ w'.err = FALSE
        /\ \A t \in Teams, k \in TeamKinds :
              objLog'[t][k] = <<Obj(t, k)>> /\ Obj(t, k)' = Obj(t, k)
    BY RestartFacts, IdleType
  <1>2. \A t \in Teams : OneLife(objLog'[t]["Namespace"])
    BY <1>1, NamespaceKind, OneLifeSingle
  <1>3. \A t \in Teams, k \in TeamKinds :
           (Obj(t, k)').live =>
              /\ (Obj(t, "Namespace")').live
              /\ (Obj(t, k)').owner.name = (Obj(t, "Namespace")').owner.name
    BY <1>1, NamespaceKind DEF OneOwnerInv, NamespaceHasOneOwner
  <1>. QED  BY <1>1, <1>2, <1>3, OneOwnerNamed

LEMMA OneOwnerInit == ASSUME OwnershipInit PROVE OneOwnerInv
  <1>1. w.err = FALSE /\ w.pc = "idle"
    BY IdleType DEF OwnershipInit
  <1>2. \A t \in Teams, k \in TeamKinds : objLog[t][k] = <<NoObject>>
    BY DEF OwnershipInit
  <1>3. \A t \in Teams, k \in TeamKinds : Obj(t, k) = NoObject
    BY <1>2, NoObjectType, OneVersion DEF Obj
  <1>4. \A t \in Teams : OneLife(objLog[t]["Namespace"])
    BY <1>2, NamespaceKind, OneLifeSingle
  <1>5. NamespaceHasOneOwner
    BY <1>3, NoObjectType DEF NamespaceHasOneOwner
  <1>. QED  BY <1>1, <1>4, <1>5 DEF OneOwnerInv, WorksInOwnNamespace

LEMMA OneOwnerStep ==
    ASSUME OwnershipTypeOK, OneOwnerInv, "fast_drain" \notin Troubles,
           [OwnershipNext]_ownershipVars
    PROVE  OneOwnerInv'
  <1>0. w.err => w.pc = "status"
    BY DEF OneOwnerInv
  <1>1. CASE UNCHANGED ownershipVars
    BY <1>0, <1>1, SameOwners DEF ownershipVars
  <1>2. CASE Outside
    <2>1. ASSUME objLog' = objLog, w' = w  PROVE OneOwnerInv'
      BY <1>0, <2>1, SameOwners
    <2>. QED  BY <1>2, <2>1, RequestFacts, DeleteFacts, ResyncStep,
                 CollectAppStep, RemovedOwners, FinishOwners, DeliveredOwners
              DEF Outside
  <1>3. ASSUME NEW c \in Claims, Reconcile(c)  PROVE OneOwnerInv'
    <2>1. objLog' = objLog /\ w.pc = "idle"
      BY <1>3, ReconcileFacts
    <2>2. w' = w \/ (w'.pc = "namespace" /\ w'.err = FALSE)
      BY <1>3, ReconcileFacts DEF Reconcile
    <2>. QED  BY <1>0, <2>1, <2>2, SameOwners
  <1>4. ASSUME NEW out, ReconcileStep(out)  PROVE OneOwnerInv'
    <2>1. CASE NoQuota
      BY <2>1, NoQuotaFacts, SameOwners
    <2>2. CASE ensureArgoApplication(out)
      BY <2>2, AppFacts, SameOwners
    <2>3. CASE patchStatus(out)
      BY <2>3, PatchFacts, IdleType, SameOwners
    <2>. QED  BY <1>4, <2>1, <2>2, <2>3, StepCases, EnsureOwners
  <1>. QED  BY <1>1, <1>2, <1>3, <1>4, NextCases, RestartOwners

\* The inductive invariant behind one owner per namespace, for any teams, claims
\* and troubles but the one: no namespace is emptied and removed before the
\* cache has seen its deletion.  With that, a reconcile that found its namespace
\* in an old cache could work in one that another claim has made since.
THEOREM OneOwnerInvariant ==
    ASSUME "fast_drain" \notin Troubles
    PROVE  OwnershipSpec => [](OwnershipTypeOK /\ OneOwnerInv)
  <1>1. OwnershipInit => OwnershipTypeOK /\ OneOwnerInv
    BY TypeInit, OneOwnerInit
  <1>2. OwnershipTypeOK /\ OneOwnerInv /\ [OwnershipNext]_ownershipVars
        => (OwnershipTypeOK /\ OneOwnerInv)'
    BY TypeStep, OneOwnerStep
  <1>. QED  BY <1>1, <1>2, PTL DEF OwnershipSpec

\* The RoleBinding and the quota of a team belong to the claim that owns its
\* namespace: AlreadyOwnedError at the first step keeps every other claim out,
\* though ensureNamespace decides on a cached namespace, as long as none drains
\* before the cache has seen its deletion.
THEOREM OneOwnerPerNamespace ==
    ASSUME "fast_drain" \notin Troubles
    PROVE  OwnershipSpec => []NamespaceHasOneOwner
  <1>1. OneOwnerInv => NamespaceHasOneOwner
    BY DEF OneOwnerInv
  <1>. QED  BY <1>1, OneOwnerInvariant, PTL
=============================================================================
