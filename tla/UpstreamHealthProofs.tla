------------------------ MODULE UpstreamHealthProofs ------------------------
(***************************************************************************)
(* Proofs about UpstreamHealth, for every number of upstreams, load        *)
(* balancers, queries and ping loops.                                      *)
(***************************************************************************)
EXTENDS UpstreamHealth, TLAPS

(* What a process holds at each point of hcRebuildLbsIdx.                  *)
Rebuilds ==
    \A p \in Proc :
        /\ rebuild[p] # "no" => cause[p] \in Upstream
        /\ rebuild[p] = "no" => cause[p] = None
        /\ rebuild[p] \in {"no", "want"} => todo[p] = {}
        /\ rebuild[p] = "building" => building[p] \in Lb /\ idxM[building[p]] = p
        /\ rebuild[p] # "building" =>
            building[p] = None /\ next[p] = 1 /\ seen[p] = <<>>

(* A sampler under construction holds backends that were read already.     *)
SeenWasRead ==
    \A p \in Proc : rebuild[p] = "building" =>
        \A k \in DOMAIN seen[p] :
            \E i \in DOMAIN Backends[building[p]] :
                i < next[p] /\ Backends[building[p]][i] = seen[p][k]

(* Queries and ping loops rebuild only between two exchanges.              *)
Callers ==
    /\ \A q \in Query :
        queryPc[q] # "idle" => target[q] \in Upstream /\ rebuild[q] = "no"
    /\ \A l \in Loop :
        /\ loopPc[l] # "free" => loopOf[l] \in Upstream
        /\ loopPc[l] = "ping" => rebuild[l] = "no"

(* Until the router closes, cancelPingLoop is the live loop of an upstream *)
(* that is offline.                                                        *)
Watched ==
    ~closing =>
        /\ \A u \in Upstream : offline[u] <=> cancelPingLoop[u] # None
        /\ \A u \in Upstream, l \in Loop :
            cancelPingLoop[u] = l <=> Alive(l) /\ loopOf[l] = u

Registered == \A u \in Upstream : \A b \in lbs[u] : Uses(b, u)

(* Process p has yet to take idxM of b for the sake of u.                  *)
WillBuild(p, b, u) ==
    cause[p] = u /\ (rebuild[p] = "want" \/ b \in todo[p] \ {building[p]})

(* The build of p agrees with u's present status so far.                   *)
BuildAgrees(p, b, u) ==
    \A i \in DOMAIN Backends[b] : Backends[b][i] = u =>
        i >= next[p] \/ (offline[u] <=> u \notin {seen[p][k] : k \in DOMAIN seen[p]})

(* A build that read a status which has changed since then will be         *)
(* followed by another one.                                                *)
StaleBuildsFollowed ==
    \A p \in Proc, b \in Lb, u \in Upstream :
        building[p] = b /\ b \in lbs[u] /\ ~BuildAgrees(p, b, u) =>
            \E o \in Proc : WillBuild(o, b, u)

HealthInv ==
    /\ TypeOK /\ Rebuilds /\ SeenWasRead /\ Callers
    /\ Watched /\ Registered /\ StaleBuildsFollowed /\ SamplerSettles

LEMMA InitHealth == Init => HealthInv
<1> SUFFICES ASSUME Init PROVE HealthInv
  OBVIOUS
<1>1. TypeOK
  <2>1. \A b \in Lb : Backends[b] \in Seq(Upstream)
    BY HealthAssumption
  <2>2. sampler \in [Lb -> Seq(Upstream)]
    BY <2>1, HealthAssumption DEF Init
  <2>3. \A p \in Proc : seen[p] = <<>> /\ next[p] = 1 /\ Len(<<>>) = 0 /\ <<>> \in Seq(Upstream)
    BY DEF Init
  <2>4. seen \in [Proc -> Seq(Upstream)] /\ next \in [Proc -> Nat]
    BY DEF Init
  <2>5. \A p \in Proc : Len(seen[p]) < next[p]
    BY <2>3
  <2>6. lbs \in [Upstream -> SUBSET Lb]
    BY DEF Init
  <2> QED
    BY <2>2, <2>4, <2>5, <2>6 DEF Init, TypeOK
<1>2. Rebuilds /\ SeenWasRead /\ Callers
  BY DEF Init, Rebuilds, SeenWasRead, Callers
<1>3. Watched
  BY HealthAssumption DEF Init, Watched, Alive
<1>4. Registered
  BY DEF Init, Registered
<1>5. StaleBuildsFollowed
  BY HealthAssumption DEF Init, StaleBuildsFollowed
<1>6. SamplerSettles
  BY DEF Init, SamplerSettles, Online, Uses
<1> QED
  BY <1>1, <1>2, <1>3, <1>4, <1>5, <1>6 DEF HealthInv

-----------------------------------------------------------------------------
(* The two ends of an exchange.                                            *)

(* hcSucceed: in the process p that was not rebuilding.                    *)
SucceedsIn(p, u) ==
    /\ p \in Proc /\ u \in Upstream
    /\ HcSucceed(p, u) /\ rebuild[p] = "no"
    /\ UNCHANGED <<buildVars, lockVars, sampler, closeVars>>

LEMMA Succeeded ==
    ASSUME HealthInv, NEW p, NEW u, SucceedsIn(p, u)
    PROVE  /\ p \in Proc /\ u \in Upstream
           /\ offline' = [offline EXCEPT ![u] = FALSE]
           /\ \/ ~offline[u] /\ rebuild' = rebuild /\ cause' = cause
              \/ /\ offline[u]
                 /\ rebuild' = [rebuild EXCEPT ![p] = "want"]
                 /\ cause' = [cause EXCEPT ![p] = u]
BY DEF SucceedsIn, HcSucceed, WantsRebuild

LEMMA QueryEnds ==
    ASSUME HealthInv, NEW q \in Query, QuerySucceeds(q)
    PROVE  /\ UNCHANGED <<loopPc, loopOf>>
           /\ \/ UNCHANGED <<statusVars, cancelled, rebuildVars, closeVars>>
              \/ SucceedsIn(q, target[q])
<1>1. queryPc[q] = "asked" /\ q \in Proc
  BY DEF QuerySucceeds, Proc
<1>2. target[q] \in Upstream /\ rebuild[q] = "no"
  BY <1>1 DEF HealthInv, Callers
<1> QED
  BY <1>1, <1>2 DEF QuerySucceeds, SucceedsIn, rebuildVars

LEMMA PingEnds ==
    ASSUME HealthInv, NEW l \in Loop, PingSucceeds(l)
    PROVE  SucceedsIn(l, loopOf[l])
<1>1. loopPc[l] = "ping" /\ l \in Proc
  BY DEF PingSucceeds, Proc
<1>2. loopOf[l] \in Upstream /\ rebuild[l] = "no"
  BY <1>1 DEF HealthInv, Callers
<1> QED
  BY <1>1, <1>2 DEF PingSucceeds, SucceedsIn

(* hcFailed: l is the loop it starts when u goes offline.                  *)
LEMMA QueryFailed ==
    ASSUME HealthInv, NEW q \in Query, QueryFails(q)
    PROVE  /\ UNCHANGED <<buildVars, lockVars, sampler, closeVars>>
           /\ \/ UNCHANGED <<offline, cancelPingLoop, loopVars, rebuild, cause>>
              \/ \E u \in Upstream, l \in Loop :
                    /\ ~offline[u] /\ loopPc[l] = "free" /\ rebuild[l] = "no"
                    /\ \A v \in Upstream : cancelPingLoop[v] # l
                    /\ offline' = [offline EXCEPT ![u] = TRUE]
                    /\ cancelPingLoop' = [cancelPingLoop EXCEPT ![u] = l]
                    /\ loopPc' = [loopPc EXCEPT ![l] = "select"]
                    /\ loopOf' = [loopOf EXCEPT ![l] = u]
                    /\ cancelled' = [cancelled EXCEPT ![l] = FALSE]
                    /\ rebuild' = [rebuild EXCEPT ![l] = "want"]
                    /\ cause' = [cause EXCEPT ![l] = u]
<1>1. target[q] \in Upstream
  BY DEF QueryFails, HealthInv, Callers
<1>2. CASE HcEnabled(target[q]) /\ FallsOffline(target[q])
  BY <1>1, <1>2 DEF QueryFails, HcFailed, FallsOffline
<1>3. CASE ~(HcEnabled(target[q]) /\ FallsOffline(target[q]))
  BY <1>3 DEF QueryFails, HcFailed, statusVars
<1> QED
  BY <1>2, <1>3

-----------------------------------------------------------------------------
LEMMA HealthTypes ==
    ASSUME HealthInv, [Next]_vars
    PROVE  TypeOK'
<1> USE DEF HealthInv
<1> DEFINE LoopsTyped ==
      /\ offline \in [Upstream -> BOOLEAN]
      /\ cancelPingLoop \in [Upstream -> Loop \cup {None}]
      /\ loopPc \in [Loop -> {"free", "select", "ping"}]
      /\ loopOf \in [Loop -> Upstream \cup {None}]
      /\ cancelled \in [Loop -> BOOLEAN]
    RebuildsTyped ==
      /\ rebuild \in [Proc -> {"no", "want", "locked", "building"}]
      /\ cause \in [Proc -> Upstream \cup {None}]
    BuildsTyped ==
      /\ lbsLock \in [Upstream -> Proc \cup {None}]
      /\ idxM \in [Lb -> Proc \cup {None}]
      /\ sampler \in [Lb -> Seq(Upstream)]
      /\ todo \in [Proc -> SUBSET Lb]
      /\ building \in [Proc -> Lb \cup {None}]
      /\ next \in [Proc -> Nat]
      /\ seen \in [Proc -> Seq(Upstream)]
      /\ \A p \in Proc : Len(seen[p]) < next[p]
<1>1. LoopsTyped /\ RebuildsTyped /\ BuildsTyped
  BY DEF TypeOK
<1>2. ASSUME NEW p, NEW u, SucceedsIn(p, u)
      PROVE  /\ offline' \in [Upstream -> BOOLEAN]
             /\ cancelPingLoop' \in [Upstream -> Loop \cup {None}]
             /\ cancelled' \in [Loop -> BOOLEAN]
             /\ RebuildsTyped' /\ BuildsTyped'
  <2>1. RebuildsTyped'
    <3>1. /\ p \in Proc /\ u \in Upstream
          /\ rebuild' = rebuild \/ rebuild' = [rebuild EXCEPT ![p] = "want"]
          /\ cause' = cause \/ cause' = [cause EXCEPT ![p] = u]
      BY <1>2, Succeeded
    <3>2. rebuild' \in [Proc -> {"no", "want", "locked", "building"}]
      BY <1>1, <3>1
    <3>3. cause' \in [Proc -> Upstream \cup {None}]
      BY <1>1, <3>1
    <3> QED
      BY <3>2, <3>3
  <2>2. BuildsTyped'
    BY <1>1, <1>2 DEF SucceedsIn, buildVars, lockVars
  <2> QED
    BY <1>1, <1>2, <2>1, <2>2 DEF SucceedsIn, HcSucceed, StopPings
<1>3. ASSUME NEW q \in Query, QuerySucceeds(q)
      PROVE  LoopsTyped' /\ RebuildsTyped' /\ BuildsTyped'
  <2>1. CASE SucceedsIn(q, target[q])
    BY <1>1, <1>2, <1>3, <2>1, QueryEnds
  <2>2. CASE UNCHANGED <<statusVars, cancelled, rebuildVars, closeVars>>
    BY <1>1, <1>3, <2>2, QueryEnds DEF statusVars, rebuildVars, buildVars, lockVars
  <2> QED
    BY <1>3, <2>1, <2>2, QueryEnds
<1>4. ASSUME NEW l \in Loop, PingSucceeds(l)
      PROVE  LoopsTyped' /\ RebuildsTyped' /\ BuildsTyped'
  <2>1. loopPc' \in [Loop -> {"free", "select", "ping"}] /\ loopOf' \in [Loop -> Upstream \cup {None}]
    BY <1>1, <1>4 DEF PingSucceeds
  <2> QED
    BY <1>2, <1>4, <2>1, PingEnds
<1>5. ASSUME NEW q \in Query, QueryFails(q)
      PROVE  LoopsTyped' /\ RebuildsTyped' /\ BuildsTyped'
  <2>1. BuildsTyped'
    BY <1>1, <1>5, QueryFailed DEF buildVars, lockVars
  <2>2. CASE UNCHANGED <<offline, cancelPingLoop, loopVars, rebuild, cause>>
    BY <1>1, <2>1, <2>2 DEF loopVars
  <2>3. CASE ~UNCHANGED <<offline, cancelPingLoop, loopVars, rebuild, cause>>
    <3>1. PICK u \in Upstream, l \in Loop :
            /\ offline' = [offline EXCEPT ![u] = TRUE]
            /\ cancelPingLoop' = [cancelPingLoop EXCEPT ![u] = l]
            /\ loopPc' = [loopPc EXCEPT ![l] = "select"]
            /\ loopOf' = [loopOf EXCEPT ![l] = u]
            /\ cancelled' = [cancelled EXCEPT ![l] = FALSE]
            /\ rebuild' = [rebuild EXCEPT ![l] = "want"]
            /\ cause' = [cause EXCEPT ![l] = u]
      BY <1>5, <2>3, QueryFailed
    <3>2. LoopsTyped'
      BY <1>1, <3>1
    <3>3. RebuildsTyped'
      BY <1>1, <3>1 DEF Proc
    <3> QED
      BY <2>1, <3>2, <3>3
  <2> QED
    BY <2>2, <2>3
<1>6. ASSUME NEW q \in Query, Route(q) \/ NoBackend(q) \/ Refuse(q) \/ Ask(q)
      PROVE  LoopsTyped' /\ RebuildsTyped' /\ BuildsTyped'
  <2>1. UNCHANGED <<statusVars, loopOf, cancelled, rebuildVars>>
    BY <1>6 DEF Route, NoBackend, Refuse, Ask, loopVars
  <2>2. loopPc' \in [Loop -> {"free", "select", "ping"}]
    BY <1>1, <1>6 DEF Route, NoBackend, Refuse, Ask, TryStartPing, loopVars
  <2> QED
    BY <1>1, <2>1, <2>2 DEF statusVars, rebuildVars, buildVars, lockVars
<1>7. ASSUME NEW l \in Loop, StartPing(l) \/ LoopCancelled(l) \/ PingFails(l)
      PROVE  LoopsTyped' /\ RebuildsTyped' /\ BuildsTyped'
  <2>1. UNCHANGED <<statusVars, cancelled, rebuildVars>>
    BY <1>7 DEF StartPing, LoopCancelled, PingFails
  <2>2. loopPc' \in [Loop -> {"free", "select", "ping"}] /\ loopOf' \in [Loop -> Upstream \cup {None}]
    BY <1>1, <1>7 DEF StartPing, LoopCancelled, PingFails
  <2> QED
    BY <1>1, <2>1, <2>2 DEF statusVars, rebuildVars, buildVars, lockVars
<1>8. ASSUME NEW p \in Proc, RebuildStep(p)
      PROVE  LoopsTyped' /\ RebuildsTyped' /\ BuildsTyped'
  <2>1. LoopsTyped'
    BY <1>1, <1>8 DEF RebuildStep, LockLbs, BuildStart, BuildRead, BuildStore, statusVars,
                      loopVars
  <2>2. RebuildsTyped'
    <3>1. CASE LockLbs(p)
      BY <1>1, <3>1 DEF LockLbs
    <3>2. CASE BuildStart(p) \/ BuildRead(p)
      BY <1>1, <3>2 DEF BuildStart, BuildRead
    <3>3. CASE BuildStore(p)
      BY <1>1, <3>3 DEF BuildStore
    <3> QED
      BY <1>8, <3>1, <3>2, <3>3 DEF RebuildStep
  <2>3. CASE LockLbs(p)
    <3>1. cause[p] \in Upstream
      BY <2>3 DEF LockLbs, Rebuilds
    <3>2. lbs[cause[p]] \in SUBSET Lb
      BY <3>1 DEF TypeOK
    <3>3. todo' \in [Proc -> SUBSET Lb] /\ lbsLock' \in [Upstream -> Proc \cup {None}]
      BY <1>1, <2>3, <3>1, <3>2 DEF LockLbs
    <3>4. UNCHANGED <<building, next, seen, idxM, sampler>>
      BY <2>3 DEF LockLbs
    <3> QED
      BY <1>1, <2>1, <2>2, <3>3, <3>4
  <2>4. CASE BuildStart(p)
    BY <1>1, <2>1, <2>2, <2>4 DEF BuildStart, lockVars
  <2>5. CASE BuildRead(p)
    <3>1. building[p] \in Lb
      BY <2>5 DEF BuildRead, Rebuilds
    <3>2. Backends[building[p]] \in Seq(Upstream) /\ next[p] \in 1..Len(Backends[building[p]])
      BY <1>1, <2>5, <3>1, HealthAssumption DEF BuildRead
    <3>3. PICK u \in Upstream : u = Backends[building[p]][next[p]]
      BY <3>2
    <3>4. seen' = seen \/ seen' = [seen EXCEPT ![p] = Append(@, u)]
      BY <2>5, <3>3 DEF BuildRead
    <3>5. /\ Append(seen[p], u) \in Seq(Upstream)
          /\ Len(Append(seen[p], u)) = Len(seen[p]) + 1
      BY <1>1
    <3>6. seen' \in [Proc -> Seq(Upstream)]
      BY <1>1, <3>4, <3>5
    <3>7. next' = [next EXCEPT ![p] = @ + 1] /\ next' \in [Proc -> Nat]
      BY <1>1, <2>5 DEF BuildRead
    <3>8. \A o \in Proc : Len(seen'[o]) < next'[o]
      <4> TAKE o \in Proc
      <4>1. Len(seen[o]) < next[o] /\ Len(seen[o]) \in Nat /\ next[o] \in Nat
        BY <1>1
      <4>2. CASE o = p
        BY <1>1, <3>4, <3>5, <3>7, <4>1, <4>2
      <4>3. CASE o # p
        BY <1>1, <3>4, <3>7, <4>1, <4>3
      <4> QED
        BY <4>2, <4>3
    <3> QED
      BY <1>1, <2>1, <2>2, <2>5, <3>6, <3>7, <3>8 DEF BuildRead, lockVars
  <2>6. CASE BuildStore(p)
    <3>1. <<>> \in Seq(Upstream) /\ Len(<<>>) < 1
      OBVIOUS
    <3>2. seen' = [seen EXCEPT ![p] = <<>>] /\ next' = [next EXCEPT ![p] = 1]
      BY <2>6 DEF BuildStore, NewSampler
    <3>3. \A o \in Proc : Len(seen'[o]) < next'[o]
      BY <1>1, <3>1, <3>2
    <3>4. seen' \in [Proc -> Seq(Upstream)] /\ next' \in [Proc -> Nat]
      BY <1>1, <3>1, <3>2
    <3>5. sampler' \in [Lb -> Seq(Upstream)] /\ todo' \in [Proc -> SUBSET Lb]
      BY <1>1, <2>6 DEF BuildStore
    <3>6. /\ idxM' \in [Lb -> Proc \cup {None}] /\ building' \in [Proc -> Lb \cup {None}]
          /\ lbsLock' \in [Upstream -> Proc \cup {None}]
      BY <1>1, <2>6 DEF BuildStore
    <3> QED
      BY <2>1, <2>2, <3>3, <3>4, <3>5, <3>6
  <2> QED
    BY <1>8, <2>3, <2>4, <2>5, <2>6 DEF RebuildStep
<1>9. ASSUME \/ Cancel \/ (\E u \in Upstream : CloseUpstream(u))
             \/ (\E b \in Lb, u \in Upstream : UnRegLb(b, u)) \/ UNCHANGED vars
      PROVE  LoopsTyped' /\ RebuildsTyped' /\ BuildsTyped'
  <2>1. UNCHANGED <<statusVars, loopVars, rebuildVars>>
    BY <1>9 DEF Cancel, CloseUpstream, UnRegLb, vars
  <2> QED
    BY <1>1, <2>1 DEF statusVars, loopVars, rebuildVars, buildVars, lockVars
<1>10. LoopsTyped' /\ RebuildsTyped' /\ BuildsTyped'
  BY <1>3, <1>4, <1>5, <1>6, <1>7, <1>8, <1>9 DEF Next, QueryStep, LoopStep
<1>11. continuousErr' \in [Upstream -> Nat]
  <2>1. \A u \in Upstream : Failures(u) \in Nat
    BY HealthAssumption DEF Failures, TypeOK
  <2> QED
    BY <2>1 DEF Next, QueryStep, LoopStep, RebuildStep, Route, NoBackend, Refuse, Ask,
                QuerySucceeds, HcSucceed, QueryFails, HcFailed, StartPing, LoopCancelled,
                PingSucceeds, PingFails, LockLbs, BuildStart, BuildRead, BuildStore, Cancel,
                CloseUpstream, UnRegLb, statusVars, vars, TypeOK
<1>12. ASSUME NEW q \in Query, QueryStep(q)
       PROVE  /\ queryPc' \in [Query -> {"idle", "routed", "asked"}]
              /\ target' \in [Query -> Upstream \cup {None}]
  <2>1. \A b \in Lb : Online(b) \subseteq Upstream
    BY <1>1 DEF Online
  <2>2. \/ UNCHANGED queryPc
        \/ \E s \in {"idle", "routed", "asked"} : queryPc' = [queryPc EXCEPT ![q] = s]
    BY <1>12 DEF QueryStep, Route, NoBackend, Refuse, Ask, QuerySucceeds, QueryFails, queryVars
  <2>3. \/ UNCHANGED target
        \/ \E u \in Upstream \cup {None} : target' = [target EXCEPT ![q] = u]
    BY <1>12, <2>1 DEF QueryStep, Route, NoBackend, Refuse, Ask, QuerySucceeds, QueryFails,
                       queryVars
  <2>4. queryPc' \in [Query -> {"idle", "routed", "asked"}]
    BY <2>2 DEF TypeOK
  <2> QED
    BY <2>3, <2>4 DEF TypeOK
<1>13. ASSUME \A q \in Query : ~QueryStep(q)
       PROVE  /\ queryPc' \in [Query -> {"idle", "routed", "asked"}]
              /\ target' \in [Query -> Upstream \cup {None}]
  <2>1. UNCHANGED queryVars
    BY <1>13 DEF Next, LoopStep, RebuildStep, StartPing, LoopCancelled, PingSucceeds, PingFails,
                 LockLbs, BuildStart, BuildRead, BuildStore, Cancel, CloseUpstream, UnRegLb,
                 vars
  <2> QED
    BY <2>1 DEF queryVars, TypeOK
<1>14. lbs' \in [Upstream -> SUBSET Lb] /\ closing' \in BOOLEAN /\ shut' \subseteq Upstream
  BY DEF Next, QueryStep, LoopStep, RebuildStep, Route, NoBackend, Refuse, Ask, QuerySucceeds,
         QueryFails, StartPing, LoopCancelled, PingSucceeds, PingFails, LockLbs, BuildStart,
         BuildRead, BuildStore, Cancel, CloseUpstream, UnRegLb, closeVars, vars, TypeOK
<1> QED
  BY <1>10, <1>11, <1>12, <1>13, <1>14 DEF TypeOK

-----------------------------------------------------------------------------
(* Who rebuilds, and with what in its hands.                               *)

LEMMA HealthRebuilds ==
    ASSUME HealthInv, [Next]_vars
    PROVE  Rebuilds'
<1> USE DEF HealthInv
<1>1. ASSUME NEW p, NEW u, SucceedsIn(p, u)
      PROVE  Rebuilds'
  <2>1. UNCHANGED <<todo, building, next, seen, idxM>> /\ rebuild[p] = "no"
    BY <1>1 DEF SucceedsIn, buildVars, lockVars
  <2>2. CASE UNCHANGED <<rebuild, cause>>
    BY <2>1, <2>2 DEF Rebuilds
  <2>3. CASE ~UNCHANGED <<rebuild, cause>>
    <3>1. /\ p \in Proc /\ u \in Upstream
          /\ rebuild' = [rebuild EXCEPT ![p] = "want"]
          /\ cause' = [cause EXCEPT ![p] = u]
      BY <1>1, <2>3, Succeeded
    <3> QED
      BY <2>1, <3>1 DEF Rebuilds, TypeOK
  <2> QED
    BY <2>2, <2>3
<1>2. ASSUME NEW q \in Query, QueryFails(q)
      PROVE  Rebuilds'
  <2>1. UNCHANGED <<todo, building, next, seen, idxM>>
    BY <1>2, QueryFailed DEF buildVars, lockVars
  <2>2. CASE UNCHANGED <<rebuild, cause>>
    BY <2>1, <2>2 DEF Rebuilds
  <2>3. CASE ~UNCHANGED <<rebuild, cause>>
    <3>1. PICK u \in Upstream, l \in Loop :
            /\ rebuild[l] = "no"
            /\ rebuild' = [rebuild EXCEPT ![l] = "want"]
            /\ cause' = [cause EXCEPT ![l] = u]
      BY <1>2, <2>3, QueryFailed
    <3> QED
      BY <2>1, <3>1 DEF Rebuilds, TypeOK, Proc
  <2> QED
    BY <2>2, <2>3
<1>3. ASSUME UNCHANGED <<rebuild, cause, buildVars, idxM>>
      PROVE  Rebuilds'
  BY <1>3 DEF Rebuilds, buildVars
<1>4. ASSUME NEW q \in Query, QuerySucceeds(q)
      PROVE  Rebuilds'
  BY <1>1, <1>3, <1>4, QueryEnds DEF rebuildVars, lockVars
<1>5. ASSUME NEW l \in Loop, PingSucceeds(l)
      PROVE  Rebuilds'
  BY <1>1, <1>5, PingEnds
<1>6. ASSUME NEW p \in Proc, LockLbs(p)
      PROVE  Rebuilds'
  BY <1>6, HealthAssumption DEF LockLbs, Rebuilds, TypeOK
<1>7. ASSUME NEW p \in Proc, BuildStart(p)
      PROVE  Rebuilds'
  <2>1. PICK b \in Lb :
          /\ idxM[b] = None
          /\ idxM' = [idxM EXCEPT ![b] = p]
          /\ building' = [building EXCEPT ![p] = b]
    BY <1>7 DEF BuildStart, MayBuild, TypeOK
  <2>2. p # None /\ \A o \in Proc : o # None
    BY HealthAssumption DEF Proc
  <2> QED
    BY <1>7, <2>1, <2>2 DEF BuildStart, Rebuilds, TypeOK
<1>8. ASSUME NEW p \in Proc, BuildRead(p)
      PROVE  Rebuilds'
  <2>1. /\ \A o \in Proc \ {p} : seen'[o] = seen[o] /\ next'[o] = next[o]
        /\ UNCHANGED <<rebuild, cause, todo, building, idxM>> /\ rebuild[p] = "building"
    BY <1>8 DEF BuildRead, lockVars, TypeOK
  <2> QED
    BY <2>1 DEF Rebuilds
<1>9. ASSUME NEW p \in Proc, BuildStore(p)
      PROVE  Rebuilds'
  <2>1. building[p] \in Lb /\ idxM[building[p]] = p
    BY <1>9 DEF BuildStore, Rebuilds
  <2>2. \A o \in Proc \ {p} : rebuild[o] = "building" => building[o] # building[p]
    BY <2>1 DEF Rebuilds
  <2> QED
    BY <1>9, <2>1, <2>2 DEF BuildStore, NewSampler, Rebuilds, TypeOK
<1>10. ASSUME NEW q \in Query, Route(q) \/ NoBackend(q) \/ Refuse(q) \/ Ask(q)
       PROVE  Rebuilds'
  BY <1>3, <1>10 DEF Route, NoBackend, Refuse, Ask, rebuildVars, lockVars
<1>11. ASSUME NEW l \in Loop, StartPing(l) \/ LoopCancelled(l) \/ PingFails(l)
       PROVE  Rebuilds'
  BY <1>3, <1>11 DEF StartPing, LoopCancelled, PingFails, rebuildVars, lockVars
<1>12. ASSUME \/ Cancel \/ (\E u \in Upstream : CloseUpstream(u))
              \/ (\E b \in Lb, u \in Upstream : UnRegLb(b, u)) \/ UNCHANGED vars
       PROVE  Rebuilds'
  BY <1>3, <1>12 DEF Cancel, CloseUpstream, UnRegLb, vars, rebuildVars, lockVars
<1> QED
  BY <1>2, <1>4, <1>5, <1>6, <1>7, <1>8, <1>9, <1>10, <1>11, <1>12
     DEF Next, QueryStep, LoopStep, RebuildStep

LEMMA HealthSeen ==
    ASSUME HealthInv, [Next]_vars
    PROVE  SeenWasRead'
<1> USE DEF HealthInv
<1>1. ASSUME NEW p \in Proc, BuildRead(p)
      PROVE  SeenWasRead'
  <2>1. building[p] \in Lb /\ next[p] \in Nat /\ seen[p] \in Seq(Upstream)
    BY <1>1 DEF BuildRead, Rebuilds, TypeOK
  <2>2. next[p] \in DOMAIN Backends[building[p]]
    <3>1. next[p] >= 1
      BY <2>1 DEF TypeOK
    <3>2. Backends[building[p]] \in Seq(Upstream)
      BY <2>1, HealthAssumption
    <3> QED
      BY <1>1, <2>1, <3>1, <3>2 DEF BuildRead
  <2>3. next' = [next EXCEPT ![p] = @ + 1] /\ UNCHANGED <<rebuild, building>>
    BY <1>1 DEF BuildRead
  <2> DEFINE u == Backends[building[p]][next[p]]
  <2>4. seen' = seen \/ seen' = [seen EXCEPT ![p] = Append(@, u)]
    BY <1>1 DEF BuildRead
  <2> HIDE DEF u
  <2> SUFFICES ASSUME NEW o \in Proc, rebuild[o] = "building", NEW k \in DOMAIN seen'[o]
               PROVE  \E i \in DOMAIN Backends[building[o]] :
                        i < next'[o] /\ Backends[building[o]][i] = seen'[o][k]
    BY <2>3 DEF SeenWasRead
  <2>5. CASE o # p
    <3>1. seen'[o] = seen[o] /\ next'[o] = next[o]
      BY <2>3, <2>4, <2>5 DEF TypeOK
    <3> QED
      BY <3>1 DEF SeenWasRead
  <2>6. CASE o = p
    <3>1. next'[p] = next[p] + 1
      BY <2>3 DEF TypeOK
    <3>2. \A i \in DOMAIN Backends[building[p]] : i \in Nat
      BY <2>1, HealthAssumption
    <3>3. CASE k \in DOMAIN seen[p] /\ seen'[p][k] = seen[p][k]
      <4>1. PICK i \in DOMAIN Backends[building[p]] :
              i < next[p] /\ Backends[building[p]][i] = seen[p][k]
        BY <2>6, <3>3 DEF SeenWasRead
      <4> QED
        BY <2>1, <2>6, <3>1, <3>2, <3>3, <4>1
    <3>4. CASE seen'[p][k] = u
      <4>1. next[p] < next'[p] /\ Backends[building[p]][next[p]] = u
        BY <2>1, <3>1 DEF u
      <4> QED
        BY <2>2, <2>6, <3>4, <4>1
    <3>5. \/ k \in DOMAIN seen[p] /\ seen'[p][k] = seen[p][k]
          \/ seen'[p][k] = u
      <4>1. CASE seen' = seen
        BY <2>6, <4>1
      <4>2. CASE seen' = [seen EXCEPT ![p] = Append(@, u)]
        <5>1. seen'[p] = Append(seen[p], u)
          BY <4>2 DEF TypeOK
        <5>2. k \in 1..Len(seen[p]) + 1
          BY <2>1, <2>6, <5>1
        <5> QED
          BY <2>1, <5>1, <5>2
      <4> QED
        BY <2>4, <4>1, <4>2
    <3> QED
      BY <3>3, <3>4, <3>5
  <2> QED
    BY <2>5, <2>6
<1>2. ASSUME NEW p \in Proc, BuildStart(p) \/ BuildStore(p)
      PROVE  SeenWasRead'
  <2>1. /\ \A o \in Proc \ {p} : /\ seen'[o] = seen[o] /\ next'[o] = next[o]
                                 /\ building'[o] = building[o] /\ rebuild'[o] = rebuild[o]
        /\ seen'[p] = <<>>
    BY <1>2 DEF BuildStart, BuildStore, NewSampler, Rebuilds, TypeOK
  <2>2. DOMAIN <<>> = {}
    OBVIOUS
  <2> QED
    BY <2>1, <2>2 DEF SeenWasRead
<1>3. ASSUME \A o \in Proc : rebuild'[o] = "building" => rebuild[o] = "building",
             UNCHANGED <<building, next, seen>>
      PROVE  SeenWasRead'
  BY <1>3 DEF SeenWasRead
<1>4. ASSUME NEW p \in Proc, LockLbs(p)
      PROVE  SeenWasRead'
  BY <1>3, <1>4 DEF LockLbs, TypeOK
<1>5. ASSUME NEW p, NEW u, SucceedsIn(p, u)
      PROVE  SeenWasRead'
  <2>1. UNCHANGED <<building, next, seen>>
    BY <1>5 DEF SucceedsIn, buildVars
  <2>2. rebuild' = rebuild \/ rebuild' = [rebuild EXCEPT ![p] = "want"]
    BY <1>5, Succeeded
  <2>3. \A o \in Proc : rebuild'[o] = "building" => rebuild[o] = "building"
    BY <2>2 DEF TypeOK
  <2> QED
    BY <1>3, <2>1, <2>3
<1>6. ASSUME NEW q \in Query, QueryStep(q)
      PROVE  SeenWasRead'
  <2>1. CASE QuerySucceeds(q)
    BY <1>3, <1>5, <2>1, QueryEnds DEF rebuildVars, buildVars
  <2>2. CASE QueryFails(q)
    <3>1. UNCHANGED <<building, next, seen>>
      BY <2>2, QueryFailed DEF buildVars
    <3>2. \A o \in Proc : rebuild'[o] = "building" => rebuild[o] = "building"
      BY <2>2, QueryFailed DEF TypeOK
    <3> QED
      BY <1>3, <3>1, <3>2
  <2>3. CASE Route(q) \/ NoBackend(q) \/ Refuse(q) \/ Ask(q)
    BY <1>3, <2>3 DEF Route, NoBackend, Refuse, Ask, rebuildVars, buildVars
  <2> QED
    BY <1>6, <2>1, <2>2, <2>3 DEF QueryStep
<1>7. ASSUME NEW l \in Loop, LoopStep(l)
      PROVE  SeenWasRead'
  <2>1. CASE PingSucceeds(l)
    BY <1>5, <2>1, PingEnds
  <2>2. CASE StartPing(l) \/ LoopCancelled(l) \/ PingFails(l)
    BY <1>3, <2>2 DEF StartPing, LoopCancelled, PingFails, rebuildVars, buildVars
  <2> QED
    BY <1>7, <2>1, <2>2 DEF LoopStep
<1>8. ASSUME \/ Cancel \/ (\E u \in Upstream : CloseUpstream(u))
             \/ (\E b \in Lb, u \in Upstream : UnRegLb(b, u)) \/ UNCHANGED vars
      PROVE  SeenWasRead'
  BY <1>3, <1>8 DEF Cancel, CloseUpstream, UnRegLb, vars, rebuildVars, buildVars
<1> QED
  BY <1>1, <1>2, <1>4, <1>6, <1>7, <1>8 DEF Next, RebuildStep

LEMMA HealthCallers ==
    ASSUME HealthInv, [Next]_vars
    PROVE  Callers'
<1> USE DEF HealthInv
<1>1. ASSUME NEW p, NEW u, SucceedsIn(p, u),
             \A q \in Query : queryPc'[q] # "idle" =>
                q # p /\ queryPc[q] # "idle" /\ target'[q] = target[q],
             \A l \in Loop :
                /\ loopPc'[l] # "free" => loopPc[l] # "free" /\ loopOf'[l] = loopOf[l]
                /\ loopPc'[l] = "ping" => l # p /\ loopPc[l] = "ping"
      PROVE  Callers'
  <2>1. \A o \in Proc \ {p} : rebuild'[o] = rebuild[o]
    <3>1. rebuild' = rebuild \/ rebuild' = [rebuild EXCEPT ![p] = "want"]
      BY <1>1, Succeeded
    <3> QED
      BY <3>1 DEF TypeOK
  <2> QED
    BY <1>1, <2>1 DEF Callers, Proc
<1>2. ASSUME NEW q \in Query, QueryStep(q)
      PROVE  Callers'
  <2>1. CASE QuerySucceeds(q)
    <3>1. CASE SucceedsIn(q, target[q])
      <4>1. \A o \in Query : queryPc'[o] # "idle" =>
              o # q /\ queryPc[o] # "idle" /\ target'[o] = target[o]
        BY <2>1 DEF QuerySucceeds, TypeOK
      <4>2. UNCHANGED <<loopPc, loopOf>>
        BY <2>1 DEF QuerySucceeds
      <4>3. \A l \in Loop : l # q
        BY HealthAssumption
      <4> QED
        BY <1>1, <3>1, <4>1, <4>2, <4>3
    <3>2. CASE UNCHANGED rebuildVars
      BY <2>1, <3>2 DEF QuerySucceeds, rebuildVars, Callers, TypeOK
    <3> QED
      BY <2>1, <3>1, <3>2, QueryEnds
  <2>2. CASE QueryFails(q)
    <3>1. queryPc' = [queryPc EXCEPT ![q] = "idle"] /\ target' = [target EXCEPT ![q] = None]
      BY <2>2 DEF QueryFails
    <3>2. CASE UNCHANGED <<loopVars, rebuild>>
      BY <3>1, <3>2 DEF loopVars, Callers, TypeOK
    <3>3. CASE ~UNCHANGED <<loopVars, rebuild>>
      <4>1. PICK u \in Upstream, l \in Loop :
              /\ loopPc' = [loopPc EXCEPT ![l] = "select"]
              /\ loopOf' = [loopOf EXCEPT ![l] = u]
              /\ rebuild' = [rebuild EXCEPT ![l] = "want"]
        BY <2>2, <3>3, QueryFailed
      <4>2. \A o \in Query : o # l
        BY HealthAssumption
      <4> QED
        BY <3>1, <4>1, <4>2 DEF Callers, TypeOK, Proc
    <3> QED
      BY <3>2, <3>3
  <2>3. CASE Route(q)
    <3>1. \A b \in Lb : Online(b) \subseteq Upstream
      BY DEF Online, TypeOK
    <3>2. \E u \in Upstream : target' = [target EXCEPT ![q] = u]
      BY <2>3, <3>1 DEF Route
    <3> QED
      BY <2>3, <3>2 DEF Route, Free, loopVars, rebuildVars, Callers, TypeOK
  <2>4. CASE NoBackend(q) \/ Refuse(q) \/ Ask(q)
    <3>1. UNCHANGED <<loopOf, rebuildVars>>
      BY <2>4 DEF NoBackend, Refuse, Ask, loopVars
    <3>2. \A o \in Query : queryPc'[o] # "idle" =>
            queryPc[o] # "idle" /\ target'[o] = target[o]
      BY <2>4 DEF NoBackend, Refuse, Ask, queryVars, TypeOK
    <3>3. \/ UNCHANGED loopPc
          \/ \E l \in Loop : \E u : InSelect(l, u) /\ loopPc' = [loopPc EXCEPT ![l] = "ping"]
      BY <2>4 DEF NoBackend, Refuse, Ask, TryStartPing, loopVars
    <3> QED
      BY <3>1, <3>2, <3>3 DEF InSelect, rebuildVars, Callers, TypeOK
  <2> QED
    BY <1>2, <2>1, <2>2, <2>3, <2>4 DEF QueryStep
<1>3. ASSUME NEW l \in Loop, LoopStep(l)
      PROVE  Callers'
  <2>1. CASE PingSucceeds(l)
    <3>1. \A o \in Loop :
             /\ loopPc'[o] # "free" => loopPc[o] # "free" /\ loopOf'[o] = loopOf[o]
             /\ loopPc'[o] = "ping" => o # l /\ loopPc[o] = "ping"
      BY <2>1 DEF PingSucceeds, TypeOK
    <3>2. UNCHANGED queryVars /\ \A q \in Query : q # l
      BY <2>1, HealthAssumption DEF PingSucceeds
    <3> QED
      BY <1>1, <2>1, <3>1, <3>2, PingEnds DEF queryVars
  <2>2. CASE StartPing(l) \/ LoopCancelled(l) \/ PingFails(l)
    BY <2>2 DEF StartPing, LoopCancelled, PingFails, queryVars, rebuildVars, Callers, TypeOK
  <2> QED
    BY <1>3, <2>1, <2>2 DEF LoopStep
<1>4. ASSUME NEW p \in Proc, RebuildStep(p)
      PROVE  Callers'
  <2>1. UNCHANGED <<queryVars, loopVars>>
    BY <1>4 DEF RebuildStep, LockLbs, BuildStart, BuildRead, BuildStore
  <2>2. \A o \in Proc : rebuild[o] = "no" => rebuild'[o] = "no"
    BY <1>4 DEF RebuildStep, LockLbs, BuildStart, BuildRead, BuildStore, TypeOK
  <2> QED
    BY <2>1, <2>2 DEF queryVars, loopVars, Callers, Proc
<1>5. ASSUME \/ Cancel \/ (\E u \in Upstream : CloseUpstream(u))
             \/ (\E b \in Lb, u \in Upstream : UnRegLb(b, u)) \/ UNCHANGED vars
      PROVE  Callers'
  BY <1>5 DEF Cancel, CloseUpstream, UnRegLb, vars, queryVars, loopVars, rebuildVars, Callers
<1> QED
  BY <1>2, <1>3, <1>4, <1>5 DEF Next

-----------------------------------------------------------------------------
(* Ping loops.                                                             *)

LEMMA HealthWatched ==
    ASSUME HealthInv, [Next]_vars
    PROVE  Watched'
<1> USE DEF HealthInv
<1>1. ASSUME UNCHANGED <<offline, cancelPingLoop, cancelled>>, closing => closing',
             \A l \in Loop : Alive(l) /\ ~closing' => loopPc'[l] # "free",
             \A l \in Loop : loopPc[l] = "free" => loopPc'[l] = "free",
             \A l \in Loop : loopPc'[l] # "free" => loopOf'[l] = loopOf[l]
      PROVE  Watched'
  BY <1>1 DEF Watched, Alive
<1>2. ASSUME NEW p, NEW u, SucceedsIn(p, u),
             \A l \in Loop :
                \/ loopPc'[l] = loopPc[l] /\ loopOf'[l] = loopOf[l]
                \/ loopPc'[l] = "free" /\ loopOf[l] = u
      PROVE  Watched'
  <2>1. /\ offline' = [offline EXCEPT ![u] = FALSE]
        /\ cancelled' = StopPings(u)
        /\ cancelPingLoop' = [cancelPingLoop EXCEPT ![u] = None]
        /\ UNCHANGED closing /\ u \in Upstream
    BY <1>2 DEF SucceedsIn, HcSucceed, closeVars
  <2>2. \A l \in Loop : cancelled'[l] <=> cancelled[l] \/ l = cancelPingLoop[u]
    BY <2>1 DEF StopPings
  <2> SUFFICES ASSUME ~closing, NEW v \in Upstream
               PROVE  /\ offline'[v] <=> cancelPingLoop'[v] # None
                      /\ \A l \in Loop :
                            cancelPingLoop'[v] = l <=> Alive(l)' /\ loopOf'[l] = v
    BY <2>1 DEF Watched
  <2>3. offline'[v] <=> cancelPingLoop'[v] # None
    BY <2>1 DEF Watched, TypeOK
  <2>4. ASSUME NEW l \in Loop
        PROVE  cancelPingLoop'[v] = l <=> Alive(l)' /\ loopOf'[l] = v
    <3>1. \A w \in Upstream : cancelPingLoop[w] = l <=> Alive(l) /\ loopOf[l] = w
      BY DEF Watched
    <3>2. CASE v = u
      <4>1. cancelPingLoop'[v] # l
        BY <2>1, <3>2, HealthAssumption DEF TypeOK
      <4>2. Alive(l)' /\ loopOf'[l] = u => Alive(l) /\ loopOf[l] = u
        BY <1>2, <2>2 DEF Alive
      <4>3. Alive(l)' => cancelPingLoop[u] # l
        BY <2>2 DEF Alive
      <4> QED
        BY <2>1, <3>1, <3>2, <4>1, <4>2, <4>3
    <3>3. CASE v # u
      <4>1. cancelPingLoop'[v] = cancelPingLoop[v]
        BY <2>1, <3>3 DEF TypeOK
      <4>2. loopOf[l] = v => cancelPingLoop[u] # l
        BY <2>1, <3>1, <3>3
      <4>3. Alive(l)' /\ loopOf'[l] = v <=> Alive(l) /\ loopOf[l] = v
        BY <1>2, <2>2, <3>3, <4>2 DEF Alive
      <4> QED
        BY <3>1, <4>1, <4>3
    <3> QED
      BY <3>2, <3>3
  <2> QED
    BY <2>3, <2>4
<1>3. ASSUME NEW q \in Query, QueryFails(q)
      PROVE  Watched'
  <2>1. UNCHANGED closing
    BY <1>3 DEF QueryFails, closeVars
  <2>2. CASE UNCHANGED <<offline, cancelPingLoop, loopVars>>
    BY <1>1, <2>1, <2>2 DEF loopVars, Alive
  <2>3. CASE ~UNCHANGED <<offline, cancelPingLoop, loopVars>>
    <3>1. PICK u \in Upstream, l \in Loop :
            /\ loopPc[l] = "free"
            /\ \A v \in Upstream : cancelPingLoop[v] # l
            /\ ~offline[u]
            /\ offline' = [offline EXCEPT ![u] = TRUE]
            /\ cancelPingLoop' = [cancelPingLoop EXCEPT ![u] = l]
            /\ loopPc' = [loopPc EXCEPT ![l] = "select"]
            /\ loopOf' = [loopOf EXCEPT ![l] = u]
            /\ cancelled' = [cancelled EXCEPT ![l] = FALSE]
      BY <1>3, <2>3, QueryFailed
    <3> SUFFICES ASSUME ~closing, NEW v \in Upstream
                 PROVE  /\ offline'[v] <=> cancelPingLoop'[v] # None
                        /\ \A k \in Loop :
                              cancelPingLoop'[v] = k <=> Alive(k)' /\ loopOf'[k] = v
      BY <2>1 DEF Watched
    <3>2. l # None
      BY HealthAssumption
    <3>3. offline'[v] <=> cancelPingLoop'[v] # None
      BY <3>1, <3>2 DEF Watched, TypeOK
    <3>4. ASSUME NEW k \in Loop
          PROVE  cancelPingLoop'[v] = k <=> Alive(k)' /\ loopOf'[k] = v
      <4>1. CASE k = l
        BY <3>1, <4>1 DEF Alive, TypeOK
      <4>2. CASE k # l
        <5>1. Alive(k)' = Alive(k) /\ loopOf'[k] = loopOf[k]
          BY <3>1, <4>2 DEF Alive, TypeOK
        <5>2. cancelPingLoop[u] = None
          BY <3>1 DEF Watched
        <5>3. cancelPingLoop'[v] = k <=> cancelPingLoop[v] = k
          BY <3>1, <4>2, <5>2, HealthAssumption DEF TypeOK
        <5> QED
          BY <5>1, <5>3 DEF Watched
      <4> QED
        BY <4>1, <4>2
    <3> QED
      BY <3>3, <3>4
  <2> QED
    BY <2>2, <2>3
<1>4. ASSUME NEW q \in Query, QuerySucceeds(q)
      PROVE  Watched'
  <2>1. CASE SucceedsIn(q, target[q])
    BY <1>2, <1>4, <2>1, QueryEnds
  <2>2. CASE UNCHANGED <<statusVars, cancelled, rebuildVars, closeVars>>
    BY <1>1, <1>4, <2>2, QueryEnds DEF statusVars, closeVars, Alive
  <2> QED
    BY <1>4, <2>1, <2>2, QueryEnds
<1>5. ASSUME NEW l \in Loop, PingSucceeds(l)
      PROVE  Watched'
  <2>1. \A k \in Loop :
          \/ loopPc'[k] = loopPc[k] /\ loopOf'[k] = loopOf[k]
          \/ loopPc'[k] = "free" /\ loopOf[k] = loopOf[l]
    BY <1>5 DEF PingSucceeds, TypeOK
  <2> QED
    BY <1>2, <1>5, <2>1, PingEnds
<1>6. ASSUME NEW q \in Query, Route(q) \/ NoBackend(q) \/ Refuse(q) \/ Ask(q)
      PROVE  Watched'
  <2>1. UNCHANGED <<statusVars, loopOf, cancelled, closing>>
    BY <1>6 DEF Route, NoBackend, Refuse, Ask, loopVars, closeVars
  <2>2. \/ UNCHANGED loopPc
        \/ \E l \in Loop : loopPc[l] = "select" /\ loopPc' = [loopPc EXCEPT ![l] = "ping"]
    BY <1>6 DEF Route, NoBackend, Refuse, Ask, TryStartPing, InSelect, loopVars
  <2> QED
    BY <1>1, <2>1, <2>2 DEF statusVars, Alive, TypeOK
<1>7. ASSUME NEW l \in Loop, StartPing(l) \/ LoopCancelled(l) \/ PingFails(l)
      PROVE  Watched'
  <2>1. UNCHANGED <<statusVars, cancelled, closing>>
    BY <1>7 DEF StartPing, LoopCancelled, PingFails, closeVars
  <2>2. \/ /\ loopPc[l] # "free" /\ UNCHANGED loopOf
           /\ \E s \in {"select", "ping"} : loopPc' = [loopPc EXCEPT ![l] = s]
        \/ /\ cancelled[l] \/ closing
           /\ loopPc' = [loopPc EXCEPT ![l] = "free"]
           /\ loopOf' = [loopOf EXCEPT ![l] = None]
    BY <1>7 DEF StartPing, LoopCancelled, PingFails, CtxDone
  <2> QED
    BY <1>1, <2>1, <2>2 DEF statusVars, Alive, TypeOK
<1>8. ASSUME NEW p \in Proc, RebuildStep(p)
      PROVE  Watched'
  BY <1>1, <1>8 DEF RebuildStep, LockLbs, BuildStart, BuildRead, BuildStore, statusVars,
                    loopVars, closeVars, Alive
<1>9. ASSUME \/ Cancel \/ (\E u \in Upstream : CloseUpstream(u))
             \/ (\E b \in Lb, u \in Upstream : UnRegLb(b, u)) \/ UNCHANGED vars
      PROVE  Watched'
  BY <1>1, <1>9 DEF Cancel, CloseUpstream, UnRegLb, vars, statusVars, loopVars, closeVars, Alive
<1> QED
  BY <1>3, <1>4, <1>5, <1>6, <1>7, <1>8, <1>9 DEF Next, QueryStep, LoopStep

-----------------------------------------------------------------------------
(* Samplers.                                                               *)

LEMMA HealthRegistered ==
    ASSUME HealthInv, [Next]_vars
    PROVE  Registered' /\ \A u \in Upstream : lbs'[u] \subseteq lbs[u]
<1>1. lbs' = lbs \/ \E b \in Lb, u \in Upstream : lbs' = [lbs EXCEPT ![u] = @ \ {b}]
  BY DEF Next, QueryStep, LoopStep, RebuildStep, Route, NoBackend, Refuse, Ask, QuerySucceeds,
         QueryFails, StartPing, LoopCancelled, PingSucceeds, PingFails, LockLbs, BuildStart,
         BuildRead, BuildStore, Cancel, CloseUpstream, UnRegLb, closeVars, vars
<1>2. \A u \in Upstream : lbs'[u] \subseteq lbs[u]
  BY <1>1 DEF HealthInv, TypeOK
<1> QED
  BY <1>2 DEF HealthInv, Registered, Uses

(* Nothing that the samplers depend on changes.                            *)
LEMMA SamplersUntouched ==
    ASSUME HealthInv, UNCHANGED <<offline, rebuild, cause, buildVars, sampler>>,
           \A u \in Upstream : lbs'[u] \subseteq lbs[u]
    PROVE  StaleBuildsFollowed' /\ SamplerSettles'
<1>1. \A p, b, u : /\ WillBuild(p, b, u)' = WillBuild(p, b, u)
                   /\ BuildAgrees(p, b, u)' = BuildAgrees(p, b, u)
                   /\ WillRefresh(p, b, u)' = WillRefresh(p, b, u)
                   /\ Online(b)' = Online(b)
  BY DEF WillBuild, BuildAgrees, WillRefresh, Online, buildVars
<1>2. StaleBuildsFollowed'
  BY <1>1 DEF HealthInv, StaleBuildsFollowed, buildVars
<1>3. SamplerSettles'
  BY <1>1 DEF HealthInv, SamplerSettles
<1> QED
  BY <1>2, <1>3

LEMMA RefreshParts ==
    ASSUME NEW p, NEW b, NEW u
    PROVE  WillRefresh(p, b, u) <=> WillBuild(p, b, u) \/ (building[p] = b /\ BuildAgrees(p, b, u))
BY DEF WillRefresh, WillBuild, BuildAgrees

(* The status of w changes and process x is going to tell its balancers.   *)
LEMMA StatusAnnounced ==
    ASSUME HealthInv, NEW x \in Proc, NEW w \in Upstream, rebuild[x] = "no",
           rebuild' = [rebuild EXCEPT ![x] = "want"], cause' = [cause EXCEPT ![x] = w],
           \A u \in Upstream \ {w} : offline'[u] = offline[u],
           UNCHANGED <<buildVars, sampler, lbs>>
    PROVE  StaleBuildsFollowed' /\ SamplerSettles'
<1> USE DEF HealthInv
<1>1. cause[x] = None /\ building[x] = None /\ w # None
  BY HealthAssumption DEF Rebuilds
<1>2. \A b : WillBuild(x, b, w)'
  BY DEF WillBuild, TypeOK
<1>3. \A o \in Proc, b \in Lb, u \in Upstream : WillBuild(o, b, u) => WillBuild(o, b, u)'
  <2> SUFFICES ASSUME NEW o \in Proc, NEW b \in Lb, NEW u \in Upstream, WillBuild(o, b, u)
               PROVE  WillBuild(o, b, u)'
    OBVIOUS
  <2>1. o # x
    BY <1>1, HealthAssumption DEF WillBuild
  <2>2. rebuild'[o] = rebuild[o] /\ cause'[o] = cause[o]
    BY <2>1 DEF TypeOK
  <2> QED
    BY <2>2 DEF WillBuild, buildVars
<1>4. \A o \in Proc, b \in Lb, u \in Upstream \ {w} : BuildAgrees(o, b, u)' <=> BuildAgrees(o, b, u)
  BY DEF BuildAgrees, buildVars
<1>5. StaleBuildsFollowed'
  <2> SUFFICES ASSUME NEW p \in Proc, NEW b \in Lb, NEW u \in Upstream,
                      building[p] = b, b \in lbs[u], ~BuildAgrees(p, b, u)'
               PROVE  \E o \in Proc : WillBuild(o, b, u)'
    BY DEF StaleBuildsFollowed, buildVars
  <2>1. CASE u = w
    BY <1>2, <2>1
  <2>2. CASE u # w
    BY <1>3, <1>4, <2>2 DEF StaleBuildsFollowed
  <2> QED
    BY <2>1, <2>2
<1>6. SamplerSettles'
  <2> SUFFICES ASSUME NEW b \in Lb, NEW u \in Upstream, b \in lbs[u],
                      offline'[u] <=> u \in Online(b)'
               PROVE  \E o \in Proc : WillRefresh(o, b, u)'
    BY DEF SamplerSettles
  <2>1. CASE u = w
    <3>1. WillRefresh(x, b, u)'
      BY <1>2, <2>1 DEF WillRefresh, WillBuild
    <3> QED
      BY <3>1
  <2>2. CASE u # w
    <3>1. offline[u] <=> u \in Online(b)
      BY <2>2 DEF Online
    <3>2. PICK o \in Proc : WillRefresh(o, b, u)
      BY <3>1 DEF SamplerSettles
    <3>3. CASE WillBuild(o, b, u)
      <4>1. WillBuild(o, b, u)'
        BY <1>3, <3>3
      <4>2. WillRefresh(o, b, u)'
        BY <4>1 DEF WillRefresh, WillBuild
      <4> QED
        BY <4>2
    <3>4. CASE building[o] = b /\ BuildAgrees(o, b, u)
      <4>1. building'[o] = b /\ BuildAgrees(o, b, u)'
        BY <1>4, <2>2, <3>4 DEF buildVars
      <4>2. WillRefresh(o, b, u)'
        BY <4>1 DEF WillRefresh, BuildAgrees
      <4> QED
        BY <4>2
    <3> QED
      BY <3>2, <3>3, <3>4, RefreshParts
  <2> QED
    BY <2>1, <2>2
<1> QED
  BY <1>5, <1>6

LEMMA SucceededSamplers ==
    ASSUME HealthInv, NEW p, NEW u, SucceedsIn(p, u)
    PROVE  StaleBuildsFollowed' /\ SamplerSettles'
<1>1. /\ p \in Proc /\ u \in Upstream /\ rebuild[p] = "no"
      /\ UNCHANGED <<buildVars, sampler, lbs>>
      /\ offline' = [offline EXCEPT ![u] = FALSE]
  BY Succeeded DEF SucceedsIn, closeVars
<1>2. \A v \in Upstream \ {u} : offline'[v] = offline[v]
  BY <1>1 DEF HealthInv, TypeOK
<1>3. CASE ~offline[u] /\ rebuild' = rebuild /\ cause' = cause
  <2>1. offline' = offline
    BY <1>1, <1>3 DEF HealthInv, TypeOK
  <2> QED
    BY <1>1, <1>3, <2>1, SamplersUntouched
<1>4. CASE rebuild' = [rebuild EXCEPT ![p] = "want"] /\ cause' = [cause EXCEPT ![p] = u]
  BY <1>1, <1>2, <1>4, StatusAnnounced
<1> QED
  BY <1>3, <1>4, Succeeded

LEMMA FailedSamplers ==
    ASSUME HealthInv, NEW q \in Query, QueryFails(q)
    PROVE  StaleBuildsFollowed' /\ SamplerSettles'
<1>1. UNCHANGED <<buildVars, sampler, lbs>>
  BY QueryFailed DEF closeVars
<1>2. CASE UNCHANGED <<offline, rebuild, cause>>
  BY <1>1, <1>2, SamplersUntouched
<1>3. CASE ~UNCHANGED <<offline, rebuild, cause>>
  <2>1. PICK u \in Upstream, l \in Loop :
          /\ rebuild[l] = "no"
          /\ offline' = [offline EXCEPT ![u] = TRUE]
          /\ rebuild' = [rebuild EXCEPT ![l] = "want"]
          /\ cause' = [cause EXCEPT ![l] = u]
    BY <1>3, QueryFailed
  <2>2. l \in Proc /\ \A v \in Upstream \ {u} : offline'[v] = offline[v]
    BY <2>1 DEF HealthInv, TypeOK, Proc
  <2> QED
    BY <1>1, <2>1, <2>2, StatusAnnounced
<1> QED
  BY <1>2, <1>3

(* One more backend is read: the build goes on to agree with the status of *)
(* every upstream it agreed with.                                          *)
LEMMA ReadKeepsAgreement ==
    ASSUME HealthInv, NEW p \in Proc, BuildRead(p), NEW u \in Upstream,
           BuildAgrees(p, building[p], u)
    PROVE  BuildAgrees(p, building[p], u)'
<1> USE DEF HealthInv
<1> DEFINE b == building[p]
           v == Backends[b][next[p]]
           In(s) == \E k \in DOMAIN s : s[k] = u
<1>1. b \in Lb /\ next[p] \in Nat /\ seen[p] \in Seq(Upstream) /\ Backends[b] \in Seq(Upstream)
  BY HealthAssumption DEF BuildRead, Rebuilds, TypeOK
<1>2. \A i \in DOMAIN Backends[b] : i \in Nat
  BY <1>1
<1>3. /\ next'[p] = next[p] + 1 /\ UNCHANGED <<offline, building>>
      /\ seen'[p] = IF offline[v] THEN seen[p] ELSE Append(seen[p], v)
  BY DEF BuildRead, statusVars, TypeOK
<1>4. In(Append(seen[p], v)) <=> In(seen[p]) \/ v = u
  <2> HIDE DEF b, v
  <2>1. /\ DOMAIN Append(seen[p], v) = DOMAIN seen[p] \cup {Len(seen[p]) + 1}
        /\ Len(seen[p]) + 1 \notin DOMAIN seen[p]
        /\ \A k \in DOMAIN seen[p] : Append(seen[p], v)[k] = seen[p][k]
        /\ Append(seen[p], v)[Len(seen[p]) + 1] = v
    BY <1>1
  <2> QED
    BY <2>1
<1>5. In(seen[p]) => \E i \in DOMAIN Backends[b] : i < next[p] /\ Backends[b][i] = u
  BY DEF SeenWasRead, BuildRead
<1>6. \A i \in DOMAIN Backends[b] : Backends[b][i] = u => i >= next[p] \/ (offline[u] <=> ~In(seen[p]))
  BY DEF BuildAgrees
<1> HIDE DEF b, v, In
<1> SUFFICES ASSUME NEW i \in DOMAIN Backends[b], Backends[b][i] = u, i < next[p] + 1
             PROVE  offline[u] <=> ~In(seen'[p])
  <2>1. \A i \in DOMAIN Backends[b] : Backends[b][i] = u =>
          i >= next[p] + 1 \/ (offline[u] <=> ~In(seen'[p]))
    BY <1>1, <1>2
  <2> QED
    BY <1>3, <2>1 DEF BuildAgrees, b, In
<1>7. CASE v # u
  <2>1. i < next[p]
    BY <1>1, <1>2, <1>7 DEF v
  <2>2. offline[u] <=> ~In(seen[p])
    BY <1>1, <1>2, <1>6, <2>1
  <2> QED
    BY <1>3, <1>4, <1>7, <2>2
<1>8. CASE v = u /\ ~offline[u]
  BY <1>3, <1>4, <1>8
<1>9. CASE v = u /\ offline[u]
  <2>1. ~In(seen[p])
    BY <1>1, <1>2, <1>5, <1>6, <1>9
  <2> QED
    BY <1>3, <1>9, <2>1
<1> QED
  BY <1>7, <1>8, <1>9

(* A build that is promised stays promised, or has begun: hcRebuildLbsIdx  *)
(* drops no load balancer on its way.                                      *)
LEMMA PromiseKept ==
    ASSUME HealthInv, NEW x \in Proc, RebuildStep(x), NEW o \in Proc, NEW b \in Lb,
           NEW u \in Upstream, b \in lbs[u], WillBuild(o, b, u)
    PROVE  \/ WillBuild(o, b, u)'
           \/ o = x /\ BuildStart(x) /\ building'[x] = b
<1> USE DEF HealthInv
<1>1. CASE o # x
  <2>1. /\ cause'[o] = cause[o] /\ rebuild'[o] = rebuild[o]
        /\ todo'[o] = todo[o] /\ building'[o] = building[o]
    BY <1>1 DEF RebuildStep, LockLbs, BuildStart, BuildRead, BuildStore, TypeOK
  <2> QED
    BY <2>1 DEF WillBuild
<1>2. CASE o = x /\ LockLbs(x)
  <2>1. cause[x] = u /\ building[x] = None
    BY <1>2 DEF LockLbs, WillBuild, Rebuilds
  <2>2. cause' = cause /\ todo' = [todo EXCEPT ![x] = lbs[u]] /\ building' = building
    BY <1>2, <2>1 DEF LockLbs
  <2>3. b \in todo'[x]
    BY <2>2 DEF TypeOK
  <2>4. b # None
    BY HealthAssumption
  <2> QED
    BY <1>2, <2>1, <2>2, <2>3, <2>4 DEF WillBuild
<1>3. CASE o = x /\ BuildStart(x)
  <2>1. PICK d \in todo[x] :
          building' = [building EXCEPT ![x] = d] /\ UNCHANGED <<cause, todo>>
    BY <1>3 DEF BuildStart
  <2>2. rebuild[x] = "locked" /\ cause[x] = u /\ b \in todo[x] /\ building'[x] = d
    BY <1>3, <2>1 DEF BuildStart, WillBuild, TypeOK
  <2> QED
    BY <1>3, <2>1, <2>2 DEF WillBuild
<1>4. CASE o = x /\ BuildRead(x)
  BY <1>4 DEF BuildRead, WillBuild
<1>5. CASE o = x /\ BuildStore(x)
  <2>1. /\ cause[x] = u /\ b \in todo[x] \ {building[x]}
        /\ building' = [building EXCEPT ![x] = None]
        /\ todo' = [todo EXCEPT ![x] = todo[x] \ {building[x]}]
        /\ cause' = cause
    BY <1>5 DEF BuildStore, WillBuild
  <2>2. b \in todo'[x] /\ building'[x] = None /\ b # None
    BY <2>1, HealthAssumption DEF TypeOK
  <2> QED
    BY <1>5, <2>1, <2>2 DEF WillBuild
<1> QED
  BY <1>1, <1>2, <1>3, <1>4, <1>5 DEF RebuildStep

(* A build that begins has read nothing yet.                               *)
LEMMA BeginsInAgreement ==
    ASSUME HealthInv, NEW x \in Proc, BuildStart(x), NEW b \in Lb, NEW u \in Upstream
    PROVE  BuildAgrees(x, b, u)'
<1>1. next'[x] = 1
  BY DEF BuildStart, HealthInv, Rebuilds
<1>2. \A i \in DOMAIN Backends[b] : i >= 1
  BY HealthAssumption
<1> QED
  BY <1>1, <1>2 DEF BuildAgrees

(* The other builders keep what they have read.                            *)
LEMMA OthersKeepAgreement ==
    ASSUME HealthInv, NEW x \in Proc, RebuildStep(x), NEW o \in Proc, NEW b \in Lb,
           NEW u \in Upstream, o # x \/ LockLbs(x)
    PROVE  /\ building'[o] = building[o]
           /\ BuildAgrees(o, b, u)' <=> BuildAgrees(o, b, u)
<1>1. offline' = offline
  BY DEF RebuildStep, LockLbs, BuildStart, BuildRead, BuildStore, statusVars
<1>2. building'[o] = building[o] /\ next'[o] = next[o] /\ seen'[o] = seen[o]
  BY DEF RebuildStep, LockLbs, BuildStart, BuildRead, BuildStore, NewSampler, HealthInv, TypeOK
<1> QED
  BY <1>1, <1>2 DEF BuildAgrees

LEMMA RebuildStale ==
    ASSUME HealthInv, NEW x \in Proc, RebuildStep(x)
    PROVE  StaleBuildsFollowed'
<1> USE DEF HealthInv
<1>1. lbs' = lbs
  BY DEF RebuildStep, LockLbs, BuildStart, BuildRead, BuildStore, closeVars
<1> SUFFICES ASSUME NEW p \in Proc, NEW b \in Lb, NEW u \in Upstream,
                    building'[p] = b, b \in lbs[u], ~BuildAgrees(p, b, u)'
             PROVE  \E o \in Proc : WillBuild(o, b, u)'
  BY <1>1 DEF StaleBuildsFollowed
<1>2. b # None
  BY HealthAssumption
<1>3. building[p] = b /\ ~BuildAgrees(p, b, u)
  <2>1. CASE p # x \/ LockLbs(x)
    BY <2>1, OthersKeepAgreement
  <2>2. CASE p = x /\ BuildRead(x)
    <3>1. building[p] = b
      BY <2>2 DEF BuildRead
    <3> QED
      BY <2>2, <3>1, ReadKeepsAgreement
  <2>3. CASE p = x /\ BuildStart(x)
    BY <2>3, BeginsInAgreement
  <2>4. CASE p = x /\ BuildStore(x)
    BY <1>2, <2>4 DEF BuildStore, TypeOK
  <2> QED
    BY <2>1, <2>2, <2>3, <2>4 DEF RebuildStep
<1>4. PICK o \in Proc : WillBuild(o, b, u)
  BY <1>3 DEF StaleBuildsFollowed
<1>5. CASE o = x /\ BuildStart(x) /\ building'[x] = b
  <2>1. idxM[b] = None
    BY <1>5 DEF BuildStart, MayBuild, TypeOK
  <2>2. idxM[b] = p /\ p # None
    <3>1. rebuild[p] = "building"
      BY <1>2, <1>3 DEF Rebuilds
    <3> QED
      BY <1>3, <3>1, HealthAssumption DEF Rebuilds, Proc
  <2> QED
    BY <2>1, <2>2
<1> QED
  BY <1>4, <1>5, PromiseKept

(* A sampler is stored: it agrees with the status of u, or somebody else   *)
(* has yet to build one.                                                   *)
LEMMA RebuildSettles ==
    ASSUME HealthInv, NEW x \in Proc, RebuildStep(x)
    PROVE  SamplerSettles'
<1> USE DEF HealthInv
<1>1. lbs' = lbs /\ offline' = offline
  BY DEF RebuildStep, LockLbs, BuildStart, BuildRead, BuildStore, closeVars, statusVars
<1> SUFFICES ASSUME NEW b \in Lb, NEW u \in Upstream, b \in lbs[u],
                    offline[u] <=> u \in Online(b)'
             PROVE  \E o \in Proc :
                      \/ WillBuild(o, b, u)'
                      \/ building'[o] = b /\ BuildAgrees(o, b, u)'
  BY <1>1 DEF SamplerSettles, WillRefresh, WillBuild, BuildAgrees
<1>2. b # None
  BY HealthAssumption
<1>3. ASSUME NEW o \in Proc, WillBuild(o, b, u)
      PROVE  \/ WillBuild(o, b, u)'
             \/ building'[o] = b /\ BuildAgrees(o, b, u)'
  BY <1>3, PromiseKept, BeginsInAgreement
<1>4. CASE ~(BuildStore(x) /\ building[x] = b)
  <2>1. Online(b)' = Online(b)
    <3>1. sampler'[b] = sampler[b]
      BY <1>4 DEF RebuildStep, LockLbs, BuildStart, BuildRead, BuildStore, TypeOK
    <3> QED
      BY <3>1 DEF Online
  <2>2. PICK o \in Proc : WillRefresh(o, b, u)
    BY <2>1 DEF SamplerSettles
  <2>3. CASE WillBuild(o, b, u)
    BY <1>3, <2>3
  <2>4. CASE building[o] = b /\ BuildAgrees(o, b, u)
    <3>1. CASE o # x \/ LockLbs(x)
      BY <2>4, <3>1, OthersKeepAgreement
    <3>2. CASE o = x /\ BuildRead(x)
      <4>1. building'[x] = b
        BY <2>4, <3>2 DEF BuildRead
      <4> QED
        BY <2>4, <3>2, <4>1, ReadKeepsAgreement
    <3>3. CASE o = x /\ BuildStart(x)
      BY <1>2, <2>4, <3>3 DEF BuildStart, Rebuilds
    <3> QED
      BY <1>4, <2>4, <3>1, <3>2, <3>3 DEF RebuildStep
  <2> QED
    BY <2>2, <2>3, <2>4, RefreshParts
<1>5. CASE BuildStore(x) /\ building[x] = b
  <2>1. ~BuildAgrees(x, b, u)
    <3> SUFFICES ASSUME BuildAgrees(x, b, u) PROVE FALSE
      OBVIOUS
    <3>1. PICK i \in DOMAIN Backends[b] : Backends[b][i] = u
      BY DEF Registered, Uses
    <3>2. i \in Nat /\ i <= Len(Backends[b]) /\ next[x] > Len(Backends[b])
      BY <1>5, <3>1, HealthAssumption DEF BuildStore
    <3>3. ~(i >= next[x])
      BY <3>2, HealthAssumption DEF TypeOK
    <3>4. offline[u] <=> u \notin {seen[x][k] : k \in DOMAIN seen[x]}
      BY <3>1, <3>3 DEF BuildAgrees
    <3>5. sampler'[b] = seen[x]
      BY <1>5 DEF BuildStore, TypeOK
    <3> QED
      BY <3>4, <3>5 DEF Online
  <2>2. PICK o \in Proc : WillBuild(o, b, u)
    BY <1>5, <2>1 DEF StaleBuildsFollowed
  <2> QED
    BY <1>3, <2>2
<1> QED
  BY <1>4, <1>5

LEMMA HealthSamplers ==
    ASSUME HealthInv, [Next]_vars
    PROVE  StaleBuildsFollowed' /\ SamplerSettles'
<1>1. ASSUME UNCHANGED <<offline, rebuild, cause, buildVars, sampler>>
      PROVE  StaleBuildsFollowed' /\ SamplerSettles'
  BY <1>1, HealthRegistered, SamplersUntouched
<1>2. ASSUME NEW q \in Query, QueryStep(q)
      PROVE  StaleBuildsFollowed' /\ SamplerSettles'
  <2>1. CASE QuerySucceeds(q)
    BY <1>1, <2>1, QueryEnds, SucceededSamplers DEF statusVars, rebuildVars
  <2>2. CASE QueryFails(q)
    BY <2>2, FailedSamplers
  <2>3. CASE Route(q) \/ NoBackend(q) \/ Refuse(q) \/ Ask(q)
    BY <1>1, <2>3 DEF Route, NoBackend, Refuse, Ask, statusVars, rebuildVars
  <2> QED
    BY <1>2, <2>1, <2>2, <2>3 DEF QueryStep
<1>3. ASSUME NEW l \in Loop, LoopStep(l)
      PROVE  StaleBuildsFollowed' /\ SamplerSettles'
  <2>1. CASE PingSucceeds(l)
    BY <2>1, PingEnds, SucceededSamplers
  <2>2. CASE StartPing(l) \/ LoopCancelled(l) \/ PingFails(l)
    BY <1>1, <2>2 DEF StartPing, LoopCancelled, PingFails, statusVars, rebuildVars
  <2> QED
    BY <1>3, <2>1, <2>2 DEF LoopStep
<1>4. ASSUME NEW p \in Proc, RebuildStep(p)
      PROVE  StaleBuildsFollowed' /\ SamplerSettles'
  BY <1>4, RebuildStale, RebuildSettles
<1>5. ASSUME \/ Cancel \/ (\E u \in Upstream : CloseUpstream(u))
             \/ (\E b \in Lb, u \in Upstream : UnRegLb(b, u)) \/ UNCHANGED vars
      PROVE  StaleBuildsFollowed' /\ SamplerSettles'
  BY <1>1, <1>5 DEF Cancel, CloseUpstream, UnRegLb, vars, statusVars, rebuildVars
<1> QED
  BY <1>2, <1>3, <1>4, <1>5 DEF Next

-----------------------------------------------------------------------------
LEMMA NextHealth == HealthInv /\ [Next]_vars => HealthInv'
BY HealthTypes, HealthRebuilds, HealthSeen, HealthCallers, HealthWatched, HealthRegistered,
   HealthSamplers DEF HealthInv

(* The invariant of wrappers and balancers.                                *)
THEOREM HealthInvariant == Spec => []HealthInv
BY InitHealth, NextHealth, PTL DEF Spec

(* Types; in particular a sampler never holds more than what was read.     *)
THEOREM HealthTypeCorrect == Spec => []TypeOK
<1>1. HealthInv => TypeOK
  BY DEF HealthInv
<1> QED
  BY <1>1, HealthInvariant, PTL

(* An offline upstream has exactly one live ping loop, the one hcSucceed   *)
(* can cancel, and an online upstream has none, whatever late results and  *)
(* cancelled loops still report.                                           *)
THEOREM HealthOneWatcher == Spec => []OneWatcher
<1>1. HealthInv => OneWatcher
  <2> SUFFICES ASSUME HealthInv, ~closing, NEW u \in Upstream
               PROVE  {l \in Loop : Alive(l) /\ loopOf[l] = u} =
                        IF offline[u] THEN {cancelPingLoop[u]} ELSE {}
    BY DEF OneWatcher
  <2>1. /\ offline[u] <=> cancelPingLoop[u] # None
        /\ \A l \in Loop : cancelPingLoop[u] = l <=> Alive(l) /\ loopOf[l] = u
    BY DEF HealthInv, Watched
  <2>2. cancelPingLoop[u] \in Loop \cup {None}
    BY DEF HealthInv, TypeOK
  <2>3. None \notin Loop
    BY HealthAssumption
  <2> QED
    BY <2>1, <2>2, <2>3
<1> QED
  BY <1>1, HealthInvariant, PTL

(* Overlapping rebuilds: a sampler that disagrees with the status of an    *)
(* upstream is always followed by one that has seen it.                    *)
THEOREM HealthSamplerSettles == Spec => []SamplerSettles
<1>1. HealthInv => SamplerSettles
  BY DEF HealthInv
<1> QED
  BY <1>1, HealthInvariant, PTL

=============================================================================
