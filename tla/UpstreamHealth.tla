--------------------------- MODULE UpstreamHealth ---------------------------
(***************************************************************************)
(* Health checking of upstreams and the load balancers that use it:        *)
(* app/router/upstream.go and app/router/upstream_lb.go.                   *)
(*                                                                         *)
(* The processes are the queries and the ping loop goroutines.  A critical *)
(* section of hcLock is one action.  lbsLock and idxM are held over        *)
(* several steps, so they are variables: a rebuild of the load balancers   *)
(* reads the status of each backend in a step of its own.  Time is not     *)
(* modelled: a ping may start whenever the timer or HcTryStartPing could   *)
(* let it.  continuousErr is only compared with maxFails and saturates.    *)
(***************************************************************************)
EXTENDS Naturals, Sequences

CONSTANTS
    Upstream,     \* the UpstreamWrappers
    Lb,           \* the LoadBalancers
    Query,        \* queries in progress
    Loop,         \* identities of ping loops (goroutine and context)
    None,
    MaxFails,     \* MaxFails[u]: hcCfg.MaxFails, 0 disables health checks
    Backends      \* Backends[b]: the upstreams of LoadBalancer.e, in order

ASSUME HealthAssumption ==
    /\ MaxFails \in [Upstream -> Nat]
    /\ Backends \in [Lb -> Seq(Upstream) \ {<<>>}]
    /\ None \notin Upstream \cup Lb \cup Query \cup Loop
    /\ Query \cap Loop = {}

Proc == Query \cup Loop

VARIABLES
    offline,        \* UpstreamWrapper.offline
    continuousErr,  \* UpstreamWrapper.continuousErr
    cancelPingLoop, \* the loop that UpstreamWrapper.cancelPingLoop cancels
    lbs,            \* keys of UpstreamWrapper.lbs
    lbsLock,        \* who holds UpstreamWrapper.lbsLock
    idxM,           \* who holds LoadBalancer.idxM
    sampler,        \* LoadBalancer.sampler: the backends that are online
    loopPc,         \* where each ping loop stands
    loopOf,         \* its upstream
    cancelled,      \* its context was cancelled by hcSucceed
    queryPc,        \* where each query stands
    target,         \* the upstream it is sent to
    rebuild,        \* progress of hcRebuildLbsIdx in each process
    cause,          \* the upstream whose status changed
    todo,           \* load balancers yet to be rebuilt
    building,       \* the one being rebuilt
    next,           \* index of the backend to be read next
    seen,           \* bs of the sampler being built
    closing,        \* Router.cancel was called: every context is done
    shut            \* upstreams that were closed

statusVars == <<offline, continuousErr, cancelPingLoop>>
loopVars == <<loopPc, loopOf, cancelled>>
queryVars == <<queryPc, target>>
buildVars == <<todo, building, next, seen>>
lockVars == <<lbsLock, idxM>>
rebuildVars == <<rebuild, cause, buildVars, lockVars, sampler>>
closeVars == <<lbs, closing, shut>>
vars == <<statusVars, loopVars, queryVars, rebuildVars, closeVars>>

TypeOK ==
    /\ offline \in [Upstream -> BOOLEAN]
    /\ continuousErr \in [Upstream -> Nat]
    /\ cancelPingLoop \in [Upstream -> Loop \cup {None}]
    /\ lbs \in [Upstream -> SUBSET Lb]
    /\ lbsLock \in [Upstream -> Proc \cup {None}]
    /\ idxM \in [Lb -> Proc \cup {None}]
    /\ sampler \in [Lb -> Seq(Upstream)]
    /\ loopPc \in [Loop -> {"free", "select", "ping"}]
    /\ loopOf \in [Loop -> Upstream \cup {None}]
    /\ cancelled \in [Loop -> BOOLEAN]
    /\ queryPc \in [Query -> {"idle", "routed", "asked"}]
    /\ target \in [Query -> Upstream \cup {None}]
    /\ rebuild \in [Proc -> {"no", "want", "locked", "building"}]
    /\ cause \in [Proc -> Upstream \cup {None}]
    /\ todo \in [Proc -> SUBSET Lb]
    /\ building \in [Proc -> Lb \cup {None}]
    /\ next \in [Proc -> Nat]
    /\ seen \in [Proc -> Seq(Upstream)]
    /\ \A p \in Proc : Len(seen[p]) < next[p]
    /\ closing \in BOOLEAN
    /\ shut \subseteq Upstream

Uses(b, u) == \E i \in DOMAIN Backends[b] : Backends[b][i] = u

Init ==
    /\ offline = [u \in Upstream |-> FALSE]
    /\ continuousErr = [u \in Upstream |-> 0]
    /\ cancelPingLoop = [u \in Upstream |-> None]
    /\ lbs = [u \in Upstream |-> {b \in Lb : Uses(b, u)}]
    /\ lbsLock = [u \in Upstream |-> None]
    /\ idxM = [b \in Lb |-> None]
    /\ sampler = Backends
    /\ loopPc = [l \in Loop |-> "free"]
    /\ loopOf = [l \in Loop |-> None]
    /\ cancelled = [l \in Loop |-> FALSE]
    /\ queryPc = [q \in Query |-> "idle"]
    /\ target = [q \in Query |-> None]
    /\ rebuild = [p \in Proc |-> "no"]
    /\ cause = [p \in Proc |-> None]
    /\ todo = [p \in Proc |-> {}]
    /\ building = [p \in Proc |-> None]
    /\ next = [p \in Proc |-> 1]
    /\ seen = [p \in Proc |-> <<>>]
    /\ closing = FALSE
    /\ shut = {}

-----------------------------------------------------------------------------
HcEnabled(u) == MaxFails[u] > 0

\* hcSucceed in process p.  Only a change of the status is worth a rebuild.
StopPings(u) == [l \in Loop |-> cancelled[l] \/ l = cancelPingLoop[u]]

WantsRebuildNever(u) == FALSE
WantsRebuild(u) == offline[u]

HcSucceed(p, u) ==
    /\ continuousErr' = [continuousErr EXCEPT ![u] = 0]
    /\ offline' = [offline EXCEPT ![u] = FALSE]
    /\ cancelled' = StopPings(u)
    /\ cancelPingLoop' = [cancelPingLoop EXCEPT ![u] = None]
    /\ IF WantsRebuild(u)
       THEN /\ rebuild' = [rebuild EXCEPT ![p] = "want"]
            /\ cause' = [cause EXCEPT ![p] = u]
       ELSE UNCHANGED <<rebuild, cause>>

Failures(u) == IF continuousErr[u] < MaxFails[u] THEN continuousErr[u] + 1 ELSE MaxFails[u]

FallsOfflineAgain(u) == Failures(u) >= MaxFails[u]
FallsOffline(u) == ~offline[u] /\ Failures(u) >= MaxFails[u]

\* hcFailed: the goroutine it starts rebuilds the load balancers, then pings.
HcFailed(u) ==
    /\ continuousErr' = [continuousErr EXCEPT ![u] = Failures(u)]
    /\ IF FallsOffline(u)
       THEN \E l \in Loop :
            /\ loopPc[l] = "free" /\ rebuild[l] = "no"
            /\ \A v \in Upstream : cancelPingLoop[v] # l
            /\ offline' = [offline EXCEPT ![u] = TRUE]
            /\ cancelPingLoop' = [cancelPingLoop EXCEPT ![u] = l]
            /\ loopPc' = [loopPc EXCEPT ![l] = "select"]
            /\ loopOf' = [loopOf EXCEPT ![l] = u]
            /\ cancelled' = [cancelled EXCEPT ![l] = FALSE]
            /\ rebuild' = [rebuild EXCEPT ![l] = "want"]
            /\ cause' = [cause EXCEPT ![l] = u]
       ELSE UNCHANGED <<offline, cancelPingLoop, loopVars, rebuild, cause>>

\* HcTryStartPing: one loop that sits in its select may take the token (and
\* may ignore it for having pinged less than five seconds ago).
InSelect(l, u) == loopPc[l] = "select" /\ rebuild[l] = "no" /\ loopOf[l] = u

TryStartPing(u) ==
    \/ UNCHANGED loopPc
    \/ \E l \in Loop : InSelect(l, u) /\ loopPc' = [loopPc EXCEPT ![l] = "ping"]

-----------------------------------------------------------------------------
(* Queries: LoadBalancer.Exchange or directly UpstreamWrapper.Exchange.    *)

Free(q) == queryPc[q] = "idle" /\ rebuild[q] = "no"

Online(b) == {sampler[b][i] : i \in DOMAIN sampler[b]}

Route(q) ==
    /\ Free(q)
    /\ \E u \in Upstream \cup UNION {Online(b) : b \in Lb} :
        target' = [target EXCEPT ![q] = u]
    /\ queryPc' = [queryPc EXCEPT ![q] = "routed"]
    /\ UNCHANGED <<statusVars, loopVars, rebuildVars, closeVars>>

\* No backend of b is online: some backend is given a chance to be pinged.
NoBackend(q) ==
    /\ Free(q)
    /\ \E b \in Lb :
        /\ sampler[b] = <<>>
        /\ \E i \in DOMAIN Backends[b] : TryStartPing(Backends[b][i])
    /\ UNCHANGED <<statusVars, loopOf, cancelled, queryVars, rebuildVars, closeVars>>

\* ErrUpstreamOffline
Refuse(q) ==
    /\ queryPc[q] = "routed" /\ offline[target[q]]
    /\ TryStartPing(target[q])
    /\ queryPc' = [queryPc EXCEPT ![q] = "idle"]
    /\ target' = [target EXCEPT ![q] = None]
    /\ UNCHANGED <<statusVars, loopOf, cancelled, rebuildVars, closeVars>>

Ask(q) ==
    /\ queryPc[q] = "routed" /\ ~offline[target[q]]
    /\ queryPc' = [queryPc EXCEPT ![q] = "asked"]
    /\ UNCHANGED <<statusVars, loopVars, target, rebuildVars, closeVars>>

QuerySucceeds(q) ==
    /\ queryPc[q] = "asked" /\ target[q] \notin shut
    /\ queryPc' = [queryPc EXCEPT ![q] = "idle"]
    /\ target' = [target EXCEPT ![q] = None]
    /\ IF HcEnabled(target[q]) THEN HcSucceed(q, target[q])
       ELSE UNCHANGED <<statusVars, cancelled, rebuild, cause>>
    /\ UNCHANGED <<loopPc, loopOf, buildVars, lockVars, sampler, closeVars>>

\* Also when only the query's own ctx ended.
QueryFails(q) ==
    /\ queryPc[q] = "asked"
    /\ queryPc' = [queryPc EXCEPT ![q] = "idle"]
    /\ target' = [target EXCEPT ![q] = None]
    /\ IF HcEnabled(target[q]) THEN HcFailed(target[q])
       ELSE UNCHANGED <<statusVars, loopVars, rebuild, cause>>
    /\ UNCHANGED <<buildVars, lockVars, sampler, closeVars>>

-----------------------------------------------------------------------------
(* hcOfflinePingLoop.  A cancelled loop may ping once more: its select has *)
(* no order, and a ping does not use the loop's context.                   *)

CtxDoneOwnOnly(l) == cancelled[l]
CtxDone(l) == cancelled[l] \/ closing

StartPing(l) ==
    /\ loopPc[l] = "select" /\ rebuild[l] = "no"
    /\ loopPc' = [loopPc EXCEPT ![l] = "ping"]
    /\ UNCHANGED <<statusVars, loopOf, cancelled, queryVars, rebuildVars, closeVars>>

LoopCancelled(l) ==
    /\ loopPc[l] = "select" /\ rebuild[l] = "no" /\ CtxDone(l)
    /\ loopPc' = [loopPc EXCEPT ![l] = "free"]
    /\ loopOf' = [loopOf EXCEPT ![l] = None]
    /\ UNCHANGED <<statusVars, cancelled, queryVars, rebuildVars, closeVars>>

PingSucceeds(l) ==
    /\ loopPc[l] = "ping" /\ loopOf[l] \notin shut
    /\ HcSucceed(l, loopOf[l])
    /\ loopPc' = [loopPc EXCEPT ![l] = "free"]
    /\ loopOf' = [loopOf EXCEPT ![l] = None]
    /\ UNCHANGED <<queryVars, buildVars, lockVars, sampler, closeVars>>

PingFails(l) ==
    /\ loopPc[l] = "ping"
    /\ loopPc' = [loopPc EXCEPT ![l] = "select"]
    /\ UNCHANGED <<statusVars, loopOf, cancelled, queryVars, rebuildVars, closeVars>>

-----------------------------------------------------------------------------
(* hcRebuildLbsIdx, under lbsLock, and LoadBalancer.buildIdx, under idxM.  *)

LockLbs(p) ==
    /\ rebuild[p] = "want" /\ lbsLock[cause[p]] = None
    /\ todo' = [todo EXCEPT ![p] = lbs[cause[p]]]
    /\ IF lbs[cause[p]] = {}
       THEN /\ rebuild' = [rebuild EXCEPT ![p] = "no"]
            /\ cause' = [cause EXCEPT ![p] = None]
            /\ UNCHANGED lbsLock
       ELSE /\ rebuild' = [rebuild EXCEPT ![p] = "locked"]
            /\ lbsLock' = [lbsLock EXCEPT ![cause[p]] = p]
            /\ UNCHANGED cause
    /\ UNCHANGED <<statusVars, loopVars, queryVars, building, next, seen, idxM, sampler,
                   closeVars>>

MayBuildUnlocked(b) == TRUE
MayBuild(b) == idxM[b] = None

BuildStart(p) ==
    /\ rebuild[p] = "locked"
    /\ \E b \in todo[p] :
        /\ MayBuild(b)
        /\ idxM' = [idxM EXCEPT ![b] = p]
        /\ building' = [building EXCEPT ![p] = b]
    /\ rebuild' = [rebuild EXCEPT ![p] = "building"]
    /\ UNCHANGED <<statusVars, loopVars, queryVars, cause, todo, next, seen, lbsLock, sampler,
                   closeVars>>

\* HcOffline of the next backend
BuildRead(p) ==
    LET es == Backends[building[p]] IN
    /\ rebuild[p] = "building" /\ next[p] <= Len(es)
    /\ seen' = IF offline[es[next[p]]] THEN seen
               ELSE [seen EXCEPT ![p] = Append(@, es[next[p]])]
    /\ next' = [next EXCEPT ![p] = @ + 1]
    /\ UNCHANGED <<statusVars, loopVars, queryVars, rebuild, cause, todo, building, lockVars,
                   sampler, closeVars>>

\* Each build starts with an lbSampler of its own.
NewSampler(p) == [seen EXCEPT ![p] = <<>>]

BuildStore(p) ==
    LET b == building[p]
        left == todo[p] \ {b} IN
    /\ rebuild[p] = "building" /\ next[p] > Len(Backends[b])
    /\ sampler' = [sampler EXCEPT ![b] = seen[p]]
    /\ idxM' = [idxM EXCEPT ![b] = None]
    /\ todo' = [todo EXCEPT ![p] = left]
    /\ building' = [building EXCEPT ![p] = None]
    /\ next' = [next EXCEPT ![p] = 1]
    /\ seen' = NewSampler(p)
    /\ IF left # {}
       THEN /\ rebuild' = [rebuild EXCEPT ![p] = "locked"]
            /\ UNCHANGED <<cause, lbsLock>>
       ELSE /\ rebuild' = [rebuild EXCEPT ![p] = "no"]
            /\ cause' = [cause EXCEPT ![p] = None]
            /\ lbsLock' = [lbsLock EXCEPT ![cause[p]] = None]
    /\ UNCHANGED <<statusVars, loopVars, queryVars, closeVars>>

-----------------------------------------------------------------------------
(* Router.closeImpl: cancel, close the upstreams, unregister the load      *)
(* balancers.                                                              *)

Cancel ==
    /\ ~closing
    /\ closing' = TRUE
    /\ UNCHANGED <<statusVars, loopVars, queryVars, rebuildVars, lbs, shut>>

CloseUpstream(u) ==
    /\ closing
    /\ shut' = shut \cup {u}
    /\ UNCHANGED <<statusVars, loopVars, queryVars, rebuildVars, lbs, closing>>

UnRegLb(b, u) ==
    /\ shut = Upstream
    /\ b \in lbs[u] /\ lbsLock[u] = None
    /\ lbs' = [lbs EXCEPT ![u] = @ \ {b}]
    /\ UNCHANGED <<statusVars, loopVars, queryVars, rebuildVars, closing, shut>>

-----------------------------------------------------------------------------
QueryStep(q) ==
    \/ Route(q) \/ NoBackend(q) \/ Refuse(q) \/ Ask(q)
    \/ QuerySucceeds(q) \/ QueryFails(q)

LoopStep(l) == StartPing(l) \/ LoopCancelled(l) \/ PingSucceeds(l) \/ PingFails(l)

RebuildStep(p) == LockLbs(p) \/ BuildStart(p) \/ BuildRead(p) \/ BuildStore(p)

Next ==
    \/ \E q \in Query : QueryStep(q)
    \/ \E l \in Loop : LoopStep(l)
    \/ \E p \in Proc : RebuildStep(p)
    \/ Cancel
    \/ \E u \in Upstream : CloseUpstream(u)
    \/ \E b \in Lb, u \in Upstream : UnRegLb(b, u)

Spec == Init /\ [][Next]_vars

(* Goroutines are scheduled and the locks are handed over fairly; pings    *)
(* and timers end.  No query need ever come.  A select that finds the      *)
(* context done again and again takes that branch at last: its choice is   *)
(* random.                                                                 *)
Fairness ==
    /\ \A l \in Loop :
        /\ WF_vars(StartPing(l))
        /\ WF_vars(PingSucceeds(l) \/ PingFails(l))
        /\ SF_vars(LoopCancelled(l))
    /\ \A p \in Proc :
        /\ SF_vars(LockLbs(p))
        /\ SF_vars(BuildStart(p))
        /\ WF_vars(BuildRead(p) \/ BuildStore(p))

FairSpec == Spec /\ Fairness

-----------------------------------------------------------------------------
(* An upstream that is offline is watched by exactly one ping loop whose   *)
(* context is alive, the one that hcSucceed can cancel; one that is online *)
(* by none.  Late results of queries and of cancelled loops do not break   *)
(* it: an offline upstream without a loop would never be asked again.      *)
Alive(l) == loopPc[l] # "free" /\ ~cancelled[l]

OneWatcher ==
    ~closing => \A u \in Upstream :
        {l \in Loop : Alive(l) /\ loopOf[l] = u} =
            IF offline[u] THEN {cancelPingLoop[u]} ELSE {}

(* Some process p is going to store a sampler of b with u's present status *)
WillRefresh(p, b, u) ==
    \/ cause[p] = u /\ rebuild[p] = "want"
    \/ cause[p] = u /\ b \in todo[p] \ {building[p]}
    \/ /\ building[p] = b
       /\ \A i \in DOMAIN Backends[b] : Backends[b][i] = u =>
            i >= next[p] \/ (offline[u] <=> u \notin {seen[p][k] : k \in DOMAIN seen[p]})

(* A load balancer uses the backends that are online: its sampler differs  *)
(* from their statuses only while a rebuild that will see the new status   *)
(* is on its way, however rebuilds for different upstreams overlap.        *)
SamplerSettles ==
    \A b \in Lb, u \in Upstream :
        b \in lbs[u] /\ (offline[u] <=> u \in Online(b)) =>
            \E p \in Proc : WillRefresh(p, b, u)

(* An upstream that answers again (no ping and no query fails any more) is *)
(* back in all its load balancers for good, even if no query is sent.      *)
Failed(u) ==
    \/ \E q \in Query : target[q] = u /\ QueryFails(q)
    \/ \E l \in Loop : loopOf[l] = u /\ PingFails(l)

Recovers ==
    \A u \in Upstream :
        <>[]~closing /\ <>[][~Failed(u)]_vars => <>[](\A b \in lbs[u] : u \in Online(b))

(* Closing the router ends every ping loop, and those a late failure might *)
(* still start.                                                            *)
PingsEnd == \A l \in Loop : closing ~> loopPc[l] = "free"
=============================================================================
