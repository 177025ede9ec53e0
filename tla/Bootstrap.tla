------------------------------ MODULE Bootstrap ------------------------------
(***************************************************************************)
(* The bootstrap resolver of an upstream (internal/upstream/bootstrap.go): *)
(* dials resolve the host of the upstream first.  Lookups that run at the  *)
(* same time share one query; an address is kept for its ttl.              *)
(*                                                                         *)
(* An upstream has one host, so the maps of the code have one entry here.  *)
(* Time is counted in ticks of bootstrapMinTTL.                            *)
(***************************************************************************)
EXTENDS Naturals

CONSTANTS
    Lookups,          \* goroutines that dial
    NoLookup,
    Ttls              \* ttls of answers, in ticks

VARIABLES
    hostKind,         \* what is dialled: an "address", a "unix" socket or a "name"
    bootstrapped,     \* opt.Bootstrap # nil
    lookup,           \* lookup[l]: where goroutine l is in resolve
    inflight,         \* inflight[host], an InflightQuery or NoLookup
    cache             \* ticks the entry of cache is still good for

\* Who leads it, whether it is done and with what.
InflightQuery == [by : Lookups, state : {"pending", "ips", "err"}, ttl : Nat]

bootstrapVars == <<hostKind, bootstrapped, lookup, inflight, cache>>
lookupVars == <<lookup, inflight, cache>>

BootstrapInit ==
    /\ hostKind \in {"address", "unix", "name"}
    /\ bootstrapped \in BOOLEAN
    /\ lookup = [l \in Lookups |-> "none"]
    /\ inflight = NoLookup
    /\ cache = 0

At(l, s) == lookup' = [lookup EXCEPT ![l] = s]

(* utils.go resolveDialAddr: nothing to resolve.  A unix socket is taken   *)
(* for a name when there is a resolver.                                    *)
Resolves == bootstrapped /\ hostKind # "address"

ResolveNothing(l) ==
    /\ ~Resolves
    /\ At(l, "found")
    /\ UNCHANGED <<inflight, cache>>

ResolveCached(l) ==
    /\ Resolves /\ cache > 0
    /\ At(l, "found")
    /\ UNCHANGED <<inflight, cache>>

(* The query may be done but not yet deleted: its result is there at once. *)
ResolveFollowing(l) ==
    /\ Resolves /\ cache = 0 /\ inflight # NoLookup
    /\ At(l, CASE inflight.state = "pending" -> "following"
               [] inflight.state = "ips" -> "found"
               [] inflight.state = "err" -> "failed")
    /\ UNCHANGED <<inflight, cache>>

ResolveLeadingAlone(l) ==
    /\ Resolves /\ cache = 0
    /\ inflight' = [by |-> l, state |-> "pending", ttl |-> 0]
    /\ At(l, "leading")
    /\ UNCHANGED cache

ResolveLeading(l) ==
    /\ Resolves /\ cache = 0 /\ inflight = NoLookup
    /\ inflight' = [by |-> l, state |-> "pending", ttl |-> 0]
    /\ At(l, "leading")
    /\ UNCHANGED cache

Resolve(l) ==
    /\ lookup[l] = "none"
    /\ ResolveNothing(l) \/ ResolveCached(l) \/ ResolveFollowing(l) \/ ResolveLeading(l)

(* What the A and the AAAA query bring: an error, which the end of the     *)
(* leader's context is too, no address, or addresses with their least ttl. *)
Reply == [kind : {"err", "none"}, ttl : {0}] \cup [kind : {"ips"}, ttl : Ttls]

WithIps(replies) == {r \in replies : r.kind = "ips"}

LeastTtl(replies) ==
    CHOOSE t \in {r.ttl : r \in WithIps(replies)} : \A r \in WithIps(replies) : t <= r.ttl

ToldOfSuccess(state) ==
    [l \in Lookups |-> IF lookup[l] = "following" /\ state = "ips" THEN "found" ELSE lookup[l]]

(* close(q.done): those who wait are told, of an error as well.            *)
Told(state) ==
    [l \in Lookups |-> IF lookup[l] # "following" THEN lookup[l]
                       ELSE IF state = "ips" THEN "found" ELSE "failed"]

QueryReturns(l) ==
    /\ lookup[l] = "leading"
    /\ \E r4, r6 \in Reply :
          LET ok == WithIps({r4, r6}) # {} /\ hostKind = "name"
              state == IF ok THEN "ips" ELSE "err"
          IN /\ inflight' = [by |-> l, state |-> state,
                             ttl |-> IF ok THEN LeastTtl({r4, r6}) ELSE 0]
             /\ lookup' = [Told(state) EXCEPT ![l] = "ending"]
    /\ UNCHANGED cache

MaxTtl(a, b) == IF a > b THEN a ELSE b

(* The leader deletes the query and keeps addresses for 30 s at least.     *)
ResolveEnds(l) ==
    /\ lookup[l] = "ending"
    /\ IF inflight.state = "ips"
       THEN At(l, "found") /\ cache' = MaxTtl(inflight.ttl, 1)
       ELSE At(l, "failed") /\ UNCHANGED cache
    /\ inflight' = NoLookup

(* The context of one that waits ends.                                     *)
FollowerLeaves(l) ==
    /\ lookup[l] = "following"
    /\ At(l, "failed")
    /\ UNCHANGED <<inflight, cache>>

Tick ==
    /\ cache > 0
    /\ cache' = cache - 1
    /\ UNCHANGED <<lookup, inflight>>

LookupStep(l) == Resolve(l) \/ QueryReturns(l) \/ ResolveEnds(l) \/ FollowerLeaves(l)

(* There is one query at a time, and none as long as an address is cached: *)
(* dials that start together do not each ask (bootstrap.go, resolve).      *)
SingleLookup ==
    \A l \in Lookups : lookup[l] \in {"leading", "ending"} =>
        /\ inflight # NoLookup /\ inflight.by = l
        /\ cache = 0

(* Whoever waits for the query of another goroutine waits for one that is  *)
(* still running and will tell it, whatever became of queries before.      *)
FollowersAreTold ==
    (\E l \in Lookups : lookup[l] = "following") =>
        /\ inflight # NoLookup /\ inflight.state = "pending"
        /\ lookup[inflight.by] = "leading"
=============================================================================
