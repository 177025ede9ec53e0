---------------------------- MODULE ResponseCache ----------------------------
(***************************************************************************)
(* The response cache of app/router/cache.go: CacheCtl over the memory     *)
(* cache (internal/cache/mem.go) and redis (internal/cache/redis.go).      *)
(*                                                                         *)
(* This module has the state of the cache and its operations; module       *)
(* RouterHandle has the goroutines that use it.  A response keeps what     *)
(* the cache and the rules look at: its rcode, whether it has records, if  *)
(* they are in the resp_ip set, and where and when it comes from.  Time    *)
(* runs from 0 to MaxTime.  A redis that is offline (backendOnline) is     *)
(* like one whose commands fail.                                           *)
(***************************************************************************)
EXTENDS Integers, Sequences

CONSTANTS
    Question,       \* the part of the cache key a query determines
    Tag,            \* forward tags: upstreams and load balancers
    Reply,          \* what upstreams answer: [rcode, hasRr, blocked]
    None,
    RrTtl,          \* minimal ttl of a response with records
    DefaultTtl,     \* defaultTtl of each rcode in CacheCtl.Store
    MaximumTtl,     \* CacheCtl.maximumTtl
    OptimisticTtl,  \* CacheCtl.optimisticTtl
    PrefetchDen,    \* the prefetch threshold is 1 / PrefetchDen
    MaxTime

RCode == {"success", "nxdomain", "servfail", "refused"}

ASSUME CacheAssumption ==
    /\ Reply \subseteq [rcode : RCode, hasRr : BOOLEAN, blocked : BOOLEAN]
    /\ None \notin Tag
    /\ RrTtl \in Nat /\ DefaultTtl \in [RCode -> Nat] /\ MaximumTtl \in Nat \ {0}
    /\ OptimisticTtl \in Nat /\ PrefetchDen \in Nat \ {0} /\ MaxTime \in Nat

VARIABLES
    now,            \* the clock, in seconds
    memory,         \* the memory cache
    redis           \* the redis database

cacheVars == <<memory, redis>>

Key == Question \X Tag
Response ==
    [q : Question, from : Tag \cup {None}, born : 0..MaxTime,
     rcode : RCode, hasRr : BOOLEAN, blocked : BOOLEAN]
Entry == [resp : Response, stored : Nat, expire : Nat, cacheExpire : Nat]

\* A response to q from upstream t, stamped now.
Answer(q, t, r) ==
    [q |-> q, from |-> t, born |-> now, rcode |-> r.rcode, hasRr |-> r.hasRr,
     blocked |-> r.blocked]

CacheInit ==
    /\ now = 0
    /\ memory = [k \in Key |-> None]
    /\ redis = [k \in Key |-> None]

-----------------------------------------------------------------------------
(* Time to live                                                            *)

AtMost(n, m) == IF n < m THEN n ELSE m

\* The switch of Store, and the clamp to 1..maximumTtl.
RawTtl(r) ==
    IF ~r.hasRr THEN DefaultTtl[r.rcode]
    ELSE IF r.rcode = "success" THEN RrTtl
    ELSE AtMost(DefaultTtl[r.rcode], RrTtl)

MsgTtl(r) == IF RawTtl(r) < 1 THEN 1 ELSE AtMost(RawTtl(r), MaximumTtl)

Optimistic(r) == IF r.rcode = "success" /\ r.hasRr THEN OptimisticTtl ELSE 0

NewEntry(r) ==
    [resp |-> r, stored |-> now, expire |-> now + MsgTtl(r),
     cacheExpire |-> now + MsgTtl(r) + Optimistic(r)]

Negative(r) == r.rcode # "success"

NeedPrefetch(e) == e.expire - now < (e.expire - e.stored) \div PrefetchDen

-----------------------------------------------------------------------------
(* The backends.  An entry is there until cacheExpire.                     *)

Cached(store, k) == store[k] # None /\ now < store[k].cacheExpire

\* MemoryCache.Store and RedisCache.Store; setNX keeps an entry that is there.
Put(store, k, e, setNX) ==
    IF now >= e.cacheExpire \/ (setNX /\ Cached(store, k)) THEN store
    ELSE [store EXCEPT ![k] = e]

\* The last step of getRedisCache: a redis hit fills the memory cache.
FillRestamped(k, e) == Put(memory, k, NewEntry(e.resp), TRUE)
FillOverwrites(k, e) == Put(memory, k, e, FALSE)
Fill(k, e) == Put(memory, k, e, TRUE)

\* What CacheCtl.Store does to one backend.
StoreAnyway(store, k, e) == Put(store, k, e, FALSE)
StoreIn(store, k, e) == Put(store, k, e, Negative(e.resp))

\* The memory cache is bounded.  (Redis may drop a key as well, which a GET
\* that fails stands for.)
Evict == \E k \in Key : memory' = [memory EXCEPT ![k] = None]

Tick == now < MaxTime /\ now' = now + 1

-----------------------------------------------------------------------------
CacheTypeOK ==
    /\ now \in 0..MaxTime
    /\ memory \in [Key -> Entry \cup {None}]
    /\ redis \in [Key -> Entry \cup {None}]

(* Whoever stored it, an entry answers the question of its key and comes   *)
(* from the upstream or load balancer the key names.                       *)
OwnKey(k, r) == r.q = k[1] /\ r.from = k[2]
Coherent ==
    \A k \in Key : \A store \in {memory, redis} :
        Cached(store, k) => OwnKey(k, store[k].resp)

(* Nothing outlives the ttl it had when it was stamped, plus the           *)
(* optimistic one: not by a late write, nor by moving between backends.    *)
NothingOutlives ==
    \A k \in Key : \A store \in {memory, redis} :
        Cached(store, k) =>
            LET r == store[k].resp
            IN store[k].cacheExpire <= r.born + MsgTtl(r) + Optimistic(r)

(* A failure of an upstream does not displace a good answer that is cached *)
NegativeKeepsPositive ==
    [][\A k \in Key : \A i \in {1, 2} :
        LET old == cacheVars[i]
            new == cacheVars'[i]
        IN Cached(old, k) /\ ~Negative(old[k].resp) /\ new[k] # None
            => ~Negative(new[k].resp)]_<<now, cacheVars>>
=============================================================================
