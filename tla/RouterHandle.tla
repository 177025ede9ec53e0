---------------------------- MODULE RouterHandle ----------------------------
(***************************************************************************)
(* How a query is answered: BuiltInHandler, handleRespIpFallback and the   *)
(* prefetching of app/router/router_handle.go, with the rules of rule.go,  *)
(* over the cache of module ResponseCache.                                 *)
(*                                                                         *)
(* Handlers and prefetching goroutines stop wherever they wait or may be   *)
(* overtaken: for redis, for an upstream, between the stamp of an entry    *)
(* and the write to the memory cache, and before the write to redis.       *)
(***************************************************************************)
EXTENDS ResponseCache

CONSTANTS
    Handler,      \* goroutines that handle queries
    Prefetcher,   \* goroutines of AsyncSingleFlightPrefetch
    Rules         \* Router.rules, a sequence of records, see RuleType

RuleType ==
    [kind : {"reject", "hosts", "refuse", "forward"},
     domain : SUBSET Question,  \* the questions that _match
     reverse : BOOLEAN,
     hosts : SUBSET Question,   \* the questions Hosts.Response answers
     forward : Tag \cup {None},
     respIp : BOOLEAN,          \* has a respIpSet
     fallback : Tag \cup {None}]

ASSUME RulesAssumption ==
    /\ Rules \in Seq(RuleType)
    /\ \A i \in DOMAIN Rules :
        /\ Rules[i].kind = "forward" <=> Rules[i].forward # None
        /\ Rules[i].fallback # None => Rules[i].respIp
    /\ Handler \cap Prefetcher = {} /\ None \notin Key

VARIABLES
    pc,           \* where each goroutine stands
    question,     \* its QueryCtx.Question
    rule,         \* index of the rule it is at
    stage,        \* "primary", or "fallback" for resp_ip_forward
    entry,        \* what it read from redis, or is about to store there
    resp,         \* QueryCtx.resp
    held,         \* the key a prefetcher reserved
    sf            \* prefetchCtl.queue

Proc == Handler \cup Prefetcher

procVars == <<pc, question, rule, stage, entry, resp, held>>
vars == <<now, cacheVars, procVars, sf>>

HandleTypeOK ==
    /\ CacheTypeOK
    /\ pc \in [Proc -> {"idle", "rule", "lookup", "redis", "fill", "ask", "store", "save", "done"}]
    /\ \A f \in Prefetcher : pc[f] \in {"idle", "ask", "store", "save"}
    /\ question \in [Proc -> Question \cup {None}]
    /\ rule \in [Proc -> 0..Len(Rules) + 1]
    /\ stage \in [Proc -> {"primary", "fallback"}]
    /\ entry \in [Proc -> Entry \cup {None}]
    /\ resp \in [Proc -> Response \cup {None}]
    /\ held \in [Prefetcher -> Key \cup {None}]
    /\ sf \subseteq Key

Init ==
    /\ CacheInit
    /\ pc = [p \in Proc |-> "idle"]
    /\ question = [p \in Proc |-> None]
    /\ rule = [p \in Proc |-> 0]
    /\ stage = [p \in Proc |-> "primary"]
    /\ entry = [p \in Proc |-> None]
    /\ resp = [p \in Proc |-> None]
    /\ held = [f \in Prefetcher |-> None]
    /\ sf = {}

-----------------------------------------------------------------------------
Matches(i, q) == (q \in Rules[i].domain) # Rules[i].reverse

\* A hosts rule without an answer is passed over.
Applies(i, q) == Matches(i, q) /\ (Rules[i].kind = "hosts" => q \in Rules[i].hosts)

\* The rules from p's on that apply; the first of them decides.
Left(p) == {i \in rule[p]..Len(Rules) : Applies(i, question[p])}

Target(p) == IF stage[p] = "primary" THEN Rules[rule[p]].forward ELSE Rules[rule[p]].fallback

\* The buffer ckb: handleRespIpFallback builds the key anew.
KeyNotRebuilt(p) == <<question[p], Rules[rule[p]].forward>>
KeyOf(p) == <<question[p], Target(p)>>

\* resp_ip is not looked at again on the way through resp_ip_forward.
RespIpMatches(p, r) == stage[p] = "primary" /\ Rules[rule[p]].respIp /\ r.blocked

Local(q, rcode) ==
    [q |-> q, from |-> None, born |-> now, rcode |-> rcode, hasRr |-> FALSE, blocked |-> FALSE]

Goto(p, state) == pc' = [pc EXCEPT ![p] = state]

Respond(h, r) ==
    /\ resp' = [resp EXCEPT ![h] = r]
    /\ Goto(h, "done")

\* A matched response is dropped: on to resp_ip_forward or to the next rule.
PassOver(h) ==
    /\ resp' = [resp EXCEPT ![h] = None]
    /\ IF Rules[rule[h]].fallback # None
       THEN /\ stage' = [stage EXCEPT ![h] = "fallback"]
            /\ Goto(h, "lookup")
            /\ UNCHANGED rule
       ELSE /\ rule' = [rule EXCEPT ![h] = @ + 1]
            /\ Goto(h, "rule")
            /\ UNCHANGED stage

-----------------------------------------------------------------------------
Receive(h) ==
    /\ pc[h] = "idle"
    /\ \E q \in Question : question' = [question EXCEPT ![h] = q]
    /\ rule' = [rule EXCEPT ![h] = 1]
    /\ stage' = [stage EXCEPT ![h] = "primary"]
    /\ resp' = [resp EXCEPT ![h] = None]
    /\ Goto(h, "rule")
    /\ UNCHANGED <<now, cacheVars, entry, held, sf>>

TakeRule(h) ==
    /\ pc[h] = "rule"
    /\ \/ /\ Left(h) = {}
          /\ Respond(h, Local(question[h], "refused"))
          /\ UNCHANGED rule
       \/ \E i \in Left(h) :
            /\ \A j \in Left(h) : i <= j
            /\ rule' = [rule EXCEPT ![h] = i]
            /\ IF Rules[i].kind = "forward"
               THEN Goto(h, "lookup") /\ UNCHANGED resp
               ELSE Respond(h, Local(question[h],
                                     IF Rules[i].kind = "hosts" THEN "success" ELSE "refused"))
    /\ UNCHANGED <<now, cacheVars, question, stage, entry, held, sf>>

\* AsyncSingleFlightPrefetch, in the goroutine of the query that was served.
ReservableTwice(k) == TRUE
Reservable(k) == k \notin sf

ServeHit(h, e) ==
    /\ resp' = [resp EXCEPT ![h] = e.resp]
    /\ IF NeedPrefetch(e) /\ Reservable(KeyOf(h))
       THEN \E f \in Prefetcher :
            /\ pc[f] = "idle"
            /\ pc' = [pc EXCEPT ![h] = "done", ![f] = "ask"]
            /\ question' = [question EXCEPT ![f] = question[h]]
            /\ rule' = [rule EXCEPT ![f] = rule[h]]
            /\ stage' = [stage EXCEPT ![f] = stage[h]]
            /\ held' = [held EXCEPT ![f] = KeyOf(h)]
            /\ sf' = sf \cup {KeyOf(h)}
       ELSE Goto(h, "done") /\ UNCHANGED <<question, rule, stage, held, sf>>

CheckedHitUnchecked(h, e) == ServeHit(h, e)
CheckedHit(h, e) ==
    \/ RespIpMatches(h, e.resp) /\ PassOver(h) /\ UNCHANGED <<question, held, sf>>
    \/ ~RespIpMatches(h, e.resp) /\ ServeHit(h, e)

Hit(h) ==
    /\ pc[h] = "lookup" /\ Cached(memory, KeyOf(h))
    /\ CheckedHit(h, memory[KeyOf(h)])
    /\ UNCHANGED <<now, cacheVars, entry>>

Miss(h) ==
    /\ pc[h] = "lookup" /\ ~Cached(memory, KeyOf(h))
    /\ Goto(h, "redis")
    /\ UNCHANGED <<now, cacheVars, question, rule, stage, entry, resp, held, sf>>

\* The GET may fail like a miss.
RedisGet(h) ==
    /\ pc[h] = "redis"
    /\ \/ /\ Cached(redis, KeyOf(h))
          /\ entry' = [entry EXCEPT ![h] = redis[KeyOf(h)]]
          /\ Goto(h, "fill")
       \/ Goto(h, "ask") /\ UNCHANGED entry
    /\ UNCHANGED <<now, cacheVars, question, rule, stage, resp, held, sf>>

FillMemory(h) ==
    /\ pc[h] = "fill"
    /\ memory' = Fill(KeyOf(h), entry[h])
    /\ CheckedHit(h, entry[h])
    /\ entry' = [entry EXCEPT ![h] = None]
    /\ UNCHANGED <<now, redis>>

-----------------------------------------------------------------------------
(* forward, then CacheCtl.Store; by handlers and prefetchers alike.        *)

\* The upstream's reply is packed and stamped with the time.  Up to the stamp
\* nobody else sees anything of it, so it counts as received when stamped.
Answered(p) ==
    /\ pc[p] = "ask"
    /\ \E r \in Reply :
        LET a == Answer(question[p], Target(p), r) IN
        /\ resp' = [resp EXCEPT ![p] = a]
        /\ entry' = [entry EXCEPT ![p] = NewEntry(a)]
    /\ Goto(p, "store")
    /\ UNCHANGED <<now, cacheVars, question, rule, stage, held, sf>>

\* No lock joins the stamp and the write: other entries of the key, of later
\* stamps too, may have been written in between.
StoreMemory(p) ==
    /\ pc[p] = "store"
    /\ memory' = StoreIn(memory, KeyOf(p), entry[p])
    /\ Goto(p, "save")
    /\ UNCHANGED <<now, redis, question, rule, stage, entry, resp, held, sf>>

\* Its goroutine ends; prefetchSf.Done is deferred.
Finish(f) == sf' = sf \ {held[f]}

EndPrefetch(f) ==
    /\ Finish(f)
    /\ Goto(f, "idle")
    /\ question' = [question EXCEPT ![f] = None]
    /\ rule' = [rule EXCEPT ![f] = 0]
    /\ stage' = [stage EXCEPT ![f] = "primary"]
    /\ resp' = [resp EXCEPT ![f] = None]
    /\ held' = [held EXCEPT ![f] = None]

\* The upstream failed or the query's ctx is done: a handler answers SERVFAIL.
AskFails(p) ==
    /\ pc[p] = "ask"
    /\ IF p \in Handler
       THEN /\ Respond(p, Local(question[p], "servfail"))
            /\ UNCHANGED <<question, rule, stage, held, sf>>
       ELSE EndPrefetch(p)
    /\ UNCHANGED <<now, cacheVars, entry>>

\* The SET may fail.
Save(p) ==
    /\ pc[p] = "save"
    /\ redis' \in {redis, StoreIn(redis, KeyOf(p), entry[p])}
    /\ entry' = [entry EXCEPT ![p] = None]
    /\ \/ /\ p \in Handler
          /\ IF RespIpMatches(p, resp[p]) THEN PassOver(p)
             ELSE Goto(p, "done") /\ UNCHANGED <<rule, stage, resp>>
          /\ UNCHANGED <<question, held, sf>>
       \/ /\ p \in Prefetcher
          /\ IF RespIpMatches(p, resp[p]) /\ Rules[rule[p]].fallback # None
             THEN /\ stage' = [stage EXCEPT ![p] = "fallback"]
                  /\ Goto(p, "ask")
                  /\ UNCHANGED <<question, rule, resp, held, sf>>
             ELSE EndPrefetch(p)
    /\ UNCHANGED <<now, memory>>

-----------------------------------------------------------------------------
\* The response is written out and the QueryCtx released.
Release(h) ==
    /\ pc[h] = "done"
    /\ Goto(h, "idle")
    /\ question' = [question EXCEPT ![h] = None]
    /\ rule' = [rule EXCEPT ![h] = 0]
    /\ resp' = [resp EXCEPT ![h] = None]
    /\ stage' = [stage EXCEPT ![h] = "primary"]
    /\ UNCHANGED <<now, cacheVars, entry, held, sf>>

HandlerStep(h) ==
    \/ TakeRule(h) \/ Hit(h) \/ Miss(h) \/ RedisGet(h) \/ FillMemory(h)
    \/ Answered(h) \/ AskFails(h) \/ StoreMemory(h) \/ Save(h) \/ Release(h)

PrefetchStep(f) == Answered(f) \/ AskFails(f) \/ StoreMemory(f) \/ Save(f)

Environment ==
    \/ Tick /\ UNCHANGED cacheVars
    \/ Evict /\ UNCHANGED <<now, redis>>

Next ==
    \/ \E h \in Handler : Receive(h) \/ HandlerStep(h)
    \/ \E f \in Prefetcher : PrefetchStep(f)
    \/ Environment /\ UNCHANGED <<procVars, sf>>

Spec == Init /\ [][Next]_vars

-----------------------------------------------------------------------------
(* docs of resp_ip: a response that matches is dropped.  What a client     *)
(* gets does not come from an upstream whose matching answer the rule      *)
(* drops, whichever way it was found: asked for, in memory or in redis.    *)
NoMatchedServed ==
    \A h \in Handler : pc[h] = "done" /\ resp[h].from # None =>
        /\ resp[h].q = question[h]
        /\ resp[h].from = Target(h)
        /\ ~RespIpMatches(h, resp[h])

(* A key is prefetched by one goroutine at a time, and reserved only while *)
(* that goroutine runs: neither twice nor never again.                     *)
SingleFlight ==
    /\ \A f, g \in Prefetcher : f # g /\ held[f] # None => held[f] # held[g]
    /\ sf = {held[f] : f \in Prefetcher} \ {None}

(* While the memory cache has an entry for a key, it goes back to an older *)
(* one in one way only: by the write of a goroutine that had a good answer *)
(* from the upstream itself, and was overtaken between its stamp and its   *)
(* write.  A slow read of redis, or a failure, never takes it back.        *)
OlderOnlyOvertaken ==
    [][\A k \in Key :
        Cached(memory, k) /\ memory'[k] # None /\ memory'[k].stored < memory[k].stored =>
            \E p \in Proc :
                /\ pc[p] = "store" /\ pc'[p] = "save" /\ KeyOf(p) = k
                /\ memory'[k] = entry[p] /\ ~Negative(entry[p].resp)]_vars
=============================================================================
