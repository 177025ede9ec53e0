-------------------------- MODULE RouterHandleProofs --------------------------
(***************************************************************************)
(* Proofs about RouterHandle and the cache under it, for every set of      *)
(* rules, ttls, upstreams, handlers and prefetching goroutines.            *)
(***************************************************************************)
EXTENDS RouterHandle, TLAPS

(* An entry that may be stored under k: whoever found it, wherever.  Unlike *)
(* Coherent and NothingOutlives this holds of entries in flight as well,   *)
(* and of those that have expired.                                         *)
GoodEntry(k, e) ==
    /\ e \in Entry
    /\ OwnKey(k, e.resp)
    /\ e.stored <= now
    /\ e.cacheExpire <= e.resp.born + MsgTtl(e.resp) + Optimistic(e.resp)

GoodStore(store) ==
    /\ store \in [Key -> Entry \cup {None}]
    /\ \A k \in Key : store[k] # None => GoodEntry(k, store[k])

CacheOK == now \in 0..MaxTime /\ GoodStore(memory) /\ GoodStore(redis)

(* A goroutine that consults the cache or an upstream stands at a rule     *)
(* that forwards, in a stage that has a target.                            *)
Placed(p) ==
    /\ pc[p] # "idle" => question[p] \in Question
    /\ pc[p] = "rule" => stage[p] = "primary" /\ rule[p] \in Nat \ {0}
    /\ pc[p] \in {"lookup", "redis", "fill", "ask", "store", "save"} =>
        rule[p] \in DOMAIN Rules /\ Target(p) \in Tag

(* What it holds belongs to the key it holds it for.                       *)
Carries(p) ==
    /\ pc[p] \in {"fill", "store", "save"} => GoodEntry(KeyOf(p), entry[p])
    /\ pc[p] \in {"store", "save"} => resp[p] = entry[p].resp
    /\ pc[p] = "done" =>
        /\ resp[p] \in Response
        /\ resp[p].from # None =>
            OwnKey(KeyOf(p), resp[p]) /\ ~RespIpMatches(p, resp[p])

(* A prefetching goroutine holds its key as long as it runs.               *)
HoldsKey(f) == held[f] # None <=> pc[f] # "idle"

IInv ==
    /\ HandleTypeOK
    /\ CacheOK
    /\ \A p \in Proc : Placed(p) /\ Carries(p)
    /\ SingleFlight /\ \A f \in Prefetcher : HoldsKey(f)

-----------------------------------------------------------------------------
(* The operators of the cache                                              *)

LEMMA TtlType ==
    ASSUME NEW r, r.rcode \in RCode
    PROVE  MsgTtl(r) \in Nat /\ Optimistic(r) \in Nat
<1>1. RawTtl(r) \in Nat
  BY CacheAssumption DEF RawTtl, AtMost
<1> QED
  BY <1>1, CacheAssumption DEF MsgTtl, Optimistic, AtMost

(* An upstream's answer becomes an entry for the key it was asked with.    *)
LEMMA AnswerIsGood ==
    ASSUME now \in 0..MaxTime, NEW q \in Question, NEW t \in Tag, NEW r \in Reply
    PROVE  /\ Answer(q, t, r) \in Response
           /\ GoodEntry(<<q, t>>, NewEntry(Answer(q, t, r)))
<1> DEFINE a == Answer(q, t, r)
<1>1. a \in Response /\ a.q = q /\ a.from = t /\ a.born = now
  BY CacheAssumption DEF Answer, Response
<1>2. MsgTtl(a) \in Nat /\ Optimistic(a) \in Nat
  BY <1>1, TtlType DEF Response
<1> HIDE DEF a
<1>3. now \in Nat
  BY CacheAssumption
<1>4. /\ NewEntry(a) \in Entry /\ NewEntry(a).resp = a /\ NewEntry(a).stored = now
      /\ NewEntry(a).cacheExpire = now + MsgTtl(a) + Optimistic(a)
  BY <1>1, <1>2, <1>3 DEF NewEntry, Entry
<1>5. GoodEntry(<<q, t>>, NewEntry(a))
  BY <1>1, <1>2, <1>3, <1>4 DEF GoodEntry, OwnKey
<1> QED
  BY <1>1, <1>5 DEF a

(* Storing a good entry, with or without setNX, keeps a store good.        *)
LEMMA PutIsGood ==
    ASSUME NEW store, GoodStore(store), NEW k \in Key, NEW e, GoodEntry(k, e), NEW setNX
    PROVE  GoodStore(Put(store, k, e, setNX))
<1>1. e \in Entry
  BY DEF GoodEntry
<1>2. CASE Put(store, k, e, setNX) = store
  BY <1>2
<1>3. CASE Put(store, k, e, setNX) = [store EXCEPT ![k] = e]
  BY <1>1, <1>3 DEF GoodStore
<1> QED
  BY <1>2, <1>3 DEF Put

(* Good entries stay good while time passes.                               *)
LEMMA GoodEntryLater ==
    ASSUME now \in Nat, now' \in Nat, now' >= now, NEW k, NEW e, GoodEntry(k, e)
    PROVE  GoodEntry(k, e)'
BY DEF GoodEntry, Entry

LEMMA GoodStoreLater ==
    ASSUME now \in Nat, now' \in Nat, now' >= now, NEW store, GoodStore(store)
    PROVE  /\ store \in [Key -> Entry \cup {None}]
           /\ \A k \in Key : store[k] # None => GoodEntry(k, store[k])'
BY GoodEntryLater DEF GoodStore

-----------------------------------------------------------------------------
(* A step of one goroutine leaves the others as they are.                  *)

Same(p) ==
    /\ pc'[p] = pc[p] /\ question'[p] = question[p] /\ rule'[p] = rule[p]
    /\ stage'[p] = stage[p] /\ entry'[p] = entry[p] /\ resp'[p] = resp[p]

LEMMA SameKey ==
    ASSUME NEW p, question'[p] = question[p], rule'[p] = rule[p], stage'[p] = stage[p]
    PROVE  Target(p)' = Target(p) /\ KeyOf(p)' = KeyOf(p)
BY DEF Target, KeyOf

LEMMA SameStays ==
    ASSUME now \in Nat, now' \in Nat, now' >= now,
           NEW p, Placed(p), Carries(p), Same(p)
    PROVE  Placed(p)' /\ Carries(p)'
<1>1. Target(p)' = Target(p) /\ KeyOf(p)' = KeyOf(p)
  BY SameKey DEF Same
<1>2. Placed(p)'
  BY <1>1 DEF Placed, Same
<1>3. pc[p] \in {"fill", "store", "save"} => GoodEntry(KeyOf(p), entry[p])'
  <2>1. pc[p] \in {"fill", "store", "save"} => GoodEntry(KeyOf(p), entry[p])
    BY DEF Carries
  <2>2. \A k, e : GoodEntry(k, e) => GoodEntry(k, e)'
    BY GoodEntryLater
  <2> QED
    BY <1>1, <2>1, <2>2 DEF Same, GoodEntry
<1>4. Carries(p)'
  BY <1>1, <1>3 DEF Carries, Same, RespIpMatches
<1> QED
  BY <1>2, <1>4

LEMMA KeyType ==
    ASSUME NEW p, Placed(p), pc[p] \in {"lookup", "redis", "fill", "ask", "store", "save"}
    PROVE  KeyOf(p) \in Key /\ KeyOf(p) # None /\ KeyOf(p) = <<question[p], Target(p)>>
BY RulesAssumption DEF Placed, KeyOf, Key

(* Which prefetching goroutine holds what does not change.                 *)
LEMMA SameFlights ==
    ASSUME SingleFlight, \A f \in Prefetcher : HoldsKey(f), UNCHANGED <<held, sf>>,
           \A f \in Prefetcher : pc'[f] = "idle" <=> pc[f] = "idle"
    PROVE  SingleFlight' /\ \A f \in Prefetcher : HoldsKey(f)'
BY DEF SingleFlight, HoldsKey

(* A step in which one goroutine moves and prefetches as much as before.   *)
LEMMA OneMoves ==
    ASSUME IInv, NEW p \in Proc, UNCHANGED <<now, held, sf>>,
           \A o \in Proc \ {p} : Same(o),
           p \in Prefetcher => (pc'[p] = "idle" <=> pc[p] = "idle"),
           HandleTypeOK', CacheOK', Placed(p)', Carries(p)'
    PROVE  IInv'
<1> USE DEF IInv
<1>1. now \in Nat /\ now' \in Nat /\ now' >= now
  BY CacheAssumption DEF CacheOK
<1>2. \A o \in Proc : Placed(o)' /\ Carries(o)'
  BY <1>1, SameStays
<1>3. \A f \in Prefetcher : pc'[f] = "idle" <=> pc[f] = "idle"
  BY DEF Same, Proc
<1>4. SingleFlight' /\ \A f \in Prefetcher : HoldsKey(f)'
  BY <1>3, SameFlights
<1> QED
  BY <1>2, <1>4

LEMMA CacheStays ==
    ASSUME CacheOK, UNCHANGED <<now, cacheVars>>
    PROVE  CacheOK'
BY DEF CacheOK, GoodStore, GoodEntry, cacheVars

LEMMA RuleFacts ==
    ASSUME NEW i \in DOMAIN Rules
    PROVE  /\ i \in 1..Len(Rules) /\ Len(Rules) \in Nat
           /\ Rules[i].forward \in Tag \cup {None}
           /\ Rules[i].fallback \in Tag \cup {None}
           /\ Rules[i].kind = "forward" <=> Rules[i].forward # None
<1>1. Rules \in Seq(RuleType)
  BY RulesAssumption
<1>2. i \in 1..Len(Rules) /\ Len(Rules) \in Nat /\ Rules[i] \in RuleType
  BY <1>1
<1>3. Rules[i].forward \in Tag \cup {None} /\ Rules[i].fallback \in Tag \cup {None}
  BY <1>2 DEF RuleType
<1> QED
  BY <1>2, <1>3, RulesAssumption

LEMMA LocalType ==
    ASSUME now \in 0..MaxTime, NEW q \in Question, NEW rcode \in RCode
    PROVE  Local(q, rcode) \in Response /\ Local(q, rcode).from = None
BY DEF Local, Response

-----------------------------------------------------------------------------
LEMMA InitIInv == Init => IInv
<1> SUFFICES ASSUME Init PROVE IInv
  OBVIOUS
<1>1. CacheOK
  BY CacheAssumption DEF Init, CacheInit, CacheOK, GoodStore
<1>2. CacheTypeOK
  BY <1>1 DEF CacheOK, CacheTypeOK, GoodStore
<1>3. 0 \in 0..Len(Rules) + 1
  BY RulesAssumption
<1>4. HandleTypeOK
  BY <1>2, <1>3 DEF Init, HandleTypeOK, Proc
<1>5. \A p \in Proc : Placed(p) /\ Carries(p)
  BY DEF Init, Placed, Carries
<1>6. SingleFlight /\ \A f \in Prefetcher : HoldsKey(f)
  BY DEF Init, SingleFlight, HoldsKey, Proc
<1> QED
  BY <1>1, <1>4, <1>5, <1>6 DEF IInv

LEMMA ReceiveIInv ==
    ASSUME IInv, NEW h \in Handler, Receive(h)
    PROVE  IInv'
<1> USE DEF IInv
<1>1. PICK q \in Question : question' = [question EXCEPT ![h] = q]
  BY DEF Receive
<1>2. h \in Proc /\ h \notin Prefetcher /\ 1 \in 0..Len(Rules) + 1
  BY RulesAssumption DEF Proc
<1>3. CacheOK'
  BY CacheStays DEF Receive
<1>4. HandleTypeOK'
  BY <1>1, <1>2 DEF Receive, Goto, HandleTypeOK, CacheTypeOK, cacheVars
<1>5. \A o \in Proc \ {h} : Same(o)
  BY <1>1, <1>2 DEF Receive, Goto, Same, HandleTypeOK
<1>6. Placed(h)' /\ Carries(h)'
  BY <1>1, <1>2 DEF Receive, Goto, Placed, Carries, HandleTypeOK
<1> QED
  BY <1>2, <1>3, <1>4, <1>5, <1>6, OneMoves DEF Receive

LEMMA TakeRuleIInv ==
    ASSUME IInv, NEW h \in Handler, TakeRule(h)
    PROVE  IInv'
<1> USE DEF IInv
<1>1. h \in Proc /\ h \notin Prefetcher
  BY RulesAssumption DEF Proc
<1>2. question[h] \in Question /\ stage[h] = "primary" /\ rule[h] \in Nat \ {0}
  BY <1>1 DEF TakeRule, Placed
<1>3. CacheOK'
  BY CacheStays DEF TakeRule
<1>4. now \in 0..MaxTime /\ UNCHANGED <<now, cacheVars, question, stage, entry, held, sf>>
  BY DEF TakeRule, CacheOK
<1>5. CASE Respond(h, Local(question[h], "refused")) /\ UNCHANGED rule
  <2>1. Local(question[h], "refused") \in Response /\ Local(question[h], "refused").from = None
    BY <1>2, <1>4, LocalType DEF RCode
  <2>2. HandleTypeOK'
    BY <1>1, <1>4, <1>5, <2>1 DEF Respond, Goto, HandleTypeOK, CacheTypeOK, cacheVars
  <2>3. \A o \in Proc \ {h} : Same(o)
    BY <1>1, <1>4, <1>5 DEF Respond, Goto, Same, HandleTypeOK
  <2>4. Placed(h)' /\ Carries(h)'
    BY <1>1, <1>2, <1>4, <1>5, <2>1 DEF Respond, Goto, Placed, Carries, HandleTypeOK
  <2> QED
    BY <1>1, <1>3, <1>4, <2>2, <2>3, <2>4, OneMoves
<1>6. ASSUME NEW i \in Left(h), rule' = [rule EXCEPT ![h] = i],
             IF Rules[i].kind = "forward"
             THEN Goto(h, "lookup") /\ UNCHANGED resp
             ELSE Respond(h, Local(question[h],
                             IF Rules[i].kind = "hosts" THEN "success" ELSE "refused"))
      PROVE  IInv'
  <2>1. i \in DOMAIN Rules /\ i \in 0..Len(Rules) + 1
    BY <1>2, RulesAssumption DEF Left
  <2>2. CASE Rules[i].kind = "forward"
    <3>1. Goto(h, "lookup") /\ resp' = resp
      BY <1>6, <2>2
    <3>2. HandleTypeOK'
      BY <1>1, <1>4, <1>6, <2>1, <3>1 DEF Goto, HandleTypeOK, CacheTypeOK, cacheVars
    <3>3. \A o \in Proc \ {h} : Same(o)
      BY <1>1, <1>4, <1>6, <3>1 DEF Goto, Same, HandleTypeOK
    <3>4. Target(h)' \in Tag
      BY <1>1, <1>2, <1>4, <1>6, <2>1, <2>2, RuleFacts DEF Target, HandleTypeOK
    <3>5. Placed(h)' /\ Carries(h)'
      BY <1>1, <1>2, <1>4, <1>6, <2>1, <3>1, <3>4 DEF Goto, Placed, Carries, HandleTypeOK
    <3> QED
      BY <1>1, <1>3, <1>4, <3>2, <3>3, <3>5, OneMoves
  <2>3. CASE Rules[i].kind # "forward"
    <3>1. PICK rcode \in RCode : Respond(h, Local(question[h], rcode))
      BY <1>6, <2>3 DEF RCode
    <3>2. Local(question[h], rcode) \in Response /\ Local(question[h], rcode).from = None
      BY <1>2, <1>4, LocalType
    <3>3. HandleTypeOK'
      BY <1>1, <1>4, <1>6, <2>1, <3>1, <3>2 DEF Respond, Goto, HandleTypeOK, CacheTypeOK, cacheVars
    <3>4. \A o \in Proc \ {h} : Same(o)
      BY <1>1, <1>4, <1>6, <3>1 DEF Respond, Goto, Same, HandleTypeOK
    <3>5. Placed(h)' /\ Carries(h)'
      BY <1>1, <1>2, <1>4, <1>6, <3>1, <3>2 DEF Respond, Goto, Placed, Carries, HandleTypeOK
    <3> QED
      BY <1>1, <1>3, <1>4, <3>3, <3>4, <3>5, OneMoves
  <2> QED
    BY <2>2, <2>3
<1> QED
  BY <1>5, <1>6 DEF TakeRule

LEMMA MissIInv ==
    ASSUME IInv, NEW h \in Handler, Miss(h)
    PROVE  IInv'
<1> USE DEF IInv
<1>1. h \in Proc /\ h \notin Prefetcher
  BY RulesAssumption DEF Proc
<1>2. CacheOK'
  BY CacheStays DEF Miss
<1>3. HandleTypeOK'
  BY <1>1 DEF Miss, Goto, HandleTypeOK, CacheTypeOK, cacheVars
<1>4. \A o \in Proc \ {h} : Same(o)
  BY <1>1 DEF Miss, Goto, Same, HandleTypeOK
<1>5. Placed(h)' /\ Carries(h)'
  BY <1>1, SameKey DEF Miss, Goto, Placed, Carries, HandleTypeOK
<1> QED
  BY <1>1, <1>2, <1>3, <1>4, <1>5, OneMoves DEF Miss

LEMMA RedisGetIInv ==
    ASSUME IInv, NEW h \in Handler, RedisGet(h)
    PROVE  IInv'
<1> USE DEF IInv
<1>1. h \in Proc /\ h \notin Prefetcher
  BY RulesAssumption DEF Proc
<1>2. CacheOK'
  BY CacheStays DEF RedisGet
<1>3. KeyOf(h) \in Key /\ KeyOf(h)' = KeyOf(h) /\ Target(h)' = Target(h)
  BY <1>1, KeyType, SameKey DEF RedisGet
<1>4. CASE Goto(h, "ask") /\ UNCHANGED entry
  <2>1. HandleTypeOK'
    BY <1>1, <1>4 DEF RedisGet, Goto, HandleTypeOK, CacheTypeOK, cacheVars
  <2>2. \A o \in Proc \ {h} : Same(o)
    BY <1>1, <1>4 DEF RedisGet, Goto, Same, HandleTypeOK
  <2>3. Placed(h)' /\ Carries(h)'
    BY <1>1, <1>3, <1>4 DEF RedisGet, Goto, Placed, Carries, HandleTypeOK
  <2> QED
    BY <1>1, <1>2, <2>1, <2>2, <2>3, OneMoves DEF RedisGet
<1>5. CASE /\ Cached(redis, KeyOf(h))
           /\ entry' = [entry EXCEPT ![h] = redis[KeyOf(h)]]
           /\ Goto(h, "fill")
  <2>1. GoodEntry(KeyOf(h), redis[KeyOf(h)])
    BY <1>3, <1>5 DEF Cached, CacheOK, GoodStore
  <2>2. redis[KeyOf(h)] \in Entry
    BY <2>1 DEF GoodEntry
  <2>3. HandleTypeOK'
    BY <1>1, <1>5, <2>2 DEF RedisGet, Goto, HandleTypeOK, CacheTypeOK, cacheVars
  <2>4. \A o \in Proc \ {h} : Same(o)
    BY <1>1, <1>5 DEF RedisGet, Goto, Same, HandleTypeOK
  <2>5. Placed(h)'
    BY <1>1, <1>3, <1>5 DEF RedisGet, Goto, Placed, HandleTypeOK
  <2>6. GoodEntry(KeyOf(h), entry[h])'
    BY <1>1, <1>3, <1>5, <2>1 DEF RedisGet, GoodEntry, HandleTypeOK
  <2>7. Carries(h)'
    BY <1>1, <1>5, <2>6 DEF RedisGet, Goto, Carries, HandleTypeOK
  <2> QED
    BY <1>1, <1>2, <2>3, <2>4, <2>5, <2>7, OneMoves DEF RedisGet
<1> QED
  BY <1>4, <1>5 DEF RedisGet

-----------------------------------------------------------------------------
(* A matched response is dropped: on to a rule, or to its fallback.        *)
LEMMA PassOverMoves ==
    ASSUME IInv, NEW h \in Handler, pc[h] \in {"lookup", "fill", "save"},
           NEW r, RespIpMatches(h, r), PassOver(h),
           question' = question, now' = now
    PROVE  /\ resp' \in [Proc -> Response \cup {None}]
           /\ stage' \in [Proc -> {"primary", "fallback"}]
           /\ rule' \in [Proc -> 0..Len(Rules) + 1]
           /\ pc' \in [Proc -> {"idle", "rule", "lookup", "redis", "fill", "ask", "store", "save", "done"}]
           /\ \A o \in Proc \ {h} :
                resp'[o] = resp[o] /\ stage'[o] = stage[o] /\ rule'[o] = rule[o] /\ pc'[o] = pc[o]
           /\ Placed(h)' /\ Carries(h)'
<1> USE DEF IInv
<1>1. h \in Proc
  BY DEF Proc
<1>2. /\ question[h] \in Question /\ stage[h] = "primary"
      /\ rule[h] \in DOMAIN Rules
  BY <1>1 DEF Placed, RespIpMatches
<1>3. rule[h] \in 1..Len(Rules) /\ rule[h] + 1 \in 0..Len(Rules) + 1 /\ rule[h] + 1 \in Nat \ {0}
  BY <1>2, RuleFacts
<1>4. resp' = [resp EXCEPT ![h] = None]
  BY DEF PassOver
<1>5. CASE Rules[rule[h]].fallback # None
  <2>1. stage' = [stage EXCEPT ![h] = "fallback"] /\ Goto(h, "lookup") /\ rule' = rule
    BY <1>5 DEF PassOver
  <2>2. Target(h)' \in Tag
    BY <1>1, <1>2, <1>5, <2>1, RuleFacts DEF Target, HandleTypeOK
  <2>3. Placed(h)' /\ Carries(h)'
    BY <1>1, <1>2, <2>1, <2>2 DEF Goto, Placed, Carries, HandleTypeOK
  <2> QED
    BY <1>1, <1>4, <2>1, <2>3 DEF Goto, HandleTypeOK
<1>6. CASE Rules[rule[h]].fallback = None
  <2>1. rule' = [rule EXCEPT ![h] = @ + 1] /\ Goto(h, "rule") /\ stage' = stage
    BY <1>6 DEF PassOver
  <2>2. Placed(h)' /\ Carries(h)'
    BY <1>1, <1>2, <1>3, <2>1 DEF Goto, Placed, Carries, HandleTypeOK
  <2> QED
    BY <1>1, <1>3, <1>4, <2>1, <2>2 DEF Goto, HandleTypeOK
<1> QED
  BY <1>5, <1>6

(* A hit is served, and perhaps a prefetch for its key set off.            *)
LEMMA ServeHitIInv ==
    ASSUME IInv, NEW h \in Handler, pc[h] \in {"lookup", "fill"},
           NEW e, GoodEntry(KeyOf(h), e), ~RespIpMatches(h, e.resp), ServeHit(h, e),
           now' = now, CacheOK',
           entry' \in [Proc -> Entry \cup {None}],
           \A o \in Proc \ {h} : entry'[o] = entry[o]
    PROVE  IInv'
<1> USE DEF IInv
<1>1. h \in Proc /\ h \notin Prefetcher
  BY RulesAssumption DEF Proc
<1>2. KeyOf(h) \in Key /\ KeyOf(h) # None
  BY <1>1, KeyType
<1>3. e.resp \in Response
  BY DEF GoodEntry, Entry
<1>4. CacheTypeOK'
  BY DEF CacheOK, GoodStore, CacheTypeOK
<1>5. resp' = [resp EXCEPT ![h] = e.resp]
  BY DEF ServeHit
<1>6. CASE Goto(h, "done") /\ UNCHANGED <<question, rule, stage, held, sf>>
  <2>1. HandleTypeOK'
    BY <1>1, <1>3, <1>4, <1>5, <1>6 DEF Goto, HandleTypeOK
  <2>2. \A o \in Proc \ {h} : Same(o)
    BY <1>1, <1>5, <1>6 DEF Goto, Same, HandleTypeOK
  <2>3. KeyOf(h)' = KeyOf(h)
    BY <1>6, SameKey
  <2>4. Placed(h)' /\ Carries(h)'
    BY <1>1, <1>3, <1>5, <1>6, <2>3 DEF Goto, Placed, Carries, GoodEntry, RespIpMatches, HandleTypeOK
  <2> QED
    BY <1>1, <1>6, <2>1, <2>2, <2>4, OneMoves
<1>7. ASSUME ~(Goto(h, "done") /\ UNCHANGED <<question, rule, stage, held, sf>>)
      PROVE  IInv'
  <2>1. PICK f \in Prefetcher :
          /\ pc[f] = "idle"
          /\ pc' = [pc EXCEPT ![h] = "done", ![f] = "ask"]
          /\ question' = [question EXCEPT ![f] = question[h]]
          /\ rule' = [rule EXCEPT ![f] = rule[h]]
          /\ stage' = [stage EXCEPT ![f] = stage[h]]
          /\ held' = [held EXCEPT ![f] = KeyOf(h)]
          /\ sf' = sf \cup {KeyOf(h)}
    BY <1>7 DEF ServeHit
  <2>2. KeyOf(h) \notin sf
    BY <1>7 DEF ServeHit, Reservable
  <2>3. f \in Proc /\ f # h
    BY <1>1 DEF Proc
  <2>4. HandleTypeOK'
    <3>1. /\ pc' \in [Proc -> {"idle", "rule", "lookup", "redis", "fill", "ask", "store", "save", "done"}]
          /\ \A g \in Prefetcher : pc'[g] \in {"idle", "ask", "store", "save"}
      BY <1>1, <2>1, <2>3 DEF HandleTypeOK, Proc
    <3>2. /\ question' \in [Proc -> Question \cup {None}]
          /\ rule' \in [Proc -> 0..Len(Rules) + 1]
          /\ stage' \in [Proc -> {"primary", "fallback"}]
      BY <1>1, <2>1, <2>3 DEF HandleTypeOK
    <3>3. /\ resp' \in [Proc -> Response \cup {None}]
          /\ held' \in [Prefetcher -> Key \cup {None}]
          /\ sf' \subseteq Key
      BY <1>1, <1>2, <1>3, <1>5, <2>1, <2>3 DEF HandleTypeOK
    <3> QED
      BY <1>4, <3>1, <3>2, <3>3 DEF HandleTypeOK
  <2>5. \A o \in Proc \ {h, f} : Same(o)
    BY <1>1, <1>5, <2>1, <2>3 DEF Same, HandleTypeOK
  <2>6. Placed(h)' /\ Carries(h)'
    <3>1. question'[h] = question[h] /\ rule'[h] = rule[h] /\ stage'[h] = stage[h] /\ pc'[h] = "done"
      BY <1>1, <2>1, <2>3 DEF HandleTypeOK
    <3>2. KeyOf(h)' = KeyOf(h)
      BY <3>1, SameKey
    <3> QED
      BY <1>1, <1>3, <1>5, <3>1, <3>2 DEF Placed, Carries, GoodEntry, RespIpMatches, HandleTypeOK
  <2>7. Placed(f)' /\ Carries(f)'
    <3>1. question'[f] = question[h] /\ rule'[f] = rule[h] /\ stage'[f] = stage[h] /\ pc'[f] = "ask"
      BY <2>1, <2>3 DEF HandleTypeOK
    <3>2. Target(f)' = Target(h)
      BY <3>1 DEF Target
    <3> QED
      BY <1>1, <3>1, <3>2 DEF Placed, Carries
  <2>8. \A o \in Proc : Placed(o)' /\ Carries(o)'
    <3>1. now \in Nat /\ now' \in Nat /\ now' >= now
      BY CacheAssumption DEF CacheOK
    <3> QED
      BY <2>5, <2>6, <2>7, <3>1, SameStays
  <2>9. SingleFlight' /\ \A g \in Prefetcher : HoldsKey(g)'
    <3>1. held[f] = None
      BY <2>1 DEF HoldsKey
    <3>2. held'[f] = KeyOf(h) /\ \A g \in Prefetcher \ {f} : held'[g] = held[g]
      BY <2>1 DEF HandleTypeOK
    <3>3. \A g \in Prefetcher : held[g] # KeyOf(h)
      BY <1>2, <2>2 DEF SingleFlight
    <3>4. SingleFlight'
      <4>1. \A g, k \in Prefetcher : g # k /\ held'[g] # None => held'[g] # held'[k]
        BY <1>2, <3>2, <3>3 DEF SingleFlight
      <4>2. sf' = {held'[g] : g \in Prefetcher} \ {None}
        BY <1>2, <2>1, <3>1, <3>2 DEF SingleFlight
      <4> QED
        BY <4>1, <4>2 DEF SingleFlight
    <3>5. pc'[f] = "ask" /\ \A g \in Prefetcher \ {f} : pc'[g] = pc[g]
      BY <1>1, <2>1, <2>3 DEF HandleTypeOK, Proc
    <3>6. \A g \in Prefetcher : HoldsKey(g)'
      BY <1>2, <3>2, <3>5 DEF HoldsKey
    <3> QED
      BY <3>4, <3>6
  <2> QED
    BY <2>4, <2>8, <2>9
<1> QED
  BY <1>6, <1>7

LEMMA CheckedHitIInv ==
    ASSUME IInv, NEW h \in Handler, pc[h] \in {"lookup", "fill"},
           NEW e, GoodEntry(KeyOf(h), e), CheckedHit(h, e),
           now' = now, CacheOK',
           entry' \in [Proc -> Entry \cup {None}],
           \A o \in Proc \ {h} : entry'[o] = entry[o]
    PROVE  IInv'
<1>1. CASE RespIpMatches(h, e.resp) /\ PassOver(h) /\ UNCHANGED <<question, held, sf>>
  <2> USE DEF IInv
  <2>1. h \in Proc /\ h \notin Prefetcher
    BY RulesAssumption DEF Proc
  <2>2. /\ resp' \in [Proc -> Response \cup {None}]
        /\ stage' \in [Proc -> {"primary", "fallback"}]
        /\ rule' \in [Proc -> 0..Len(Rules) + 1]
        /\ pc' \in [Proc -> {"idle", "rule", "lookup", "redis", "fill", "ask", "store", "save", "done"}]
        /\ \A o \in Proc \ {h} :
             resp'[o] = resp[o] /\ stage'[o] = stage[o] /\ rule'[o] = rule[o] /\ pc'[o] = pc[o]
        /\ Placed(h)' /\ Carries(h)'
    BY <1>1, PassOverMoves
  <2>3. CacheTypeOK'
    BY DEF CacheOK, GoodStore, CacheTypeOK
  <2>4. HandleTypeOK'
    BY <1>1, <2>1, <2>2, <2>3 DEF HandleTypeOK, Proc
  <2>5. \A o \in Proc \ {h} : Same(o)
    BY <1>1, <2>2 DEF Same
  <2> QED
    BY <1>1, <2>1, <2>2, <2>4, <2>5, OneMoves
<1>2. CASE ~RespIpMatches(h, e.resp) /\ ServeHit(h, e)
  BY <1>2, ServeHitIInv
<1> QED
  BY <1>1, <1>2 DEF CheckedHit

LEMMA HitIInv ==
    ASSUME IInv, NEW h \in Handler, Hit(h)
    PROVE  IInv'
<1> USE DEF IInv
<1>1. h \in Proc /\ pc[h] = "lookup"
  BY DEF Hit, Proc
<1>2. KeyOf(h) \in Key
  BY <1>1, KeyType
<1>3. GoodEntry(KeyOf(h), memory[KeyOf(h)])
  BY <1>2 DEF Hit, Cached, CacheOK, GoodStore
<1>4. CacheOK' /\ now' = now /\ entry' = entry
  BY CacheStays DEF Hit
<1> QED
  BY <1>1, <1>3, <1>4, CheckedHitIInv DEF Hit, HandleTypeOK

LEMMA FillMemoryIInv ==
    ASSUME IInv, NEW h \in Handler, FillMemory(h)
    PROVE  IInv'
<1> USE DEF IInv
<1>1. h \in Proc /\ pc[h] = "fill"
  BY DEF FillMemory, Proc
<1>2. KeyOf(h) \in Key /\ GoodEntry(KeyOf(h), entry[h])
  BY <1>1, KeyType DEF Carries
<1>3. now' = now /\ redis' = redis /\ memory' = Put(memory, KeyOf(h), entry[h], TRUE)
  BY DEF FillMemory, Fill
<1>4. GoodStore(memory')
  BY <1>2, <1>3, PutIsGood DEF CacheOK
<1>5. CacheOK'
  BY <1>3, <1>4 DEF CacheOK, GoodStore, GoodEntry
<1>6. entry' \in [Proc -> Entry \cup {None}] /\ \A o \in Proc \ {h} : entry'[o] = entry[o]
  BY <1>1 DEF FillMemory, HandleTypeOK
<1> QED
  BY <1>1, <1>2, <1>3, <1>5, <1>6, CheckedHitIInv DEF FillMemory

-----------------------------------------------------------------------------
LEMMA AnsweredIInv ==
    ASSUME IInv, NEW p \in Proc, Answered(p)
    PROVE  IInv'
<1> USE DEF IInv
<1>1. PICK r \in Reply :
        LET a == Answer(question[p], Target(p), r) IN
        /\ resp' = [resp EXCEPT ![p] = a]
        /\ entry' = [entry EXCEPT ![p] = NewEntry(a)]
  BY DEF Answered
<1> DEFINE a == Answer(question[p], Target(p), r)
<1>2. /\ question[p] \in Question /\ Target(p) \in Tag
      /\ KeyOf(p) \in Key /\ KeyOf(p) = <<question[p], Target(p)>>
  BY KeyType DEF Answered, Placed
<1>3. a \in Response /\ GoodEntry(KeyOf(p), NewEntry(a))
  BY <1>2, AnswerIsGood DEF CacheOK
<1>4. NewEntry(a) \in Entry /\ NewEntry(a).resp = a
  BY <1>3 DEF GoodEntry, NewEntry
<1>5. /\ resp' = [resp EXCEPT ![p] = a]
      /\ entry' = [entry EXCEPT ![p] = NewEntry(a)]
  BY <1>1
<1> HIDE DEF a
<1>6. CacheOK' /\ CacheTypeOK'
  BY CacheStays DEF Answered, HandleTypeOK, CacheTypeOK, cacheVars
<1>7. HandleTypeOK'
  BY <1>3, <1>4, <1>5, <1>6 DEF Answered, Goto, HandleTypeOK
<1>8. \A o \in Proc \ {p} : Same(o)
  BY <1>5 DEF Answered, Goto, Same, HandleTypeOK
<1>9. Target(p)' = Target(p) /\ KeyOf(p)' = KeyOf(p)
  BY SameKey DEF Answered
<1>10. Placed(p)'
  BY <1>9 DEF Answered, Goto, Placed, HandleTypeOK
<1>11. GoodEntry(KeyOf(p), entry[p])'
  BY <1>3, <1>5, <1>9 DEF Answered, GoodEntry, HandleTypeOK
<1>12. Carries(p)'
  BY <1>4, <1>5, <1>11 DEF Answered, Goto, Carries, HandleTypeOK
<1>13. p \in Prefetcher => (pc'[p] = "idle" <=> pc[p] = "idle")
  BY DEF Answered, Goto, HandleTypeOK
<1> QED
  BY <1>6, <1>7, <1>8, <1>10, <1>12, <1>13, OneMoves DEF Answered

LEMMA StoreMemoryIInv ==
    ASSUME IInv, NEW p \in Proc, StoreMemory(p)
    PROVE  IInv'
<1> USE DEF IInv
<1>1. KeyOf(p) \in Key /\ GoodEntry(KeyOf(p), entry[p]) /\ resp[p] = entry[p].resp
  BY KeyType DEF StoreMemory, Carries
<1>2. GoodStore(memory')
  BY <1>1, PutIsGood DEF StoreMemory, StoreIn, CacheOK
<1>3. CacheOK'
  BY <1>2 DEF StoreMemory, CacheOK, GoodStore, GoodEntry
<1>4. HandleTypeOK'
  BY <1>3 DEF StoreMemory, Goto, HandleTypeOK, CacheTypeOK, CacheOK, GoodStore
<1>5. \A o \in Proc \ {p} : Same(o)
  BY DEF StoreMemory, Goto, Same, HandleTypeOK
<1>6. Target(p)' = Target(p) /\ KeyOf(p)' = KeyOf(p)
  BY SameKey DEF StoreMemory
<1>7. Placed(p)'
  BY <1>6 DEF StoreMemory, Goto, Placed, HandleTypeOK
<1>8. GoodEntry(KeyOf(p), entry[p])'
  BY <1>1, <1>6 DEF StoreMemory, GoodEntry
<1>9. Carries(p)'
  BY <1>1, <1>8 DEF StoreMemory, Goto, Carries, HandleTypeOK
<1>10. p \in Prefetcher => (pc'[p] = "idle" <=> pc[p] = "idle")
  BY DEF StoreMemory, Goto, HandleTypeOK
<1> QED
  BY <1>3, <1>4, <1>5, <1>7, <1>9, <1>10, OneMoves DEF StoreMemory

(* A prefetching goroutine ends: its key is free again, and no other.      *)
LEMMA EndPrefetchIInv ==
    ASSUME IInv, NEW f \in Prefetcher, pc[f] \in {"ask", "save"}, EndPrefetch(f),
           now' = now, CacheOK',
           entry' \in [Proc -> Entry \cup {None}],
           \A o \in Proc \ {f} : entry'[o] = entry[o]
    PROVE  IInv'
<1> USE DEF IInv
<1>1. f \in Proc
  BY DEF Proc
<1>2. CacheTypeOK'
  BY DEF CacheOK, GoodStore, CacheTypeOK
<1>3. 0 \in 0..Len(Rules) + 1
  BY RulesAssumption
<1>4. HandleTypeOK'
  <2>1. /\ pc' \in [Proc -> {"idle", "rule", "lookup", "redis", "fill", "ask", "store", "save", "done"}]
        /\ \A g \in Prefetcher : pc'[g] \in {"idle", "ask", "store", "save"}
    BY <1>1 DEF EndPrefetch, Goto, HandleTypeOK, Proc
  <2>2. /\ question' \in [Proc -> Question \cup {None}]
        /\ rule' \in [Proc -> 0..Len(Rules) + 1]
        /\ stage' \in [Proc -> {"primary", "fallback"}]
    BY <1>1, <1>3 DEF EndPrefetch, HandleTypeOK
  <2>3. /\ resp' \in [Proc -> Response \cup {None}]
        /\ held' \in [Prefetcher -> Key \cup {None}]
        /\ sf' \subseteq Key
    BY <1>1 DEF EndPrefetch, Finish, HandleTypeOK
  <2> QED
    BY <1>2, <2>1, <2>2, <2>3 DEF HandleTypeOK
<1>5. \A o \in Proc \ {f} : Same(o)
  BY <1>1 DEF EndPrefetch, Goto, Same, HandleTypeOK
<1>6. Placed(f)' /\ Carries(f)'
  BY <1>1 DEF EndPrefetch, Goto, Placed, Carries, HandleTypeOK
<1>7. \A o \in Proc : Placed(o)' /\ Carries(o)'
  <2>1. now \in Nat /\ now' \in Nat /\ now' >= now
    BY CacheAssumption DEF CacheOK
  <2> QED
    BY <1>5, <1>6, <2>1, SameStays
<1>8. held[f] # None
  BY DEF HoldsKey
<1>9. held'[f] = None /\ \A g \in Prefetcher \ {f} : held'[g] = held[g]
  BY DEF EndPrefetch, HandleTypeOK
<1>10. SingleFlight'
  <2>1. \A g, k \in Prefetcher : g # k /\ held'[g] # None => held'[g] # held'[k]
    BY <1>9 DEF SingleFlight
  <2>2. sf' = {held'[g] : g \in Prefetcher} \ {None}
    BY <1>8, <1>9 DEF SingleFlight, EndPrefetch, Finish
  <2> QED
    BY <2>1, <2>2 DEF SingleFlight
<1>11. pc'[f] = "idle" /\ \A g \in Prefetcher \ {f} : pc'[g] = pc[g]
  BY <1>1 DEF EndPrefetch, Goto, HandleTypeOK, Proc
<1>12. \A g \in Prefetcher : HoldsKey(g)'
  BY <1>9, <1>11 DEF HoldsKey
<1> QED
  BY <1>4, <1>7, <1>10, <1>12

LEMMA AskFailsIInv ==
    ASSUME IInv, NEW p \in Proc, AskFails(p)
    PROVE  IInv'
<1> USE DEF IInv
<1>1. CacheOK' /\ now' = now /\ entry' = entry /\ now \in 0..MaxTime
  BY CacheStays DEF AskFails, CacheOK
<1>2. CASE p \in Handler
  <2>1. p \notin Prefetcher
    BY <1>2, RulesAssumption
  <2>2. /\ Respond(p, Local(question[p], "servfail"))
        /\ UNCHANGED <<question, rule, stage, held, sf>>
    BY <1>2 DEF AskFails
  <2>3. /\ Local(question[p], "servfail") \in Response
        /\ Local(question[p], "servfail").from = None
    BY <1>1, LocalType DEF AskFails, Placed, RCode
  <2>4. CacheTypeOK'
    BY <1>1 DEF CacheOK, GoodStore, CacheTypeOK
  <2>5. HandleTypeOK'
    BY <1>1, <2>1, <2>2, <2>3, <2>4 DEF Respond, Goto, HandleTypeOK
  <2>6. \A o \in Proc \ {p} : Same(o)
    BY <1>1, <2>2 DEF Respond, Goto, Same, HandleTypeOK
  <2>7. Placed(p)' /\ Carries(p)'
    BY <2>2, <2>3 DEF AskFails, Respond, Goto, Placed, Carries, HandleTypeOK
  <2> QED
    BY <1>1, <2>1, <2>2, <2>5, <2>6, <2>7, OneMoves
<1>3. CASE p \notin Handler
  <2>1. p \in Prefetcher /\ EndPrefetch(p)
    BY <1>3 DEF AskFails, Proc
  <2> QED
    BY <1>1, <2>1, EndPrefetchIInv DEF AskFails, HandleTypeOK
<1> QED
  BY <1>2, <1>3

LEMMA SaveIInv ==
    ASSUME IInv, NEW p \in Proc, Save(p)
    PROVE  IInv'
<1> USE DEF IInv
<1>1. KeyOf(p) \in Key /\ GoodEntry(KeyOf(p), entry[p]) /\ resp[p] = entry[p].resp
  BY KeyType DEF Save, Carries
<1>2. CacheOK' /\ now' = now
  <2>1. GoodStore(redis')
    BY <1>1, PutIsGood DEF Save, StoreIn, CacheOK
  <2> QED
    BY <2>1 DEF Save, CacheOK, GoodStore, GoodEntry
<1>3. CacheTypeOK'
  BY <1>2 DEF CacheOK, GoodStore, CacheTypeOK
<1>4. entry' \in [Proc -> Entry \cup {None}] /\ \A o \in Proc \ {p} : entry'[o] = entry[o]
  BY DEF Save, HandleTypeOK
<1>5. CASE p \in Handler
  <2>1. p \notin Prefetcher
    BY <1>5, RulesAssumption
  <2>2. UNCHANGED <<question, held, sf>>
    BY <2>1 DEF Save
  <2>3. CASE RespIpMatches(p, resp[p])
    <3>1. PassOver(p)
      BY <2>1, <2>3 DEF Save
    <3>2. /\ resp' \in [Proc -> Response \cup {None}]
          /\ stage' \in [Proc -> {"primary", "fallback"}]
          /\ rule' \in [Proc -> 0..Len(Rules) + 1]
          /\ pc' \in [Proc -> {"idle", "rule", "lookup", "redis", "fill", "ask", "store", "save", "done"}]
          /\ \A o \in Proc \ {p} :
               resp'[o] = resp[o] /\ stage'[o] = stage[o] /\ rule'[o] = rule[o] /\ pc'[o] = pc[o]
          /\ Placed(p)' /\ Carries(p)'
      BY <1>2, <1>5, <2>2, <2>3, <3>1, PassOverMoves DEF Save
    <3>3. HandleTypeOK'
      BY <1>3, <1>4, <2>1, <2>2, <3>2 DEF HandleTypeOK, Proc
    <3>4. \A o \in Proc \ {p} : Same(o)
      BY <1>4, <2>2, <3>2 DEF Same
    <3> QED
      BY <1>2, <2>1, <2>2, <3>2, <3>3, <3>4, OneMoves
  <2>4. CASE ~RespIpMatches(p, resp[p])
    <3>1. Goto(p, "done") /\ UNCHANGED <<rule, stage, resp>>
      BY <2>1, <2>4 DEF Save
    <3>2. HandleTypeOK'
      BY <1>3, <1>4, <2>1, <2>2, <3>1 DEF Goto, HandleTypeOK
    <3>3. \A o \in Proc \ {p} : Same(o)
      BY <1>4, <2>2, <3>1 DEF Goto, Same, HandleTypeOK
    <3>4. KeyOf(p)' = KeyOf(p)
      BY <2>2, <3>1, SameKey
    <3>5. resp[p] \in Response /\ OwnKey(KeyOf(p), resp[p])
      BY <1>1 DEF GoodEntry, Entry
    <3>6. Placed(p)' /\ Carries(p)'
      BY <2>2, <2>4, <3>1, <3>4, <3>5 DEF Save, Goto, Placed, Carries, RespIpMatches, HandleTypeOK
    <3> QED
      BY <1>2, <2>1, <2>2, <3>2, <3>3, <3>6, OneMoves
  <2> QED
    BY <2>3, <2>4
<1>6. CASE p \notin Handler
  <2>1. p \in Prefetcher
    BY <1>6 DEF Proc
  <2>2. CASE RespIpMatches(p, resp[p]) /\ Rules[rule[p]].fallback # None
    <3>1. /\ stage' = [stage EXCEPT ![p] = "fallback"]
          /\ Goto(p, "ask")
          /\ UNCHANGED <<question, rule, resp, held, sf>>
      BY <1>6, <2>2 DEF Save
    <3>2. HandleTypeOK'
      BY <1>3, <1>4, <2>1, <3>1 DEF Goto, HandleTypeOK
    <3>3. \A o \in Proc \ {p} : Same(o)
      BY <1>4, <3>1 DEF Goto, Same, HandleTypeOK
    <3>4. rule[p] \in DOMAIN Rules /\ question[p] \in Question
      BY DEF Save, Placed
    <3>5. Target(p)' \in Tag
      BY <2>2, <3>1, <3>4, RuleFacts DEF Target, HandleTypeOK
    <3>6. Placed(p)' /\ Carries(p)'
      BY <3>1, <3>4, <3>5 DEF Goto, Placed, Carries, HandleTypeOK
    <3>7. pc'[p] # "idle" /\ pc[p] # "idle"
      BY <3>1 DEF Save, Goto, HandleTypeOK
    <3> QED
      BY <1>2, <3>1, <3>2, <3>3, <3>6, <3>7, OneMoves
  <2>3. CASE ~(RespIpMatches(p, resp[p]) /\ Rules[rule[p]].fallback # None)
    <3>1. EndPrefetch(p)
      BY <1>6, <2>3 DEF Save
    <3> QED
      BY <1>2, <1>4, <2>1, <3>1, EndPrefetchIInv DEF Save
  <2> QED
    BY <2>2, <2>3
<1> QED
  BY <1>5, <1>6

LEMMA ReleaseIInv ==
    ASSUME IInv, NEW h \in Handler, Release(h)
    PROVE  IInv'
<1> USE DEF IInv
<1>1. h \in Proc /\ h \notin Prefetcher /\ 0 \in 0..Len(Rules) + 1
  BY RulesAssumption DEF Proc
<1>2. CacheOK'
  BY CacheStays DEF Release
<1>3. HandleTypeOK'
  BY <1>1 DEF Release, Goto, HandleTypeOK, CacheTypeOK, cacheVars
<1>4. \A o \in Proc \ {h} : Same(o)
  BY <1>1 DEF Release, Goto, Same, HandleTypeOK
<1>5. Placed(h)' /\ Carries(h)'
  BY <1>1 DEF Release, Goto, Placed, Carries, HandleTypeOK
<1> QED
  BY <1>1, <1>2, <1>3, <1>4, <1>5, OneMoves DEF Release

(* Time passes, or the memory cache evicts: no goroutine moves.            *)
LEMMA EnvironmentIInv ==
    ASSUME IInv, Environment, UNCHANGED <<procVars, sf>>
    PROVE  IInv'
<1> USE DEF IInv
<1>1. now \in Nat /\ now' \in Nat /\ now' >= now /\ now' \in 0..MaxTime
  BY CacheAssumption DEF Environment, Tick, CacheOK
<1>2. CacheOK'
  <2>1. CASE Tick /\ UNCHANGED cacheVars
    BY <1>1, <2>1, GoodStoreLater DEF CacheOK, GoodStore, cacheVars
  <2>2. CASE Evict /\ UNCHANGED <<now, redis>>
    <3>1. PICK k \in Key : memory' = [memory EXCEPT ![k] = None]
      BY <2>2 DEF Evict
    <3>2. GoodStore(memory')
      BY <3>1 DEF CacheOK, GoodStore
    <3> QED
      BY <2>2, <3>2 DEF CacheOK, GoodStore, GoodEntry
  <2> QED
    BY <2>1, <2>2 DEF Environment
<1>3. HandleTypeOK'
  BY <1>2 DEF CacheOK, GoodStore, CacheTypeOK, HandleTypeOK, procVars
<1>4. \A p \in Proc : Same(p)
  BY DEF Same, procVars
<1>5. \A p \in Proc : Placed(p)' /\ Carries(p)'
  BY <1>1, <1>4, SameStays
<1>6. SingleFlight' /\ \A f \in Prefetcher : HoldsKey(f)'
  BY SameFlights DEF procVars
<1> QED
  BY <1>2, <1>3, <1>5, <1>6

LEMMA StepIInv == IInv /\ [Next]_vars => IInv'
<1> SUFFICES ASSUME IInv, [Next]_vars PROVE IInv'
  OBVIOUS
<1>1. CASE UNCHANGED vars
  <2>1. now \in Nat
    BY <1>1, CacheAssumption DEF IInv, CacheOK
  <2>2. CacheOK' /\ HandleTypeOK'
    BY <1>1, CacheStays DEF IInv, HandleTypeOK, CacheTypeOK, vars, cacheVars, procVars
  <2>3. \A p \in Proc : Placed(p)' /\ Carries(p)'
    BY <1>1, <2>1, SameStays DEF IInv, Same, vars, procVars
  <2>4. SingleFlight' /\ \A f \in Prefetcher : HoldsKey(f)'
    BY <1>1, SameFlights DEF IInv, vars, procVars
  <2> QED
    BY <2>2, <2>3, <2>4 DEF IInv
<1>2. ASSUME NEW h \in Handler, Receive(h) \/ HandlerStep(h)
      PROVE  IInv'
  <2>1. h \in Proc
    BY DEF Proc
  <2> QED
    BY <1>2, <2>1, ReceiveIInv, TakeRuleIInv, HitIInv, MissIInv, RedisGetIInv, FillMemoryIInv,
       AnsweredIInv, AskFailsIInv, StoreMemoryIInv, SaveIInv, ReleaseIInv DEF HandlerStep
<1>3. ASSUME NEW f \in Prefetcher, PrefetchStep(f)
      PROVE  IInv'
  <2>1. f \in Proc
    BY DEF Proc
  <2> QED
    BY <1>3, <2>1, AnsweredIInv, AskFailsIInv, StoreMemoryIInv, SaveIInv DEF PrefetchStep
<1>4. CASE Environment /\ UNCHANGED <<procVars, sf>>
  BY <1>4, EnvironmentIInv
<1> QED
  BY <1>1, <1>2, <1>3, <1>4 DEF Next

-----------------------------------------------------------------------------
(* All that is ever written to the two backends.                           *)

\* p, whose entry was asked from an upstream, writes it to the memory cache.
OwnWrite(p) ==
    /\ KeyOf(p) \in Key /\ entry[p] \in Entry
    /\ pc[p] = "store" /\ pc'[p] = "save"
    /\ memory' = StoreIn(memory, KeyOf(p), entry[p])

MemoryWrite ==
    \/ memory' = memory
    \/ \E k \in Key : memory' = [memory EXCEPT ![k] = None]
    \/ \E k \in Key, e \in Entry : memory' = Put(memory, k, e, TRUE)
    \/ \E p \in Proc : OwnWrite(p)

RedisWrite ==
    \/ redis' = redis
    \/ \E k \in Key, e \in Entry : redis' = StoreIn(redis, k, e)

LEMMA Writes == IInv /\ [Next]_vars => MemoryWrite /\ RedisWrite
<1> SUFFICES ASSUME IInv, [Next]_vars PROVE MemoryWrite /\ RedisWrite
  OBVIOUS
<1> USE DEF IInv
<1>1. CASE UNCHANGED vars
  BY <1>1 DEF vars, cacheVars, MemoryWrite, RedisWrite
<1>2. ASSUME NEW h \in Handler,
             Receive(h) \/ TakeRule(h) \/ Hit(h) \/ Miss(h) \/ RedisGet(h) \/ Release(h)
      PROVE  MemoryWrite /\ RedisWrite
  BY <1>2 DEF Receive, TakeRule, Hit, Miss, RedisGet, Release, cacheVars, MemoryWrite, RedisWrite
<1>3. ASSUME NEW h \in Handler, FillMemory(h)
      PROVE  MemoryWrite /\ RedisWrite
  <2>1. h \in Proc
    BY DEF Proc
  <2>2. KeyOf(h) \in Key /\ entry[h] \in Entry
    BY <1>3, <2>1, KeyType DEF FillMemory, Carries, GoodEntry
  <2> QED
    BY <1>3, <2>2 DEF FillMemory, Fill, MemoryWrite, RedisWrite
<1>4. ASSUME NEW p \in Proc, StoreMemory(p)
      PROVE  MemoryWrite /\ RedisWrite
  <2>1. KeyOf(p) \in Key /\ entry[p] \in Entry
    BY <1>4, KeyType DEF StoreMemory, Carries, GoodEntry
  <2>2. pc[p] = "store" /\ pc'[p] = "save"
    BY <1>4 DEF StoreMemory, Goto, HandleTypeOK
  <2> QED
    BY <1>4, <2>1, <2>2 DEF StoreMemory, OwnWrite, MemoryWrite, RedisWrite
<1>5. ASSUME NEW p \in Proc, Answered(p) \/ AskFails(p)
      PROVE  MemoryWrite /\ RedisWrite
  BY <1>5 DEF Answered, AskFails, cacheVars, MemoryWrite, RedisWrite
<1>6. ASSUME NEW p \in Proc, Save(p)
      PROVE  MemoryWrite /\ RedisWrite
  <2>1. KeyOf(p) \in Key /\ entry[p] \in Entry
    BY <1>6, KeyType DEF Save, Carries, GoodEntry
  <2> QED
    BY <1>6, <2>1 DEF Save, MemoryWrite, RedisWrite
<1>7. CASE Environment
  BY <1>7 DEF Environment, Evict, cacheVars, MemoryWrite, RedisWrite
<1> QED
  BY <1>1, <1>2, <1>3, <1>4, <1>5, <1>6, <1>7 DEF Next, HandlerStep, PrefetchStep, Proc

(* A store that goes through StoreIn or setNX keeps a good answer.         *)
LEMMA StoreKeepsPositive ==
    ASSUME NEW store \in [Key -> Entry \cup {None}], NEW k \in Key, NEW e \in Entry,
           NEW new, new = StoreIn(store, k, e) \/ new = Put(store, k, e, TRUE),
           NEW j \in Key, Cached(store, j), ~Negative(store[j].resp)
    PROVE  ~Negative(new[j].resp)
<1>1. CASE new = store
  BY <1>1
<1>2. CASE new = [store EXCEPT ![k] = e] /\ ~Negative(e.resp)
  BY <1>2
<1>3. CASE new = [store EXCEPT ![k] = e] /\ ~Cached(store, k)
  <2>1. j # k
    BY <1>3
  <2> QED
    BY <1>3, <2>1
<1> QED
  BY <1>1, <1>2, <1>3 DEF StoreIn, Put

-----------------------------------------------------------------------------
LEMMA Invariance == Spec => []IInv
BY InitIInv, StepIInv, PTL DEF Spec

(* rule.go and router_handle.go: whatever the rules are, a handler reaches *)
(* the cache and an upstream with a question and a tag that exists, and    *)
(* what it holds is an entry or a response where the code expects one.     *)
THEOREM HandleTypeCorrect == Spec => []HandleTypeOK
<1>1. IInv => HandleTypeOK
  BY DEF IInv
<1> QED
  BY Invariance, <1>1, PTL

(* cache.go Store and getRedisCache: entries of one forward tag or of      *)
(* another question are never found under a key, in memory or in redis.    *)
THEOREM CacheCoherent == Spec => []Coherent
<1>1. IInv => Coherent
  BY DEF IInv, CacheOK, GoodStore, GoodEntry, Cached, Coherent
<1> QED
  BY Invariance, <1>1, PTL

(* cache.go Store and getRedisCache: moving a response from redis to the   *)
(* memory cache does not give it another life.                             *)
THEOREM CacheNothingOutlives == Spec => []NothingOutlives
<1>1. IInv => NothingOutlives
  BY DEF IInv, CacheOK, GoodStore, GoodEntry, Cached, NothingOutlives
<1> QED
  BY Invariance, <1>1, PTL

(* router_handle.go: a client gets a response to its question, from the    *)
(* upstream its rule names now, and never one resp_ip should have dropped. *)
THEOREM HandleNoMatchedServed == Spec => []NoMatchedServed
<1>1. IInv => NoMatchedServed
  BY DEF IInv, Carries, Proc, KeyOf, OwnKey, NoMatchedServed
<1> QED
  BY Invariance, <1>1, PTL

(* router_handle.go AsyncSingleFlightPrefetch: one goroutine for a key,    *)
(* and the reservation ends with it.                                       *)
THEOREM HandleSingleFlight == Spec => []SingleFlight
<1>1. IInv => SingleFlight
  BY DEF IInv
<1> QED
  BY Invariance, <1>1, PTL

(* mem.go Store with setNX, and cache.go getRedisCache that uses it: the   *)
(* read of redis that comes late does not put the older response back, and *)
(* a late failure does not either; a good answer whose goroutine is        *)
(* overtaken between cache.go:157 and 184 is the only one that does.       *)
THEOREM CacheOlderOnlyOvertaken == Spec => OlderOnlyOvertaken
<1>1. IInv /\ [Next]_vars =>
        [\A k \in Key :
            Cached(memory, k) /\ memory'[k] # None /\ memory'[k].stored < memory[k].stored =>
                \E p \in Proc :
                    /\ pc[p] = "store" /\ pc'[p] = "save" /\ KeyOf(p) = k
                    /\ memory'[k] = entry[p] /\ ~Negative(entry[p].resp)]_vars
  <2> SUFFICES ASSUME IInv, [Next]_vars, NEW k \in Key,
                      Cached(memory, k), memory'[k] # None, memory'[k].stored < memory[k].stored
               PROVE  \E p \in Proc :
                        /\ pc[p] = "store" /\ pc'[p] = "save" /\ KeyOf(p) = k
                        /\ memory'[k] = entry[p] /\ ~Negative(entry[p].resp)
    OBVIOUS
  <2>1. MemoryWrite
    BY Writes
  <2>2. memory \in [Key -> Entry \cup {None}] /\ memory[k].stored \in Nat
    BY DEF IInv, CacheOK, GoodStore, GoodEntry, Entry, Cached
  <2>3. memory'[k] # memory[k]
    BY <2>2
  <2>4. ASSUME NEW j \in Key, NEW e \in Entry, memory' = Put(memory, j, e, TRUE)
        PROVE  FALSE
    <3>1. memory' = [memory EXCEPT ![j] = e] /\ ~Cached(memory, j) /\ j = k
      BY <2>2, <2>3, <2>4 DEF Put
    <3> QED
      BY <3>1
  <2>5. PICK p \in Proc : OwnWrite(p)
    BY <2>1, <2>2, <2>3, <2>4 DEF MemoryWrite
  <2>6. /\ memory' = [memory EXCEPT ![KeyOf(p)] = entry[p]]
        /\ ~(Negative(entry[p].resp) /\ Cached(memory, KeyOf(p)))
    BY <2>3, <2>5 DEF OwnWrite, StoreIn, Put
  <2>7. KeyOf(p) = k /\ memory'[k] = entry[p]
    BY <2>2, <2>3, <2>6
  <2> QED
    BY <2>5, <2>6, <2>7 DEF OwnWrite
<1> QED
  BY Invariance, <1>1, PTL DEF Spec, OlderOnlyOvertaken

(* cache.go Store: a SERVFAIL or NXDOMAIN is stored with setNX, so a good  *)
(* answer is kept as long as it lasts, in memory as in redis.              *)
THEOREM CacheNegativeKeepsPositive == Spec => NegativeKeepsPositive
<1>1. IInv /\ [Next]_vars =>
        [\A k \in Key : \A i \in {1, 2} :
            LET old == cacheVars[i]
                new == cacheVars'[i]
            IN Cached(old, k) /\ ~Negative(old[k].resp) /\ new[k] # None
                => ~Negative(new[k].resp)]_<<now, cacheVars>>
  <2> SUFFICES ASSUME IInv, [Next]_vars, NEW k \in Key
               PROVE  /\ Cached(memory, k) /\ ~Negative(memory[k].resp) /\ memory'[k] # None
                            => ~Negative(memory'[k].resp)
                      /\ Cached(redis, k) /\ ~Negative(redis[k].resp) /\ redis'[k] # None
                            => ~Negative(redis'[k].resp)
    BY DEF cacheVars
  <2>1. MemoryWrite /\ RedisWrite
    BY Writes
  <2>2. memory \in [Key -> Entry \cup {None}] /\ redis \in [Key -> Entry \cup {None}]
    BY DEF IInv, CacheOK, GoodStore
  <2>3. Cached(memory, k) /\ ~Negative(memory[k].resp) /\ memory'[k] # None
          => ~Negative(memory'[k].resp)
    <3>1. CASE memory' = memory \/ \E j \in Key : memory' = [memory EXCEPT ![j] = None]
      BY <2>2, <3>1
    <3>2. ASSUME NEW j \in Key, NEW e \in Entry,
                 memory' = StoreIn(memory, j, e) \/ memory' = Put(memory, j, e, TRUE),
                 Cached(memory, k), ~Negative(memory[k].resp)
          PROVE  ~Negative(memory'[k].resp)
      BY <2>2, <3>2, StoreKeepsPositive
    <3> QED
      BY <2>1, <3>1, <3>2 DEF MemoryWrite, OwnWrite
  <2>4. Cached(redis, k) /\ ~Negative(redis[k].resp) /\ redis'[k] # None
          => ~Negative(redis'[k].resp)
    <3>1. ASSUME NEW j \in Key, NEW e \in Entry, redis' = StoreIn(redis, j, e),
                 Cached(redis, k), ~Negative(redis[k].resp)
          PROVE  ~Negative(redis'[k].resp)
      BY <2>2, <3>1, StoreKeepsPositive
    <3> QED
      BY <2>1, <3>1 DEF RedisWrite
  <2> QED
    BY <2>3, <2>4
<1> QED
  BY Invariance, <1>1, PTL DEF Spec, NegativeKeepsPositive
=============================================================================
