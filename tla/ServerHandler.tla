--------------------------- MODULE ServerHandler ----------------------------
(***************************************************************************)
(* What every server does with a query once it has it: the router's entry  *)
(* (router_handle.go serverEntryHandler) runs the chain of middlewares, of *)
(* which the limit middleware (middleware/limit/limit.go) is modelled.     *)
(* Its counter is shared by the handlers of all servers.  What the         *)
(* handlers behind it do is the subject of RouterHandle.                   *)
(***************************************************************************)
EXTENDS Naturals, Sequences, FiniteSets

CONSTANTS
    Queries,          \* queries of clients
    Concurrent,       \* limit.Args.Concurrent, 0 when not limited
    Rated,            \* limit.Args.QPS > 0
    Configs,          \* sequences of servers a configuration may ask for
    MaxQueries        \* bound: clients send MaxQueries[n] queries to n servers

ASSUME HandlerAssumption == IsFiniteSet(Queries)

VARIABLES
    servers,          \* Config.Servers, the protocol of each
    query,            \* query[q]: where query q is
    concurrent,       \* Limit.concurrent
    delivered         \* delivered[q]: addresses the response to q was sent to

handlerVars == <<servers, query, concurrent, delivered>>

HandlerInit ==
    /\ servers \in Configs
    /\ query = [q \in Queries |-> "unseen"]
    /\ concurrent = 0
    /\ delivered = [q \in Queries |-> <<>>]

MaySend(q) ==
    /\ query[q] = "unseen"
    /\ Cardinality({p \in Queries : query[p] # "unseen"}) < MaxQueries[Len(servers)]

Move(q, s) == query' = [query EXCEPT ![q] = s]

(* The token bucket refuses.                                               *)
RateReject(q) ==
    /\ query[q] = "received"
    /\ Rated
    /\ Move(q, "resp")
    /\ UNCHANGED <<servers, concurrent, delivered>>

(* concurrent.Add(1) comes before the comparison.                          *)
LimitReject(q) ==
    /\ query[q] = "received"
    /\ Concurrent > 0
    /\ concurrent + 1 > Concurrent
    /\ concurrent' = concurrent + 1
    /\ Move(q, "resp")
    /\ UNCHANGED <<servers, delivered>>

LimitEnter(q) ==
    /\ query[q] = "received"
    /\ Concurrent > 0 => concurrent + 1 <= Concurrent
    /\ concurrent' = IF Concurrent > 0 THEN concurrent + 1 ELSE concurrent
    /\ Move(q, "inside")
    /\ UNCHANGED <<servers, delivered>>

(* The rest of the chain returns, with a response in any case.             *)
HandlerReturn(q) ==
    /\ query[q] = "inside"
    /\ concurrent' = IF Concurrent > 0 THEN concurrent - 1 ELSE concurrent
    /\ Move(q, "resp")
    /\ UNCHANGED <<servers, delivered>>

HandlerStep(q) == RateReject(q) \/ LimitReject(q) \/ LimitEnter(q) \/ HandlerReturn(q)

(* "The total number of queries rejected because the concurrent limit"     *)
(* (limit.go:34): a query is refused for the limit only while that many    *)
(* queries are being handled.                                              *)
RejectedForALimit ==
    [][\A q \in Queries : LimitReject(q) =>
          Cardinality({p \in Queries : query[p] = "inside"}) >= Concurrent]_handlerVars
=============================================================================
