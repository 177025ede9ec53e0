----------------------------- MODULE DnsService -----------------------------
(***************************************************************************)
(* What the servers of app/router promise to clients, whatever the         *)
(* protocol: a query is taken once, and is then either dropped or answered *)
(* by one response that goes to the client that asked.  Several queries    *)
(* may be settled by one step, as a batched write does.  Module            *)
(* RouterServers is shown to implement this specification.                 *)
(***************************************************************************)
EXTENDS Naturals, Sequences

CONSTANT Queries      \* queries, each of a client of its own

VARIABLES
    status,           \* status[q]: what became of query q
    delivered         \* delivered[q]: where responses to q were sent

serviceVars == <<status, delivered>>

ServiceInit ==
    /\ status = [q \in Queries |-> "unseen"]
    /\ delivered = [q \in Queries |-> <<>>]

Take(q) ==
    /\ status[q] = "unseen"
    /\ status' = [status EXCEPT ![q] = "pending"]
    /\ UNCHANGED delivered

(* answered get their responses, dropped get none.                         *)
Settle(answered, dropped) ==
    /\ answered \cap dropped = {}
    /\ \A q \in answered : status[q] = "pending"
    /\ \A q \in dropped : status[q] \in {"unseen", "pending"}
    /\ status' = [q \in Queries |-> CASE q \in answered -> "answered"
                                      [] q \in dropped -> "dropped"
                                      [] OTHER -> status[q]]
    /\ delivered' = [q \in Queries |-> IF q \in answered THEN Append(delivered[q], q)
                                                         ELSE delivered[q]]

ServiceNext ==
    \/ \E q \in Queries : Take(q)
    \/ \E answered, dropped \in SUBSET Queries : Settle(answered, dropped)

ServiceSpec == ServiceInit /\ [][ServiceNext]_serviceVars
=============================================================================
