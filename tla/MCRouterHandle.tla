--------------------------- MODULE MCRouterHandle ---------------------------
(* Rules that reach every branch: hosts, reject, a rule whose matching     *)
(* answers fall through and one whose matching answers go to a fallback.   *)
EXTENDS RouterHandle, TLC

CONSTANTS q1, t1, t2

Rule(kind, forward, respIp, fallback) ==
    [kind |-> kind, domain |-> {q1}, reverse |-> FALSE, hosts |-> {},
     forward |-> forward, respIp |-> respIp, fallback |-> fallback]

MCRules ==
    << Rule("hosts", None, FALSE, None),
       [Rule("reject", None, FALSE, None) EXCEPT !.reverse = TRUE],
       Rule("forward", t1, TRUE, None),
       Rule("forward", t2, TRUE, t1) >>

(* A good answer is in the resp_ip set and a failure is not: an answer     *)
(* that is not takes the ways of the failure.  Two ticks are enough for a  *)
(* prefetching goroutine to be overtaken between its stamp and its write.  *)
MCReply ==
    { [rcode |-> "success", hasRr |-> TRUE, blocked |-> TRUE],
      [rcode |-> "servfail", hasRr |-> FALSE, blocked |-> FALSE] }

MCDefaultTtl == [rc \in RCode |-> 1]

HandleSymmetry == Permutations(Prefetcher)

(* An entry that has expired is no entry, and of the response of a query   *)
(* only what is left to decide matters.                                    *)
HandleView ==
    LET live(store) == [k \in Key |-> IF Cached(store, k) THEN store[k] ELSE None]
        seen(r) == IF r = None THEN r ELSE <<r.from, r.blocked>>
    IN <<now, live(memory), live(redis), pc, question, rule, stage, entry,
         [p \in Proc |-> seen(resp[p])], held, sf>>
=============================================================================
