-------------------------- MODULE MCUpstreamHealth --------------------------
(* Two upstreams behind one load balancer, one of them behind a second.    *)
EXTENDS UpstreamHealth, TLC

CONSTANTS u1, u2, b1, b2

MCBackends == b1 :> <<u1, u2>> @@ b2 :> <<u2>>
MCMaxFails == u1 :> 1 @@ u2 :> 2

LiveBackends == b1 :> <<u1, u2>>
LiveMaxFails == u1 :> 1 @@ u2 :> 1

HealthSymmetry == Permutations(Query) \cup Permutations(Loop)

(* Nothing reads the context of a loop that has ended.                     *)
HealthView ==
    <<statusVars, loopPc, loopOf, [l \in Loop |-> cancelled[l] \/ loopPc[l] = "free"],
      queryVars, rebuildVars, closeVars>>
=============================================================================
