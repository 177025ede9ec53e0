----------------------------- MODULE MCUpstream ------------------------------
(* Two callers, and connections for their queries and for what queries     *)
(* they gave up left running.                                              *)
EXTENDS Upstream, TLC

MCSetups == { <<"udp", "name", TRUE>>, <<"tcp", "name", TRUE>>,
              <<"tcp", "name", FALSE>>, <<"tcp", "unix", TRUE>> }

MCMaxConns == [udp |-> 2, tcp |-> 3]

(* Nothing reads what is left of a connection that is gone, nor of a query *)
(* that is done.                                                           *)
UpstreamView ==
    LET gone(c) == Fresh(c) /\ (sock[c] = "none" \/ rcClosed[c])
        conn(f) == [c \in Conn |-> IF gone(c) THEN None ELSE f[c]]
        caller(f) == [s \in Caller |-> IF pc[s] = "idle" THEN None ELSE f[s]]
    IN << closed, idleConns, conns, conn(serving), conn(rcClosed), conn(sock),
          closing, {c \in inFlight : ~gone(c)}, hand, owner, pc, at, caller(newConn),
          caller(retry), fallbackVars, resolverVars >>

UpstreamSymmetry == Permutations(Caller) \cup Permutations(Conn)
=============================================================================
