----------------------------- MODULE MCConnPool -----------------------------
(* Model values and small limits for ConnPool.                             *)
EXTENDS ConnPool, TLC

PoolSymmetry == Permutations(Conn) \cup Permutations(Stream)

(* Fields that no step reads before they are overwritten do not tell       *)
(* states apart: what a finished dialing call or a forgotten connection    *)
(* leaves behind.                                                          *)
Awaited(c) == c \in dialingCalls \/ \E s \in Users(c) : pc[s] = "waiting"
Read(f, unread, readable(_)) == [c \in Conn |-> IF readable(c) THEN f[c] ELSE unread]

PoolView ==
    LET pooled(c) == c \in busyConns
        known(c) == ~Fresh(c)
        picked(c) == Awaited(c) \/ connState[c] = "open"
    IN <<closed, dialingCalls, lastDialCall, busyConns, idleConns, dialer,
         Read(curStream, 0, pooled), Read(dialCall, "none", Awaited),
         Read(streamQueue, 0, Awaited), Read(connState, "none", known),
         Read(available, FALSE, picked), reserved, doomed, pc, at>>
=============================================================================
