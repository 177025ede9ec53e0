------------------------------ MODULE ReuseConn ------------------------------
(***************************************************************************)
(* The transport for TCP and TLS without pipelining,                       *)
(* internal/upstream/transport/reuse_transport.go: a connection serves one *)
(* query at a time and goes back to the idle ones.                         *)
(*                                                                         *)
(* A connection is in the hands of one goroutine at most, hand[c]: the one *)
(* that dials it, then those that exchange a query over it.  They go on    *)
(* when the caller they work for has given up.  A caller that is done with *)
(* a query may start another one.  Queries can be packed: makeQueryMsg of  *)
(* router_handle.go makes none that is too long.                           *)
(***************************************************************************)
EXTENDS Naturals, FiniteSets

CONSTANTS
    Caller,       \* goroutines in ExchangeContext
    Conn,
    None,
    MaxRetry      \* retries of one query (6)

ASSUME ReuseAssumption == None \notin Conn \cup Caller /\ MaxRetry \in Nat

VARIABLES
    closed,       \* ReuseConnTransport.closed
    idleConns,    \* ReuseConnTransport.idleConns
    conns,        \* ReuseConnTransport.conns
    serving,      \* reusableConn.serving
    rcClosed,     \* reusableConn.closed
    sock,         \* net.Conn of each connection
    closing,      \* closeIfIdle has decided, the net.Conn is yet to be closed
    inFlight,     \* connections on which a response is still to come
    hand,         \* the goroutine that has the connection
    owner,        \* the caller it works for, None when that one has gone
    pc,           \* where each caller stands
    at,           \* the connection it waits for or uses
    newConn,      \* isNewConn
    retry         \* retries made

transportVars == <<closed, idleConns, conns>>
connVars == <<serving, rcClosed, sock, closing, inFlight>>
handVars == <<hand, owner>>
callerVars == <<pc, at, newConn, retry>>
vars == <<transportVars, connVars, handVars, callerVars>>

Hand ==
    { "none",                       \* no goroutine has it
      "dialing", "conn", "failed",  \* asyncDial, and what it has to offer
      "exchange", "ok", "err",      \* exchangeConn, then its result is sent
      "idled", "shut" }             \* in releaseConn, before the lock

ReuseTypeOK ==
    /\ closed \in BOOLEAN
    /\ idleConns \subseteq conns /\ conns \subseteq Conn
    /\ serving \in [Conn -> BOOLEAN] /\ rcClosed \in [Conn -> BOOLEAN]
    /\ sock \in [Conn -> {"none", "open", "closed"}]
    /\ closing \subseteq Conn /\ inFlight \subseteq Conn
    /\ hand \in [Conn -> Hand]
    /\ owner \in [Conn -> Caller \cup {None}]
    /\ pc \in [Caller -> {"idle", "get", "dial", "wait", "ok", "err"}]
    /\ at \in [Caller -> Conn \cup {None}]
    /\ newConn \in [Caller -> BOOLEAN]
    /\ retry \in [Caller -> 0..MaxRetry]

Init ==
    /\ closed = FALSE /\ idleConns = {} /\ conns = {}
    /\ serving = [c \in Conn |-> FALSE] /\ rcClosed = [c \in Conn |-> FALSE]
    /\ sock = [c \in Conn |-> "none"]
    /\ closing = {} /\ inFlight = {}
    /\ hand = [c \in Conn |-> "none"]
    /\ owner = [c \in Conn |-> None]
    /\ pc = [s \in Caller |-> "idle"]
    /\ at = [s \in Caller |-> None]
    /\ newConn = [s \in Caller |-> FALSE]
    /\ retry = [s \in Caller |-> 0]

Goto(s, state, c) ==
    /\ pc' = [pc EXCEPT ![s] = state]
    /\ at' = [at EXCEPT ![s] = c]

Hold(c, state, s) ==
    /\ hand' = [hand EXCEPT ![c] = state]
    /\ owner' = [owner EXCEPT ![c] = s]

\* An identity nothing refers to any more stands for a new connection.
Fresh(c) ==
    /\ hand[c] = "none" /\ sock[c] # "open"
    /\ c \notin conns \cup closing
    /\ \A s \in Caller : at[s] # c

-----------------------------------------------------------------------------
(* ExchangeContext and getIdleConn                                         *)

Start(s) ==
    /\ pc[s] = "idle"
    /\ Goto(s, "get", None)
    /\ retry' = [retry EXCEPT ![s] = 0]
    /\ UNCHANGED <<transportVars, connVars, handVars, newConn>>

GetRefused(s) ==
    /\ pc[s] = "get" /\ closed
    /\ Goto(s, "idle", None)
    /\ UNCHANGED <<transportVars, connVars, handVars, newConn, retry>>

\* exitIdle
Unusable(c) == rcClosed[c] \/ sock[c] = "closed"

\* The query is written to c and its response will come.
Exchange(s, c) ==
    /\ Hold(c, "exchange", s)
    /\ inFlight' = inFlight \cup {c}
    /\ Goto(s, "wait", c)

\* W: the closed connections that the map yields before c.
GetIdle(s) ==
    /\ pc[s] = "get" /\ ~closed
    /\ \E c \in idleConns, W \in SUBSET idleConns :
        /\ ~Unusable(c) /\ \A d \in W : Unusable(d)
        /\ idleConns' = idleConns \ (W \cup {c})
        /\ conns' = conns \ W
        /\ serving' = [serving EXCEPT ![c] = TRUE]
        /\ Exchange(s, c)
    /\ newConn' = [newConn EXCEPT ![s] = FALSE]
    /\ UNCHANGED <<closed, rcClosed, sock, closing, retry>>

StartDial(s) ==
    /\ pc[s] = "get" /\ ~closed
    /\ \A c \in idleConns : Unusable(c)
    /\ idleConns' = {}
    /\ conns' = conns \ idleConns
    /\ \E c \in Conn :
        /\ Fresh(c)
        /\ sock' = [sock EXCEPT ![c] = "none"]
        /\ rcClosed' = [rcClosed EXCEPT ![c] = FALSE]
        /\ serving' = [serving EXCEPT ![c] = FALSE]
        /\ inFlight' = inFlight \ {c}
        /\ Hold(c, "dialing", s)
        /\ Goto(s, "dial", c)
    /\ newConn' = [newConn EXCEPT ![s] = TRUE]
    /\ UNCHANGED <<closed, closing, retry>>

-----------------------------------------------------------------------------
(* asyncDial                                                               *)

\* DialContext returns; a new connection is registered unless it is too late.
DialReturns(c) ==
    /\ hand[c] = "dialing"
    /\ \/ /\ ~closed
          /\ hand' = [hand EXCEPT ![c] = "conn"]
          /\ conns' = conns \cup {c}
          /\ sock' = [sock EXCEPT ![c] = "open"]
          /\ serving' = [serving EXCEPT ![c] = TRUE]
          /\ UNCHANGED rcClosed
       \/ /\ closed
          /\ hand' = [hand EXCEPT ![c] = "failed"]
          /\ sock' = [sock EXCEPT ![c] = "closed"]
          /\ serving' = [serving EXCEPT ![c] = TRUE]
          /\ rcClosed' = [rcClosed EXCEPT ![c] = TRUE]
          /\ UNCHANGED conns
       \/ /\ hand' = [hand EXCEPT ![c] = "failed"]
          /\ UNCHANGED <<conns, sock, serving, rcClosed>>
    /\ UNCHANGED <<closed, idleConns, closing, inFlight, owner, callerVars>>

DialDelivered(s) ==
    LET c == at[s] IN
    /\ pc[s] = "dial"
    /\ \/ /\ hand[c] = "conn"
          /\ Exchange(s, c)
       \/ /\ hand[c] = "failed"
          /\ Hold(c, "none", None)
          /\ Goto(s, "idle", None)
          /\ UNCHANGED inFlight
    /\ UNCHANGED <<transportVars, serving, rcClosed, sock, closing, newConn, retry>>

\* enterIdle
StillServing(c) == serving
NotServing(c) == [serving EXCEPT ![c] = FALSE]

\* Nobody takes the connection: releaseConn(rc, nil), up to the lock.
OrphanForgotten(c) == UNCHANGED serving /\ Hold(c, "none", None)
OrphanIdles(c) ==
    /\ serving' = NotServing(c)
    /\ Hold(c, "idled", None)

DialOrphaned(c) ==
    /\ owner[c] = None
    /\ \/ hand[c] = "conn" /\ OrphanIdles(c)
       \/ hand[c] = "failed" /\ Hold(c, "none", None) /\ UNCHANGED serving
    /\ UNCHANGED <<transportVars, rcClosed, sock, closing, inFlight, callerVars>>

-----------------------------------------------------------------------------
(* exchangeConnCtx                                                         *)

\* The result is sent to resChan if the caller is still there.
Result(c, state) ==
    /\ Hold(c, state, None)
    /\ pc' = IF owner[c] = None THEN pc ELSE [pc EXCEPT ![owner[c]] = state]

ExchangeOk(c) ==
    /\ hand[c] = "exchange" /\ sock[c] = "open" /\ c \in inFlight
    /\ inFlight' = inFlight \ {c}
    /\ Result(c, "ok")
    /\ UNCHANGED <<transportVars, serving, rcClosed, sock, closing, at, newConn, retry>>

\* The deadline of six seconds, an error, or the connection was closed.
ExchangeErr(c) ==
    /\ hand[c] = "exchange"
    /\ Result(c, "err")
    /\ UNCHANGED <<transportVars, connVars, at, newConn, retry>>

Retried(s) == ~newConn[s] /\ retry[s] < MaxRetry

Return(s) ==
    /\ pc[s] \in {"ok", "err"}
    /\ \/ /\ pc[s] = "err" /\ Retried(s)
          /\ retry' = [retry EXCEPT ![s] = @ + 1]
          /\ Goto(s, "get", None)
       \/ /\ Goto(s, "idle", None)    \* done, no retry left, or ctx is done
          /\ UNCHANGED retry
    /\ UNCHANGED <<transportVars, connVars, handVars, newConn>>

\* The caller's ctx ended: its goroutine goes on with the connection.
LeaveReleasing(c) ==
    IF hand[c] = "exchange" THEN [hand EXCEPT ![c] = "ok"] ELSE hand
LeaveRunning(c) == hand

GiveUp(s) ==
    /\ pc[s] \in {"dial", "wait"}
    /\ hand' = LeaveRunning(at[s])
    /\ owner' = [owner EXCEPT ![at[s]] = None]
    /\ Goto(s, "idle", None)
    /\ UNCHANGED <<transportVars, connVars, newConn, retry>>

-----------------------------------------------------------------------------
(* releaseConn, and the idle timer                                         *)

ReleaseBegins(c) ==
    /\ \/ /\ hand[c] = "ok"
          /\ serving' = NotServing(c)
          /\ hand' = [hand EXCEPT ![c] = "idled"]
          /\ UNCHANGED <<rcClosed, sock>>
       \/ /\ hand[c] = "err"
          /\ rcClosed' = [rcClosed EXCEPT ![c] = TRUE]
          /\ sock' = [sock EXCEPT ![c] = "closed"]
          /\ hand' = [hand EXCEPT ![c] = "shut"]
          /\ UNCHANGED serving
    /\ UNCHANGED <<transportVars, closing, inFlight, owner, callerVars>>

ReleaseEnds(c) ==
    /\ hand[c] \in {"idled", "shut"}
    /\ hand' = [hand EXCEPT ![c] = "none"]
    /\ \/ /\ ~closed /\ hand[c] = "idled"
          /\ idleConns' = idleConns \cup {c}
          /\ UNCHANGED <<conns, rcClosed, sock>>
       \/ /\ ~closed /\ hand[c] = "shut"
          /\ conns' = conns \ {c}
          /\ UNCHANGED <<idleConns, rcClosed, sock>>
       \/ /\ closed
          /\ rcClosed' = [rcClosed EXCEPT ![c] = TRUE]
          /\ sock' = IF rcClosed[c] THEN sock ELSE [sock EXCEPT ![c] = "closed"]
          /\ UNCHANGED <<idleConns, conns>>
    /\ UNCHANGED <<closed, serving, closing, inFlight, owner, callerVars>>

\* closeIfIdle
IdleTimeout(c) ==
    /\ sock[c] # "none" /\ ~rcClosed[c] /\ ~serving[c]
    /\ rcClosed' = [rcClosed EXCEPT ![c] = TRUE]
    /\ closing' = closing \cup {c}
    /\ UNCHANGED <<transportVars, serving, sock, inFlight, handVars, callerVars>>

TimerCloses(c) ==
    /\ c \in closing
    /\ closing' = closing \ {c}
    /\ sock' = [sock EXCEPT ![c] = "closed"]
    /\ UNCHANGED <<transportVars, serving, rcClosed, inFlight, handVars, callerVars>>

Close ==
    /\ ~closed
    /\ closed' = TRUE
    /\ sock' = [c \in Conn |-> IF c \in conns THEN "closed" ELSE sock[c]]
    /\ UNCHANGED <<idleConns, conns, serving, rcClosed, closing, inFlight, handVars,
                   callerVars>>

-----------------------------------------------------------------------------
(* Nothing is left to come on a connection that the next query may get: a  *)
(* late response can not be taken for the answer to another query (query   *)
(* ids are all 0 and not compared).                                        *)
IdleIsQuiet ==
    \A c \in Conn : c \in idleConns \/ hand[c] = "conn" =>
        Unusable(c) \/ c \notin inFlight

(* The two assertions of the code: exitIdle is not called on a connection  *)
(* that serves a query, nor enterIdle on one that does not.                *)
NoPanic ==
    /\ \A c \in idleConns : Unusable(c) \/ ~serving[c]
    /\ \A c \in Conn : hand[c] \in {"conn", "exchange", "ok"} => serving[c]

(* No open socket is forgotten: its connection is in conns, which Close    *)
(* closes, and is either idle, with its timer, or with a goroutine; or its *)
(* timer has decided to close it and is about to.  After Close, sockets    *)
(* are open of the last kind only.                                         *)
SocketsTracked ==
    \A c \in Conn : sock[c] = "open" =>
        \/ c \in conns /\ ~closed /\ (c \in idleConns \/ hand[c] # "none")
        \/ c \in closing
=============================================================================
