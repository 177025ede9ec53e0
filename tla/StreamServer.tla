---------------------------- MODULE StreamServer -----------------------------
(***************************************************************************)
(* The servers that accept connections: TCP and TLS (server_tcp.go), DoQ   *)
(* (server_quic.go) and fasthttp (server_http_fasthttp.go).  They share    *)
(* connTracker (server_utils.go) and differ in how many queries of a       *)
(* connection are handled at a time and in the order in which a            *)
(* connection is closed and forgotten.  The http and http3 servers leave   *)
(* all of this to net/http and quic-go.                                    *)
(***************************************************************************)
EXTENDS ServerHandler, SequencesExt

CONSTANTS
    Conns,            \* client connections
    StreamQueries,    \* the queries of Queries that come over connections
    ConnOf,           \* ConnOf[q]: the connection of q
    MaxConcurrent     \* tcpServer.maxConcurrent

ASSUME StreamAssumption ==
    /\ StreamQueries \subseteq Queries
    /\ ConnOf \in [StreamQueries -> Conns]
    /\ MaxConcurrent \in Nat \ {0}

VARIABLES
    listener,         \* "down", "open" or "closed"
    tracker,          \* connTracker: [closed, conns]
    serve,            \* the goroutine of run: "accepting" or how it ended
    conn,             \* conn[c]: where the goroutine of connection c is
    sock,             \* sock[c]: "none", "open", "dead" (the peer left) or "closed"
    slots,            \* slots[c]: entries of the channel concurrent
    panicked          \* a handler found the channel empty

streamVars == <<listener, tracker, serve, conn, sock, slots, panicked>>

StreamInit ==
    /\ listener = "down"
    /\ tracker = [closed |-> FALSE, conns |-> {}]
    /\ serve = "none"
    /\ conn = [c \in Conns |-> "none"]
    /\ sock = [c \in Conns |-> "none"]
    /\ slots = [c \in Conns |-> 0]
    /\ panicked = FALSE

StreamProtocols == {"tcp", "quic", "fasthttp"}

(* ServerConfig.Protocol; a tls server is a tcp server here.               *)
Speaks(protocol) == Contains(servers, protocol)

Of(c) == {q \in StreamQueries : ConnOf[q] = c}

StartStream ==
    /\ listener = "down"
    /\ listener' = "open"
    /\ serve' = "accepting"
    /\ UNCHANGED <<tracker, conn, sock, slots, panicked>>

(* l.Accept returns a connection a client has made.                        *)
Accept(c) ==
    /\ serve = "accepting" /\ listener = "open"
    /\ conn[c] = "none"
    /\ \A d \in Conns : conn[d] # "accepted"
    /\ conn' = [conn EXCEPT ![c] = "accepted"]
    /\ sock' = [sock EXCEPT ![c] = "open"]
    /\ UNCHANGED <<handlerVars, listener, tracker, serve, slots, panicked>>

TrackConn(c) ==
    /\ conn[c] = "accepted"
    /\ ~tracker.closed
    /\ tracker' = [tracker EXCEPT !.conns = @ \cup {c}]
    /\ conn' = [conn EXCEPT ![c] = "serving"]
    /\ UNCHANGED <<handlerVars, listener, serve, sock, slots, panicked>>

RefuseConnUnclosed(c) ==
    /\ conn[c] = "accepted"
    /\ tracker.closed
    /\ conn' = [conn EXCEPT ![c] = "gone"]
    /\ UNCHANGED <<handlerVars, listener, tracker, serve, sock, slots, panicked>>

RefuseConn(c) ==
    /\ conn[c] = "accepted"
    /\ tracker.closed
    /\ conn' = [conn EXCEPT ![c] = "gone"]
    /\ sock' = [sock EXCEPT ![c] = "closed"]
    /\ UNCHANGED <<handlerVars, listener, tracker, serve, slots, panicked>>

(* l.Accept fails: the listener is closed, or it fails on its own.         *)
AcceptFails ==
    /\ serve = "accepting"
    /\ \A d \in Conns : conn[d] # "accepted"
    /\ serve' = IF tracker.closed THEN "closed" ELSE "failing"
    /\ listener' = "closed"
    /\ UNCHANGED <<handlerVars, tracker, conn, sock, slots, panicked>>

ClientSends(q) ==
    /\ sock[ConnOf[q]] = "open"
    /\ MaySend(q)
    /\ Move(q, "sent")
    /\ UNCHANGED <<servers, concurrent, delivered, streamVars>>

(* A client closes its connection, or stops answering.                     *)
ClientLeaves(c) ==
    /\ sock[c] = "open"
    /\ sock' = [sock EXCEPT ![c] = "dead"]
    /\ UNCHANGED <<handlerVars, listener, tracker, serve, conn, slots, panicked>>

(* Queries a connection may have in hand at a time: the channel of the TCP *)
(* server, one at a time over http, streams of their own over QUIC.        *)
SlotLimit == CASE Speaks("tcp") -> MaxConcurrent
               [] Speaks("fasthttp") -> 1
               [] OTHER -> Cardinality(StreamQueries)

SlotFreeOffByOne(c) == slots[c] <= SlotLimit

SlotFree(c) == slots[c] < SlotLimit

(* The reader has a query in hand and takes a slot for its handler.  One   *)
(* that parseQuery refuses is answered without the middlewares.            *)
StartHandler(q) ==
    LET c == ConnOf[q]
    IN /\ slots' = [slots EXCEPT ![c] = @ + 1]
       /\ \E s \in {"received", "resp"} : Move(q, s)

ReadQuery(q) ==
    LET c == ConnOf[q]
    IN /\ conn[c] = "serving" /\ sock[c] # "closed"
       /\ query[q] = "sent"
       /\ Speaks("tcp")
       /\ conn' = [conn EXCEPT ![c] = "holding"]
       /\ Move(q, "read")
       /\ UNCHANGED <<servers, concurrent, delivered, listener, tracker, serve, sock, slots,
                      panicked>>

TakeSlot(q) ==
    LET c == ConnOf[q]
    IN /\ query[q] = "read"
       /\ conn[c] = "holding"
       /\ SlotFree(c)
       /\ StartHandler(q)
       /\ conn' = [conn EXCEPT ![c] = "serving"]
       /\ UNCHANGED <<servers, concurrent, delivered, listener, tracker, serve, sock, panicked>>

(* fasthttp reads a request when it has answered the one before, a DoQ     *)
(* stream carries one.                                                     *)
ReadAndHandle(q) ==
    LET c == ConnOf[q]
    IN /\ conn[c] = "serving" /\ sock[c] # "closed"
       /\ query[q] = "sent"
       /\ ~Speaks("tcp")
       /\ SlotFree(c)
       /\ StartHandler(q)
       /\ UNCHANGED <<servers, concurrent, delivered, listener, tracker, serve, conn, sock,
                      panicked>>

(* A DoQ stream that brings no valid message in a second, or an http       *)
(* request that holds none, gets no response that is a DNS message.        *)
StreamFails(q) ==
    /\ ~Speaks("tcp")
    /\ conn[ConnOf[q]] = "serving"
    /\ query[q] = "sent"
    /\ Move(q, "done")
    /\ UNCHANGED <<servers, concurrent, delivered, streamVars>>

FreeSlotNever(c) == UNCHANGED <<slots, panicked>>

FreeSlot(c) ==
    IF slots[c] > 0 THEN slots' = [slots EXCEPT ![c] = @ - 1] /\ UNCHANGED panicked
                    ELSE panicked' = TRUE /\ UNCHANGED slots

(* The response is written while the connection is open; the handler ends. *)
Respond(q) ==
    LET c == ConnOf[q]
    IN /\ query[q] = "resp"
       /\ Move(q, "done")
       /\ \/ /\ sock[c] = "open"
             /\ delivered' = [delivered EXCEPT ![q] = Append(@, q)]
          \/ /\ sock[c] # "open"
             /\ UNCHANGED delivered
       /\ FreeSlot(c)
       /\ UNCHANGED <<servers, concurrent, listener, tracker, serve, conn, sock>>

(* handleConn ends: the connection is closed, idle, or sends no DNS; not   *)
(* while the TCP reader waits for a slot, nor while fasthttp handles.      *)
ConnEnds(c) ==
    /\ conn[c] = "serving"
    /\ Speaks("fasthttp") => slots[c] = 0
    /\ conn' = [conn EXCEPT ![c] = "ended"]
    /\ UNCHANGED <<handlerVars, listener, tracker, serve, sock, slots, panicked>>

(* The deferred calls: TCP forgets the connection before it closes it, the *)
(* others after.                                                           *)
ForgetConn(c) ==
    /\ conn[c] = IF Speaks("tcp") THEN "ended" ELSE "shut"
    /\ tracker' = [tracker EXCEPT !.conns = @ \ {c}]
    /\ conn' = [conn EXCEPT ![c] = IF Speaks("tcp") THEN "forgotten" ELSE "gone"]
    /\ UNCHANGED <<handlerVars, listener, serve, sock, slots, panicked>>

ShutConn(c) ==
    /\ conn[c] = IF Speaks("tcp") THEN "forgotten" ELSE "ended"
    /\ sock' = [sock EXCEPT ![c] = "closed"]
    /\ conn' = [conn EXCEPT ![c] = IF Speaks("tcp") THEN "gone" ELSE "shut"]
    /\ UNCHANGED <<handlerVars, listener, tracker, serve, slots, panicked>>

(* connTracker.Close, of Close of the three servers.                       *)
ClosedByTracker == tracker.conns

CloseStream ==
    /\ tracker' = [tracker EXCEPT !.closed = TRUE]
    /\ listener' = IF tracker.closed THEN listener ELSE "closed"
    /\ sock' = [c \in Conns |-> IF ~tracker.closed /\ c \in ClosedByTracker THEN "closed"
                                                                          ELSE sock[c]]

StreamStep ==
    \/ AcceptFails
    \/ \E c \in Conns : \/ Accept(c) \/ TrackConn(c) \/ RefuseConn(c) \/ ClientLeaves(c)
                        \/ ConnEnds(c) \/ ForgetConn(c) \/ ShutConn(c)
    \/ \E q \in StreamQueries : \/ ClientSends(q) \/ ReadQuery(q) \/ TakeSlot(q)
                                \/ ReadAndHandle(q) \/ StreamFails(q) \/ Respond(q)

(* A slot is held by each running handler of the connection and by nobody  *)
(* else, even when the connection ends before them (server_tcp.go,         *)
(* handleConn: "negative concurrent counter").                             *)
SlotsMatchHandlers ==
    /\ ~panicked
    /\ \A c \in Conns :
          /\ slots[c] = Cardinality({q \in Of(c) : query[q] \in {"received", "inside", "resp"}})
          /\ slots[c] <= SlotLimit
=============================================================================
