------------------------------ MODULE UdpServer ------------------------------
(***************************************************************************)
(* The UDP server (app/router/server_udp.go): a read loop that starts a    *)
(* handler for each query, handlers that put responses into a bounded      *)
(* channel, and a write loop that collects them into a batch of reused     *)
(* messages.  A message carries the buffer of a response, the address of   *)
(* the client and the local address of the query: each is named by the     *)
(* query it came from, and the code is free to mix them up.                *)
(***************************************************************************)
EXTENDS ServerHandler, SequencesExt

CONSTANTS
    UdpQueries,       \* the queries of Queries that come over UDP
    SendCap,          \* capacity of udpServer.send (128)
    BatchSize,        \* batchIoSize of the write loop (32)
    None

ASSUME UdpAssumption ==
    /\ UdpQueries \subseteq Queries
    /\ SendCap \in Nat \ {0} /\ BatchSize \in Nat \ {0}
    /\ None \notin Queries

VARIABLES
    linux,            \* runtime.GOOS: batched loops or plain ones
    udp,              \* the socket: "down" before the start, "open" or "closed"
    udpCtx,           \* udpServer.ctx is cancelled
    send,             \* udpServer.send
    wms,              \* the messages of the write loop, reused by all batches
    count,            \* messages of the current batch
    reader, writer,   \* the two loops
    udpMain,          \* the goroutine of startServer
    udpErr            \* errc: the first error of the loops

udpVars == <<linux, udp, udpCtx, send, wms, count, reader, writer, udpMain, udpErr>>

Blank == [buf |-> None, remote |-> None, oob |-> None]

UdpInit ==
    /\ linux \in BOOLEAN /\ (Contains(servers, "udp") \/ linux)
    /\ udp = "down" /\ udpCtx = FALSE
    /\ send = <<>> /\ wms = [i \in 1..BatchSize |-> Blank] /\ count = 0
    /\ reader = "stopped" /\ writer = "stopped" /\ udpMain = "none"
    /\ udpErr = "none"

StartUdp ==
    /\ udp = "down"
    /\ udp' = "open"
    /\ reader' = "reading" /\ writer' = "waiting" /\ udpMain' = "running"
    /\ UNCHANGED <<linux, udpCtx, send, wms, count, udpErr>>

(* handleMsg of a query that parses; a handler is started.                 *)
UdpReceive(q) ==
    /\ reader = "reading" /\ udp = "open"
    /\ MaySend(q)
    /\ Move(q, "received")
    /\ UNCHANGED <<servers, concurrent, delivered, udpVars>>

(* handleMsg of anything else.                                             *)
UdpIgnore(q) ==
    /\ reader = "reading" /\ udp = "open"
    /\ MaySend(q)
    /\ Move(q, "done")
    /\ UNCHANGED <<servers, concurrent, delivered, udpVars>>

(* The handler's select: the response is queued, or the server is closed.  *)
UdpQueue(q) ==
    /\ query[q] = "resp"
    /\ Len(send) < SendCap
    /\ send' = Append(send, q)
    /\ Move(q, "queued")
    /\ UNCHANGED <<servers, concurrent, delivered, linux, udp, udpCtx, wms, count, reader, writer,
                   udpMain, udpErr>>

UdpGiveUp(q) ==
    /\ query[q] = "resp"
    /\ udpCtx
    /\ Move(q, "done")
    /\ UNCHANGED <<servers, concurrent, delivered, udpVars>>

(* op2Msg writes every part of the message it reuses.                      *)
FillMsgKeepingAddr(m, q) ==
    [m EXCEPT !.buf = q, !.oob = q, !.remote = IF @ = None THEN q ELSE @]

FillMsg(m, q) == [m EXCEPT !.buf = q, !.remote = q, !.oob = q]

ResetMsg(m) == Blank

(* op <- s.send: the first message of a batch, or one more.                *)
TakeOp(i) ==
    /\ send # <<>>
    /\ send' = Tail(send)
    /\ wms' = [wms EXCEPT ![i] = FillMsg(@, Head(send))]
    /\ count' = i
    /\ Move(Head(send), "batched")

(* When the loop had to wait a millisecond for the first response, or when *)
(* the batch is full, it is written without waiting for more.              *)
BatchBegin ==
    /\ linux
    /\ writer = "waiting"
    /\ TakeOp(1)
    /\ writer' \in {"collecting", "writing"}
    /\ UNCHANGED <<servers, concurrent, delivered, linux, udp, udpCtx, reader, udpMain, udpErr>>

BatchMore ==
    /\ writer = "collecting"
    /\ count < BatchSize
    /\ TakeOp(count + 1)
    /\ writer' = IF count' < BatchSize THEN "collecting" ELSE "writing"
    /\ UNCHANGED <<servers, concurrent, delivered, linux, udp, udpCtx, reader, udpMain, udpErr>>

BatchTimer ==
    /\ writer = "collecting"
    /\ writer' = "writing"
    /\ UNCHANGED <<handlerVars, linux, udp, udpCtx, send, wms, count, reader, udpMain, udpErr>>

(* Where message m goes: a local address that is not of the query it       *)
(* answers counts as a wrong address.                                      *)
Target(m) == IF m.oob = m.remote THEN m.remote ELSE None

(* Messages 1..n leave.  The order of those that answer one query is not   *)
(* told apart.                                                             *)
Sent(n) ==
    LET of(q) == SetToSeq({i \in 1..n : wms[i].buf = q})
    IN delivered' = [q \in Queries |-> delivered[q] \o
                        [k \in 1..Len(of(q)) |-> Target(wms[of(q)[k]])]]

(* The messages the loop resets after the write: all but the last.         *)
ResetRange(n) == 1..(n - 1)

(* WriteBatch sends a prefix; the rest is lost, its error only logged.     *)
BatchWrite ==
    /\ writer = "writing"
    /\ \E n \in 0..count :
          /\ n > 0 => udp = "open"
          /\ Sent(n)
    /\ query' = [q \in Queries |-> IF q \in {wms[i].buf : i \in 1..count} /\ query[q] = "batched"
                                   THEN "done" ELSE query[q]]
    /\ wms' = [i \in 1..BatchSize |-> IF i \in ResetRange(count) THEN ResetMsg(wms[i]) ELSE wms[i]]
    /\ count' = 0
    /\ writer' = "waiting"
    /\ UNCHANGED <<servers, concurrent, linux, udp, udpCtx, send, reader, udpMain, udpErr>>

(* startWriteLoopOthers writes each response by itself.                    *)
WriteOne ==
    /\ ~linux
    /\ writer = "waiting"
    /\ send # <<>>
    /\ send' = Tail(send)
    /\ Move(Head(send), "done")
    /\ \/ /\ udp = "open"
          /\ delivered' = [delivered EXCEPT ![Head(send)] = Append(@, Head(send))]
       \/ UNCHANGED delivered
    /\ UNCHANGED <<servers, concurrent, linux, udp, udpCtx, wms, count, reader, writer, udpMain, udpErr>>

FirstErr(err) == udpErr' = IF udpErr = "none" THEN err ELSE udpErr

(* Reading fails when the socket is closed, or on its own.                 *)
ReaderStops ==
    /\ reader = "reading"
    /\ reader' = "stopped"
    /\ FirstErr(IF udpCtx THEN "closed" ELSE "failed")
    /\ UNCHANGED <<handlerVars, linux, udp, udpCtx, send, wms, count, writer, udpMain>>

WriterStops ==
    /\ writer = "waiting" /\ udpCtx
    /\ writer' = "stopped"
    /\ FirstErr("closed")
    /\ UNCHANGED <<handlerVars, linux, udp, udpCtx, send, wms, count, reader, udpMain>>

(* udpServer.Close.                                                        *)
CloseUdp ==
    /\ udpCtx' = TRUE
    /\ udp' = "closed"

(* startServer hears of the end of a loop or of Close, and closes too.     *)
UdpMainCloses ==
    /\ udpMain = "running"
    /\ \/ udpCtx /\ udpMain' = "closing"
       \/ udpErr # "none" /\ udpMain' = IF udpErr = "failed" THEN "failing" ELSE "closing"
    /\ CloseUdp
    /\ UNCHANGED <<handlerVars, linux, send, wms, count, reader, writer, udpErr>>

WriterStep == BatchBegin \/ BatchMore \/ BatchTimer \/ BatchWrite \/ WriteOne \/ WriterStops

UdpStep ==
    \/ \E q \in UdpQueries : UdpReceive(q) \/ UdpIgnore(q) \/ UdpQueue(q) \/ UdpGiveUp(q)
    \/ WriterStep \/ ReaderStops \/ UdpMainCloses
=============================================================================
