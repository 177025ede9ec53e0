--------------------------- MODULE RouterServers ----------------------------
(***************************************************************************)
(* A router with a UDP server and a server that accepts connections, from  *)
(* Run to Close (app/router/router.go): Run starts the servers one after   *)
(* the other and notes how to close each; a server that cannot start fails *)
(* Run, a server that fails later closes the router, and so does a signal. *)
(***************************************************************************)
EXTENDS UdpServer, StreamServer

(* A query comes over UDP or over a connection.                            *)
ASSUME ServersAssumption == UdpQueries \cap StreamQueries = {}

VARIABLES
    run,              \* where Run is: "start", "note", "failed" or "up"
    closers,          \* Router.serverClosers
    close,            \* closeOnce: "open", "closing" or "closed"
    todo              \* the closers closeImpl has still to call

lifeVars == <<run, closers, close, todo>>
serverVars == <<handlerVars, udpVars, streamVars, lifeVars>>

RouterInit ==
    /\ HandlerInit /\ UdpInit /\ StreamInit
    /\ run = "start"
    /\ closers = <<>>
    /\ close = "open"
    /\ todo = <<>>

(* The server Run is at: the closers of those before it are noted.         *)
NextServer == servers[Len(closers) + 1]

(* startServer launches the goroutines of a server and returns its closer. *)
RunStarts ==
    /\ run = "start"
    /\ \/ NextServer = "udp" /\ StartUdp /\ UNCHANGED streamVars
       \/ NextServer \in StreamProtocols /\ StartStream /\ UNCHANGED udpVars
    /\ run' = "note"
    /\ UNCHANGED <<handlerVars, closers, close, todo>>

RunNotesCloser ==
    /\ run = "note"
    /\ closers' = Append(closers, NextServer)
    /\ run' = IF Len(closers') = Len(servers) THEN "up" ELSE "start"
    /\ UNCHANGED <<handlerVars, udpVars, streamVars, close, todo>>

(* The address is in use: Run returns an error and its deferred call       *)
(* closes the router.                                                      *)
RunFails ==
    /\ run = "start"
    /\ run' = "failed"
    /\ UNCHANGED <<handlerVars, udpVars, streamVars, closers, close, todo>>

(* closeImpl ranges over the closers there are when it starts.             *)
CloseRouter ==
    /\ close = "open"
    /\ close' = "closing"
    /\ todo' = closers

CloseAfterFailedRun ==
    /\ run = "failed"
    /\ CloseRouter
    /\ UNCHANGED <<handlerVars, udpVars, streamVars, run, closers>>

CloseOnSignal ==
    /\ run = "up"
    /\ CloseRouter
    /\ UNCHANGED <<handlerVars, udpVars, streamVars, run, closers>>

CloseNextServer ==
    /\ close = "closing" /\ todo # <<>>
    /\ todo' = Tail(todo)
    /\ \/ /\ Head(todo) = "udp"
          /\ CloseUdp
          /\ UNCHANGED <<linux, send, wms, count, reader, writer, udpMain, udpErr, streamVars>>
       \/ /\ Head(todo) \in StreamProtocols
          /\ CloseStream
          /\ UNCHANGED <<udpVars, serve, conn, slots, panicked>>
    /\ UNCHANGED <<handlerVars, run, closers, close>>

CloseEnds ==
    /\ close = "closing" /\ todo = <<>>
    /\ close' = "closed"
    /\ UNCHANGED <<handlerVars, udpVars, streamVars, run, closers, todo>>

(* The goroutine of a server ends: unless it was closed, it closes the     *)
(* router (a second closer waits for the first in closeOnce).              *)
ServerGone == IF close = "open" THEN CloseRouter ELSE UNCHANGED <<close, todo>>

UdpReturns ==
    /\ udpMain \in {"closing", "failing"}
    /\ reader = "stopped" /\ writer = "stopped"
    /\ udpMain' = "gone"
    /\ IF udpMain = "failing" THEN ServerGone ELSE UNCHANGED <<close, todo>>
    /\ UNCHANGED <<handlerVars, linux, udp, udpCtx, send, wms, count, reader, writer, udpErr,
                   streamVars, run, closers>>

StreamReturns ==
    /\ serve \in {"closed", "failing"}
    /\ serve' = "gone"
    /\ IF serve = "failing" THEN ServerGone ELSE UNCHANGED <<close, todo>>
    /\ UNCHANGED <<handlerVars, udpVars, listener, tracker, conn, sock, slots, panicked,
                   run, closers>>

RouterStep ==
    \/ RunStarts \/ RunNotesCloser \/ RunFails
    \/ CloseAfterFailedRun \/ CloseOnSignal \/ CloseNextServer \/ CloseEnds
    \/ UdpReturns \/ StreamReturns

ServersNext ==
    \/ \E q \in Queries : HandlerStep(q) /\ UNCHANGED <<udpVars, streamVars, lifeVars>>
    \/ UdpStep /\ UNCHANGED <<streamVars, lifeVars>>
    \/ StreamStep /\ UNCHANGED <<udpVars, lifeVars>>
    \/ RouterStep

(* Goroutines are scheduled, handlers end within queryTimeout, writes to a *)
(* peer that does not read within TCP_USER_TIMEOUT, a batch within a       *)
(* millisecond, and Run and closeImpl go on.  Nothing is asked of clients, *)
(* of the network, or of failures.                                         *)
HandlerRuns(q) ==
    \/ HandlerStep(q) /\ UNCHANGED <<udpVars, streamVars, lifeVars>>
    \/ q \in UdpQueries /\ (UdpQueue(q) \/ UdpGiveUp(q)) /\ UNCHANGED <<streamVars, lifeVars>>
    \/ q \in StreamQueries /\ (TakeSlot(q) \/ Respond(q)) /\ UNCHANGED <<udpVars, lifeVars>>

WriterRuns == WriterStep /\ UNCHANGED <<streamVars, lifeVars>>

ReaderEnds == udpCtx /\ ReaderStops /\ UNCHANGED <<streamVars, lifeVars>>

AcceptEnds ==
    /\ listener = "closed"
    /\ AcceptFails
    /\ UNCHANGED <<udpVars, lifeVars>>

ConnRuns(c) ==
    /\ \/ TrackConn(c) \/ RefuseConn(c) \/ ForgetConn(c) \/ ShutConn(c)
       \/ sock[c] = "closed" /\ ConnEnds(c)
    /\ UNCHANGED <<udpVars, lifeVars>>

ServersFairness ==
    /\ \A q \in Queries : WF_serverVars(HandlerRuns(q))
    /\ WF_serverVars(WriterRuns) /\ WF_serverVars(ReaderEnds)
    /\ WF_serverVars(UdpMainCloses /\ UNCHANGED <<streamVars, lifeVars>>)
    /\ WF_serverVars(AcceptEnds)
    /\ \A c \in Conns : WF_serverVars(ConnRuns(c))
    /\ WF_serverVars(CloseNextServer) /\ WF_serverVars(CloseEnds)
    /\ WF_serverVars(UdpReturns) /\ WF_serverVars(StreamReturns)

ServersSpec == RouterInit /\ [][ServersNext]_serverVars /\ ServersFairness

(* A query is received once and answered at most once, to the client that  *)
(* asked: the servers implement DnsService.                                *)
Status(q) ==
    IF delivered[q] # <<>> THEN "answered"
    ELSE CASE query[q] \in {"unseen", "sent"} -> "unseen"
           [] query[q] = "done" -> "dropped"
           [] OTHER -> "pending"

Service == INSTANCE DnsService WITH status <- [q \in Queries |-> Status(q)]

ImplementsService == Service!ServiceSpec

(* A query a server has read is answered or dropped, whatever the others   *)
(* do: handlers wait for the write loop of a batch (server_udp.go:365) or  *)
(* hold slots the reader waits for (server_tcp.go:144).  Closing the UDP   *)
(* server leaves the responses in its channel unsent.                      *)
QueriesEnd ==
    \A q \in Queries :
        query[q] \notin {"unseen", "sent", "done"} ~>
            query[q] = "done" \/ (udpCtx /\ q \in UdpQueries)

(* A server that is closed stops: its loops return, and the sockets of its *)
(* connections are closed.                                                 *)
ClosedServersStop ==
    /\ (udpCtx ~> udpMain = "gone")
    /\ (tracker.closed ~> (serve = "gone" /\ \A c \in Conns : sock[c] \in {"none", "closed"}))

(* "Will only be called when router failed to init (in the same goroutine) *)
(* or after router is started (from other goroutines)." (router.go:318)    *)
ClosedOnceStarted == close # "open" => run \in {"failed", "up"}
=============================================================================
