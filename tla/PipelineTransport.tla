-------------------------- MODULE PipelineTransport --------------------------
(***************************************************************************)
(* The pipelining transport (UDP, and TCP/TLS with pipelining):            *)
(* internal/upstream/transport/pipeline_transport.go over pipelineConn     *)
(* (pipeline_conn.go), composed with the pool of module ConnPool.          *)
(*                                                                         *)
(* Each caller s \in Stream exchanges one query, named s as well.  A step  *)
(* of the pool is taken together with what it does to the pipelineConn     *)
(* (Reserve, newPipelineConn) and to the caller; available is what         *)
(* pipelineConn.Status computes.  Query ids run from 0 to MaxQid (65535 in *)
(* the code) and are never used twice on a connection.                     *)
(***************************************************************************)
EXTENDS ConnPool

CONSTANTS
    MaxQid,       \* the last query id
    MaxRetry      \* ExchangeContext retries so many times

ASSUME PipelineAssumption ==
    /\ MaxQid \in Nat
    /\ MaxRetry \in Nat
    /\ None \notin Stream

VARIABLES
    isTCP,        \* PipelineOpts.IsTCP
    nextQid,      \* pipelineConn.nextQid
    connReserved, \* pipelineConn.reserved
    queue,        \* pipelineConn.queue: the caller registered under each qid
    wire,         \* queries the server has seen, as <<qid, query>>
    phase,        \* progress of ExchangeContext
    qid,          \* the caller's query id, NoQid before addQueueC
    mailbox,      \* respChan, buffer 1: the query whose response it holds
    answer,       \* the query whose response ExchangeContext returns
    newConn,      \* Get said that the caller waited for this connection
    retry         \* retries made

pconnVars == <<isTCP, nextQid, connReserved, queue, wire>>
exchangeVars == <<phase, qid, mailbox, answer, newConn, retry>>
tvars == <<vars, pconnVars, exchangeVars>>

Qid == 0..MaxQid
NoQid == MaxQid + 1

Phase == {"get", "queued", "sent", "ended", "lost", "answered", "failed"}

PipelineTypeOK ==
    /\ TypeOK
    /\ isTCP \in BOOLEAN
    /\ nextQid \in [Conn -> 0..MaxQid + 1]
    /\ connReserved \in [Conn -> 0..MaxQid]
    /\ queue \in [Conn -> [Qid -> Stream \cup {None}]]
    /\ wire \in [Conn -> SUBSET (Qid \X Stream)]
    /\ phase \in [Stream -> Phase]
    /\ qid \in [Stream -> 0..NoQid]
    /\ mailbox \in [Stream -> Stream \cup {None}]
    /\ answer \in [Stream -> Stream \cup {None}]
    /\ newConn \in [Stream -> BOOLEAN]
    /\ retry \in [Stream -> 0..MaxRetry]

PipelineInit ==
    /\ Init
    /\ isTCP \in BOOLEAN
    /\ nextQid = [c \in Conn |-> MaxQid + 1]
    /\ connReserved = [c \in Conn |-> 0]
    /\ queue = [c \in Conn |-> [q \in Qid |-> None]]
    /\ wire = [c \in Conn |-> {}]
    /\ phase = [s \in Stream |-> "get"]
    /\ qid = [s \in Stream |-> NoQid]
    /\ mailbox = [s \in Stream |-> None]
    /\ answer = [s \in Stream |-> None]
    /\ newConn = [s \in Stream |-> FALSE]
    /\ retry = [s \in Stream |-> 0]

-----------------------------------------------------------------------------
(* pipelineConn                                                            *)

\* Status().Available
Bookable(next, booked) == next + booked <= MaxQid

\* Reserve(), at every place where the pool calls it.
Reserve ==
    connReserved' =
        [c \in Conn |->
            IF reserved'[c] > reserved[c] /\ nextQid[c] + connReserved[c] < MaxQid
            THEN connReserved[c] + 1 ELSE connReserved[c]]

Registered(c) == {q \in Qid : queue[c][q] # None}

NextPhase(s, p) == phase' = [phase EXCEPT ![s] = p]

-----------------------------------------------------------------------------
(* ExchangeContext and getConn                                             *)

GetPooled(s) ==
    /\ phase[s] = "get"
    /\ GetBusy(s) \/ GetIdle(s)
    /\ Reserve
    /\ newConn' = [newConn EXCEPT ![s] = FALSE]
    /\ UNCHANGED <<isTCP, nextQid, queue, wire, phase, qid, mailbox, answer, retry>>

GetWaiting(s) ==
    /\ phase[s] = "get"
    /\ GetQueue(s) \/ GetDial(s)
    /\ UNCHANGED <<pconnVars, exchangeVars>>

GetRefused(s) ==
    /\ phase[s] = "get" /\ pc[s] = "idle"
    /\ \/ GetNone(s)
       \/ closed /\ UNCHANGED <<poolVars, dialVars, connVars, callerVars>>
    /\ NextPhase(s, "failed")
    /\ UNCHANGED <<pconnVars, qid, mailbox, answer, newConn, retry>>

Notified(s) ==
    /\ WaitDelivered(s)
    /\ Reserve
    /\ newConn' = [newConn EXCEPT ![s] = TRUE]
    /\ UNCHANGED <<isTCP, nextQid, queue, wire, phase, qid, mailbox, answer, retry>>

WaitEnds(s) ==
    /\ WaitFailed(s) \/ WaitTimeout(s)
    /\ NextPhase(s, "failed")
    /\ UNCHANGED <<pconnVars, qid, mailbox, answer, newConn, retry>>

-----------------------------------------------------------------------------
(* pipelineConn.exchange                                                   *)

AssignedReusing(c) == IF nextQid[c] = 0 THEN 0 ELSE nextQid[c] - 1
Assigned(c) == nextQid[c]

HasQid(c) == nextQid[c] <= MaxQid

FreeReservationKept(c) == connReserved
FreeReservation(c) == [connReserved EXCEPT ![c] = IF @ > 0 THEN @ - 1 ELSE 0]

AddQueue(s) ==
    LET c == at[s] IN
    /\ phase[s] = "get"
    /\ OpenStream(s)
    /\ connReserved' = FreeReservation(c)
    /\ \/ /\ HasQid(c)
          /\ qid' = [qid EXCEPT ![s] = Assigned(c)]
          /\ queue' = [queue EXCEPT ![c][Assigned(c)] = s]
          /\ nextQid' = [nextQid EXCEPT ![c] = @ + 1]
          /\ NextPhase(s, "queued")
       \/ /\ ~HasQid(c)       \* errPipelineConnEoL
          /\ NextPhase(s, "lost")
          /\ UNCHANGED <<qid, queue, nextQid>>
    /\ UNCHANGED <<isTCP, wire, mailbox, answer, newConn, retry>>

\* deleteQueueC, deferred by exchange: an exhausted connection closes behind
\* its last query.  shut: it was closed already by the caller.
NeverExhausted(s) == FALSE
Exhausted(s) == nextQid[at[s]] > MaxQid /\ Registered(at[s]) = {qid[s]}

DeleteQueue(s, shut) ==
    /\ queue' = [queue EXCEPT ![at[s]][qid[s]] = None]
    /\ connState' = IF shut \/ Exhausted(s)
                    THEN [connState EXCEPT ![at[s]] = "closed"] ELSE connState
    /\ qid' = [qid EXCEPT ![s] = NoQid]
    /\ mailbox' = [mailbox EXCEPT ![s] = None]

\* The first write, and over UDP the resends that follow it.
Write(s) ==
    /\ \/ phase[s] = "queued"
       \/ phase[s] = "sent" /\ ~isTCP
    /\ connState[at[s]] = "open"
    /\ wire' = [wire EXCEPT ![at[s]] = @ \cup {<<qid[s], s>>}]
    /\ NextPhase(s, "sent")
    /\ UNCHANGED <<poolVars, dialVars, connVars, callerVars, isTCP, nextQid, connReserved,
                   queue, qid, mailbox, answer, newConn, retry>>

\* A write error closes a UDP connection (unless the message was too big for
\* it), a TCP one stays as it is.
WriteFails(s) ==
    /\ \/ phase[s] = "queued"
       \/ phase[s] = "sent" /\ ~isTCP
    /\ \E shut \in BOOLEAN :
        /\ shut => ~isTCP
        /\ DeleteQueue(s, shut)
    /\ NextPhase(s, "lost")
    /\ UNCHANGED <<poolVars, dialVars, reserved, doomed, callerVars, isTCP, nextQid,
                   connReserved, wire, answer, newConn, retry>>

Receive(s) ==
    /\ phase[s] = "sent" /\ mailbox[s] # None
    /\ answer' = [answer EXCEPT ![s] = mailbox[s]]
    /\ DeleteQueue(s, FALSE)
    /\ NextPhase(s, "ended")
    /\ UNCHANGED <<poolVars, dialVars, reserved, doomed, callerVars, isTCP, nextQid,
                   connReserved, wire, newConn, retry>>

\* The caller's ctx ended, or the connection was closed.
Abandon(s) ==
    /\ phase[s] = "sent"
    /\ \/ NextPhase(s, "ended")
       \/ connState[at[s]] = "closed" /\ NextPhase(s, "lost")
    /\ DeleteQueue(s, FALSE)
    /\ UNCHANGED <<poolVars, dialVars, reserved, doomed, callerVars, isTCP, nextQid,
                   connReserved, wire, answer, newConn, retry>>

\* readLoop: one response, dropped unless its qid waits for a first one.
Respond(c) ==
    /\ connState[c] = "open"
    /\ \E m \in wire[c] :
        LET s == queue[c][m[1]] IN
        /\ s # None
        /\ mailbox[s] = None
        /\ mailbox' = [mailbox EXCEPT ![s] = m[2]]
    /\ UNCHANGED <<poolVars, dialVars, connVars, callerVars, pconnVars, phase, qid, answer,
                   newConn, retry>>

(* releaseConn (or the Release inside Get for a connection that turned     *)
(* out to be unavailable); an error on a reused connection is retried      *)
(* unless the caller's ctx is done.                                        *)
Return(s) ==
    /\ Release(s)
    /\ \/ /\ phase[s] = "lost" /\ ~newConn[s] /\ retry[s] < MaxRetry
          /\ retry' = [retry EXCEPT ![s] = @ + 1]
          /\ NextPhase(s, "get")
       \/ /\ phase[s] \in {"lost", "ended"} \/ pc[s] = "refused"
          /\ NextPhase(s, IF answer[s] = None THEN "failed" ELSE "answered")
          /\ UNCHANGED retry
    /\ UNCHANGED <<pconnVars, qid, mailbox, answer, newConn>>

-----------------------------------------------------------------------------
(* Dials and the ends of connections                                       *)

\* newPipelineConn makes its state afresh.
Dialled(c) ==
    /\ DialReturn(c)
    /\ nextQid' = [nextQid EXCEPT ![c] = IF connState'[c] = "open" THEN 0 ELSE @]
    /\ connReserved' = [connReserved EXCEPT ![c] = 0]
    /\ queue' = [queue EXCEPT ![c] = [q \in Qid |-> None]]
    /\ wire' = [wire EXCEPT ![c] = {}]
    /\ UNCHANGED <<isTCP, exchangeVars>>

PoolSide ==
    /\ \/ \E c \in Conn : DialDiscard(c) \/ DialCommit(c) \/ CloseDoomed(c) \/ ConnDies(c)
       \/ Close
    /\ UNCHANGED <<pconnVars, exchangeVars>>

CallerStep(s) ==
    \/ GetPooled(s) \/ GetWaiting(s) \/ GetRefused(s) \/ Notified(s)
    \/ WaitEnds(s) \/ AddQueue(s) \/ Write(s) \/ WriteFails(s) \/ Receive(s)
    \/ Abandon(s) \/ Return(s)

Published == available' = [c \in Conn |-> Bookable(nextQid'[c], connReserved'[c])]

PipelineNext ==
    \/ (\E s \in Stream : CallerStep(s)) /\ Published
    \/ (\E c \in Conn : Respond(c) \/ Dialled(c)) /\ Published
    \/ PoolSide /\ Published

PipelineSpec == PipelineInit /\ [][PipelineNext]_tvars

(* What a caller does without its ctx ending; goroutines are scheduled.    *)
Progress(s) ==
    \/ GetPooled(s) \/ GetWaiting(s) \/ GetRefused(s) \/ Notified(s)
    \/ WaitFailed(s) /\ WaitEnds(s)
    \/ AddQueue(s) \/ Write(s) \/ Receive(s)
    \/ Abandon(s) /\ connState[at[s]] = "closed"
    \/ WriteFails(s) /\ connState[at[s]] = "closed"
    \/ Return(s)

PipelineFairSpec ==
    /\ PipelineSpec
    /\ \A s \in Stream : WF_tvars(Progress(s) /\ Published)
    /\ \A c \in Conn :
        /\ WF_tvars(Dialled(c) /\ Published)
        /\ WF_tvars((DialDiscard(c) \/ DialCommit(c)) /\ PoolSide /\ Published)
        /\ WF_tvars(CloseDoomed(c) /\ PoolSide /\ Published)

-----------------------------------------------------------------------------
(* A caller never gets the response to another caller's query, however     *)
(* late, repeated or reordered responses are: a qid is used once.          *)
OwnAnswer ==
    \A s \in Stream : mailbox[s] \in {None, s} /\ answer[s] \in {None, s}

(* An exhausted connection does not linger: an open connection that has no *)
(* qid left still carries a query.                                         *)
ExhaustedCloses ==
    \A c \in Conn :
        connState[c] = "open" /\ nextQid[c] > MaxQid => Registered(c) # {}

(* pipelineConn never keeps a reservation that nobody will use: a leaked   *)
(* one would make the connection unavailable for good.                     *)
ReservationsBacked == \A c \in Conn : connReserved[c] <= Cardinality(Reservers(c))

(* Close ends every exchange, also of callers whose ctx never ends: those  *)
(* waiting for a dial, for their first write or for a response.            *)
CloseUnblocks ==
    closed ~> \A s \in Stream : phase[s] \in {"answered", "failed"}

-----------------------------------------------------------------------------
(* The comment of ConnStatus.Available: an available connection can take   *)
(* at least one more request.  So who is given one is given a qid.         *)
PickedGetsQid ==
    [][\A s \in Stream : pc[s] = "picked" /\ pc'[s] = "open" => qid'[s] # NoQid]_tvars
=============================================================================
