--------------------------- MODULE ServersProofs ----------------------------
(***************************************************************************)
(* Proofs about RouterServers: the channel of a connection has an entry    *)
(* for each handler that is running, and the servers implement DnsService. *)
(***************************************************************************)
EXTENDS RouterServers, FiniteSetTheorems, SequenceTheorems, TLAPS

Places == {"unseen", "sent", "read", "received", "inside", "resp", "queued", "batched", "done"}

(* The places of a query that has a handler.                               *)
Handled == {"received", "inside", "resp"}

Messages == [buf : Queries \cup {None}, remote : Queries \cup {None}, oob : Queries \cup {None}]

UdpTypeOK ==
    /\ send \in Seq(UdpQueries)
    /\ wms \in [1..BatchSize -> Messages]
    /\ count \in 0..BatchSize

ServersTypeOK ==
    /\ query \in [Queries -> Places]
    /\ slots \in [Conns -> Nat]
    /\ UdpTypeOK

(* The channel of the UDP server holds queries that wait for it, once.     *)
ChannelOK ==
    /\ \A i \in 1..Len(send) : query[send[i]] = "queued"
    /\ \A i, j \in 1..Len(send) : send[i] = send[j] => i = j

(* So does the batch, whose messages go to the client that asked; outside  *)
(* of a batch the loop has no messages.                                    *)
BatchOK ==
    /\ \A i \in 1..count : /\ wms[i].buf \in UdpQueries
                           /\ Target(wms[i]) = wms[i].buf
                           /\ query[wms[i].buf] = "batched"
    /\ \A i, j \in 1..count : wms[i].buf = wms[j].buf => i = j
    /\ writer \in {"stopped", "waiting"} => count = 0
    /\ udp = "down" => writer = "stopped"

(* A query that was answered is done, and was answered once.               *)
AnsweredOnce ==
    \A q \in Queries :
        \/ delivered[q] = <<>>
        \/ delivered[q] = <<q>> /\ query[q] = "done"

ServersInv ==
    /\ ServersTypeOK
    /\ SlotsMatchHandlers
    /\ ChannelOK
    /\ BatchOK
    /\ delivered \in [Queries -> Seq(Queries)]
    /\ AnsweredOnce
-----------------------------------------------------------------------------
(* Slots                                                                   *)

Running(c) == {q \in Of(c) : query[q] \in Handled}

LEMMA RunningFinite == \A c : IsFiniteSet(Running(c)) /\ Running(c) \subseteq Queries
<1>1. \A c : Running(c) \subseteq Queries
  BY StreamAssumption DEF Running, Of
<1> QED
  BY <1>1, HandlerAssumption, FS_Subset

LEMMA SlotLimitNat == SlotLimit \in Nat
<1>1. Cardinality(StreamQueries) \in Nat
  BY StreamAssumption, HandlerAssumption, FS_Subset, FS_CardinalityType
<1> QED
  BY <1>1, StreamAssumption DEF SlotLimit

LEMMA SlotsRead ==
    SlotsMatchHandlers <=>
        /\ ~panicked
        /\ \A c \in Conns : slots[c] = Cardinality(Running(c)) /\ slots[c] <= SlotLimit
BY DEF SlotsMatchHandlers, Running, Handled

(* A step that starts and ends no handler of a connection.                 *)
LEMMA SlotsKept ==
    ASSUME SlotsMatchHandlers,
           UNCHANGED <<slots, panicked, servers>>,
           \A q \in StreamQueries : (query'[q] \in Handled) <=> (query[q] \in Handled)
    PROVE  SlotsMatchHandlers'
<1>1. \A c : Running(c)' = Running(c)
  BY DEF Running, Of
<1>2. SlotLimit' = SlotLimit
  BY DEF SlotLimit, Speaks
<1> QED
  BY <1>1, <1>2, SlotsRead DEF SlotsMatchHandlers, Running, Handled

LEMMA SlotTaken ==
    ASSUME NEW q \in StreamQueries, ServersTypeOK, SlotsMatchHandlers,
           SlotFree(ConnOf[q]), query[q] \notin Handled, StartHandler(q),
           UNCHANGED <<panicked, servers>>
    PROVE  SlotsMatchHandlers'
<1> DEFINE c == ConnOf[q]
<1>1. c \in Conns /\ q \in Queries
  BY StreamAssumption
<1>2. PICK s \in Handled : query' = [query EXCEPT ![q] = s]
  BY DEF StartHandler, Move, Handled
<1>3. slots' = [slots EXCEPT ![c] = @ + 1]
  BY DEF StartHandler
<1>4. Running(c)' = Running(c) \cup {q} /\ q \notin Running(c)
  BY <1>1, <1>2 DEF Running, Of, ServersTypeOK
<1>5. \A d \in Conns \ {c} : Running(d)' = Running(d)
  BY <1>1, <1>2 DEF Running, Of, ServersTypeOK
<1>6. Cardinality(Running(c)') = Cardinality(Running(c)) + 1
  BY <1>4, RunningFinite, FS_AddElement
<1>7. SlotLimit' = SlotLimit
  BY DEF SlotLimit, Speaks
<1>8. slots'[c] <= SlotLimit
  BY <1>1, <1>3, SlotLimitNat DEF SlotFree, ServersTypeOK
<1>9. \A d \in Conns : slots'[d] = Cardinality(Running(d)') /\ slots'[d] <= SlotLimit'
  <2> TAKE d \in Conns
  <2>1. CASE d = c
    BY <2>1, <1>1, <1>3, <1>6, <1>7, <1>8, SlotsRead DEF ServersTypeOK
  <2>2. CASE d # c
    BY <2>2, <1>1, <1>3, <1>5, <1>7, SlotsRead DEF ServersTypeOK
  <2> QED
    BY <2>1, <2>2
<1> QED
  BY <1>9, SlotsRead DEF SlotsMatchHandlers, Running, Handled

LEMMA SlotFreed ==
    ASSUME NEW q \in StreamQueries, ServersTypeOK, SlotsMatchHandlers,
           query[q] = "resp", Move(q, "done"), FreeSlot(ConnOf[q]), UNCHANGED servers
    PROVE  SlotsMatchHandlers'
<1> DEFINE c == ConnOf[q]
<1>1. c \in Conns /\ q \in Queries
  BY StreamAssumption
<1>2. query' = [query EXCEPT ![q] = "done"]
  BY DEF Move
<1>3. Running(c)' = Running(c) \ {q} /\ q \in Running(c)
  BY <1>1, <1>2 DEF Running, Of, ServersTypeOK, Handled
<1>4. \A d \in Conns \ {c} : Running(d)' = Running(d)
  BY <1>1, <1>2 DEF Running, Of, ServersTypeOK
<1>5. Cardinality(Running(c)') = Cardinality(Running(c)) - 1
  BY <1>3, RunningFinite, FS_RemoveElement
<1>6. slots[c] > 0
  BY <1>1, <1>3, RunningFinite, SlotsRead, FS_EmptySet, FS_CardinalityType
<1>7. slots' = [slots EXCEPT ![c] = @ - 1] /\ UNCHANGED panicked
  BY <1>6 DEF FreeSlot
<1>8. SlotLimit' = SlotLimit
  BY DEF SlotLimit, Speaks
<1>9. \A d \in Conns : slots'[d] = Cardinality(Running(d)') /\ slots'[d] <= SlotLimit'
  <2> TAKE d \in Conns
  <2>1. CASE d = c
    BY <2>1, <1>1, <1>5, <1>7, <1>8, SlotLimitNat, SlotsRead DEF ServersTypeOK
  <2>2. CASE d # c
    BY <2>2, <1>1, <1>4, <1>7, <1>8, SlotsRead DEF ServersTypeOK
  <2> QED
    BY <2>1, <2>2
<1> QED
  BY <1>7, <1>9, SlotsRead DEF SlotsMatchHandlers, Running, Handled
-----------------------------------------------------------------------------
(* What a step is for the clients                                          *)

StatusNow == [q \in Queries |-> Status(q)]

ServiceStep == [Service!ServiceNext]_(Service!serviceVars)

(* A query moves on and nothing is sent.                                   *)
LEMMA QueryMoves ==
    ASSUME NEW q \in Queries, NEW s \in Places,
           ServersTypeOK, AnsweredOnce, Move(q, s), UNCHANGED delivered,
           delivered \in [Queries -> Seq(Queries)], query[q] # "done", s \notin {"unseen", "sent"} \/ query[q] \in {"unseen", "sent"}
    PROVE  ServiceStep /\ AnsweredOnce'
<1>1. query' = [query EXCEPT ![q] = s] /\ delivered' = delivered
  BY DEF Move
<1>2. delivered[q] = <<>>
  BY DEF AnsweredOnce
<1>3. AnsweredOnce'
  BY <1>1, <1>2 DEF AnsweredOnce, ServersTypeOK
<1>4. \A p \in Queries \ {q} : Status(p)' = Status(p)
  BY <1>1 DEF Status, ServersTypeOK
<1>5. ServiceStep
  <2>1. CASE s \in {"unseen", "sent"}
    <3>1. Status(q)' = Status(q)
      BY <2>1, <1>1, <1>2 DEF Status, ServersTypeOK
    <3> QED
      BY <3>1, <1>1, <1>4 DEF ServiceStep, Service!serviceVars
  <2>2. CASE s = "done"
    <3>1. Status(q)' = "dropped" /\ Status(q) \in {"unseen", "pending"}
      BY <2>2, <1>1, <1>2 DEF Status, ServersTypeOK
    <3>2. Service!Settle({}, {q})
      BY <3>1, <1>1, <1>4 DEF Service!Settle
    <3> QED
      BY <3>2 DEF ServiceStep, Service!ServiceNext
  <2>3. CASE s \notin {"unseen", "sent", "done"}
    <3>1. Status(q)' = "pending"
      BY <2>3, <1>1, <1>2 DEF Status, ServersTypeOK
    <3>2. CASE query[q] \in {"unseen", "sent"}
      <4>1. Status(q) = "unseen"
        BY <3>2, <1>2 DEF Status
      <4>2. Service!Take(q)
        BY <4>1, <3>1, <1>1, <1>4 DEF Service!Take
      <4> QED
        BY <4>2 DEF ServiceStep, Service!ServiceNext
    <3>3. CASE query[q] \notin {"unseen", "sent"}
      <4>1. Status(q) = "pending"
        BY <3>3, <1>2 DEF Status
      <4> QED
        BY <4>1, <3>1, <1>1, <1>4 DEF ServiceStep, Service!serviceVars
    <3> QED
      BY <3>2, <3>3
  <2> QED
    BY <2>1, <2>2, <2>3
<1> QED
  BY <1>3, <1>5

(* A response is sent, to its client.                                      *)
LEMMA QueryAnswered ==
    ASSUME NEW q \in Queries, ServersTypeOK, AnsweredOnce, Move(q, "done"),
           delivered \in [Queries -> Seq(Queries)],
           delivered' = [delivered EXCEPT ![q] = Append(@, q)],
           query[q] \notin {"unseen", "sent", "done"}
    PROVE  ServiceStep /\ AnsweredOnce' /\ (delivered \in [Queries -> Seq(Queries)])'
<1>1. query' = [query EXCEPT ![q] = "done"]
  BY DEF Move
<1>2. delivered[q] = <<>>
  BY DEF AnsweredOnce
<1>3. delivered'[q] = <<q>>
  BY <1>2
<1>4. AnsweredOnce'
  BY <1>1, <1>3 DEF AnsweredOnce, ServersTypeOK
<1>5. \A p \in Queries \ {q} : Status(p)' = Status(p)
  BY <1>1 DEF Status, ServersTypeOK
<1>6. Status(q) = "pending"
  BY <1>2 DEF Status, ServersTypeOK
<1>7. Status(q)' = "answered"
  BY <1>3 DEF Status
<1>8. Service!Settle({q}, {})
  BY <1>5, <1>6, <1>7 DEF Service!Settle
<1>9. (delivered \in [Queries -> Seq(Queries)])'
  OBVIOUS
<1> QED
  BY <1>4, <1>8, <1>9 DEF ServiceStep, Service!ServiceNext

(* Nothing happens to any query.                                           *)
LEMMA QueriesStay ==
    ASSUME AnsweredOnce, UNCHANGED <<query, delivered>>
    PROVE  ServiceStep /\ AnsweredOnce'
BY DEF AnsweredOnce, ServiceStep, Service!serviceVars, Status
-----------------------------------------------------------------------------
(* What a step is for the UDP server                                       *)

(* One that is not of its loops, and moves a query that neither the        *)
(* channel nor the batch has.                                              *)
LEMMA LoopsKept ==
    ASSUME NEW q \in Queries, NEW s \in Places \ {"queued", "batched"}, ServersTypeOK,
           ChannelOK, BatchOK, Move(q, s), query[q] \notin {"queued", "batched"},
           UNCHANGED <<send, wms, count, writer, udp>>
    PROVE  ChannelOK' /\ BatchOK'
<1>1. query' = [query EXCEPT ![q] = s]
  BY DEF Move
<1>2. ChannelOK'
  BY <1>1 DEF ChannelOK, ServersTypeOK
<1>3. BatchOK'
  BY <1>1 DEF BatchOK, Target, ServersTypeOK
<1> QED
  BY <1>2, <1>3

LEMMA LoopsStay ==
    ASSUME ChannelOK, BatchOK, UNCHANGED <<query, send, wms, count>>,
           writer' = writer \/ writer' \notin {"stopped", "waiting"} \/ count = 0,
           udp' = "down" => udp = "down" /\ (writer' = writer \/ writer' = "stopped")
    PROVE  ChannelOK' /\ BatchOK'
<1>1. ChannelOK'
  BY DEF ChannelOK
<1>2. BatchOK'
  BY DEF BatchOK, Target
<1> QED
  BY <1>1, <1>2

(* A response is queued.                                                   *)
LEMMA QueueKeeps ==
    ASSUME NEW q \in UdpQueries, ServersInv, UdpQueue(q)
    PROVE  send' \in Seq(UdpQueries) /\ ChannelOK' /\ BatchOK'
<1> USE DEF ServersInv
<1>1. q \in Queries /\ query[q] = "resp" /\ query' = [query EXCEPT ![q] = "queued"]
  BY UdpAssumption DEF UdpQueue, Move
<1>2. send' = Append(send, q) /\ send \in Seq(UdpQueries)
  BY DEF UdpQueue, ServersTypeOK, UdpTypeOK
<1>3. /\ send' \in Seq(UdpQueries) /\ Len(send') = Len(send) + 1 /\ Len(send) \in Nat
      /\ \A i \in 1..Len(send) : send'[i] = send[i] /\ send[i] # q
      /\ send'[Len(send) + 1] = q
  BY <1>1, <1>2 DEF ChannelOK
<1>4. ChannelOK'
  <2>1. \A i \in 1..Len(send) : query'[send[i]] = "queued"
    BY <1>1, <1>3, UdpAssumption DEF ChannelOK, ServersTypeOK
  <2>2. query'[q] = "queued"
    BY <1>1 DEF ServersTypeOK
  <2> QED
    BY <1>3, <2>1, <2>2 DEF ChannelOK
<1>5. BatchOK'
  <2>1. UNCHANGED <<wms, count, writer, udp>>
    BY DEF UdpQueue
  <2>2. \A p \in Queries : query[p] = "batched" => query'[p] = "batched"
    BY <1>1 DEF ServersTypeOK
  <2>3. \A i \in 1..count : query'[wms[i].buf] = "batched"
    BY <2>2, UdpAssumption DEF BatchOK
  <2> QED
    BY <2>1, <2>3 DEF BatchOK, Target
<1> QED
  BY <1>3, <1>4, <1>5

(* The first response of the channel is taken.                             *)
LEMMA HeadTaken ==
    ASSUME ServersInv, send # <<>>, send' = Tail(send), NEW s \in Places \ {"queued"},
           query' = [query EXCEPT ![Head(send)] = s]
    PROVE  /\ Head(send) \in UdpQueries /\ Head(send) \in Queries
           /\ query[Head(send)] = "queued"
           /\ send' \in Seq(UdpQueries) /\ ChannelOK'
<1> USE DEF ServersInv, ServersTypeOK, UdpTypeOK
<1> DEFINE q == Head(send)
<1>1. /\ Len(send) \in Nat \ {0} /\ q = send[1]
      /\ send' \in Seq(UdpQueries) /\ Len(send') = Len(send) - 1
      /\ \A i \in 1..Len(send') : send'[i] = send[i + 1]
  OBVIOUS
<1>2. q \in UdpQueries /\ q \in Queries /\ query[q] = "queued"
  BY <1>1, UdpAssumption DEF ChannelOK
<1>3. ChannelOK'
  <2>1. \A i \in 1..Len(send') : send'[i] # q /\ send'[i] \in Queries
                              /\ query[send'[i]] = "queued"
    <3>1. \A i \in 1..Len(send') : i + 1 \in 1..Len(send) /\ i + 1 # 1 /\ 1 \in 1..Len(send)
      BY <1>1
    <3>2. \A i \in 1..Len(send) : send[i] \in Queries
      BY UdpAssumption
    <3> TAKE i \in 1..Len(send')
    <3>3. send'[i] = send[i + 1] /\ send[i + 1] # send[1] /\ query[send[i + 1]] = "queued"
      BY <1>1, <3>1 DEF ChannelOK
    <3> QED
      BY <1>1, <3>1, <3>2, <3>3
  <2>2. \A i, j \in 1..Len(send') : send'[i] = send'[j] => i = j
    BY <1>1 DEF ChannelOK
  <2> QED
    BY <1>2, <2>1, <2>2 DEF ChannelOK
<1> QED
  BY <1>1, <1>2, <1>3

(* It becomes the next message of a batch.                                 *)
LEMMA TakeOpKeeps ==
    ASSUME ServersInv, count < BatchSize, TakeOp(count + 1),
           writer' \notin {"stopped", "waiting"}, writer # "stopped", UNCHANGED udp
    PROVE  UdpTypeOK' /\ BatchOK'
<1> USE DEF ServersInv, ServersTypeOK, UdpTypeOK
<1> DEFINE q == Head(send)
           n == count + 1
<1>1. query' = [query EXCEPT ![q] = "batched"] /\ send # <<>> /\ send' = Tail(send)
  BY DEF TakeOp, Move
<1>2. q \in UdpQueries /\ q \in Queries /\ query[q] = "queued" /\ send' \in Seq(UdpQueries)
  BY <1>1, HeadTaken DEF Places
<1>3. query' = [query EXCEPT ![q] = "batched"] /\ count' = n /\ n \in 1..BatchSize
  BY <1>1, UdpAssumption DEF TakeOp
<1>4. wms' = [wms EXCEPT ![n] = FillMsg(@, q)]
  BY DEF TakeOp
<1>5. ASSUME NEW m \in Messages
      PROVE  /\ FillMsg(m, q) \in Messages
             /\ FillMsg(m, q).buf = q /\ FillMsg(m, q).remote = q /\ FillMsg(m, q).oob = q
  BY <1>2 DEF FillMsg, Messages
<1>6. /\ wms'[n].buf = q /\ wms'[n].remote = q /\ wms'[n].oob = q
      /\ \A i \in 1..count : wms'[i] = wms[i]
      /\ wms' \in [1..BatchSize -> Messages]
  <2>1. \A i \in 1..count : i \in 1..BatchSize /\ i # n
    BY UdpAssumption
  <2>2. wms \in [1..BatchSize -> Messages]
    OBVIOUS
  <2> QED
    BY <2>1, <2>2, <1>3, <1>4, <1>5
<1>7. \A i \in 1..count : wms[i].buf # q /\ wms[i].buf \in Queries
  BY <1>2, UdpAssumption DEF BatchOK
<1>8. UdpTypeOK'
  BY <1>2, <1>3, <1>6
<1>9. BatchOK'
  <2>1. \A i \in 1..n : i = n \/ i \in 1..count
    BY <1>3
  <2>2. \A i \in 1..n : /\ wms'[i].buf \in UdpQueries
                        /\ Target(wms'[i]) = wms'[i].buf
                        /\ query'[wms'[i].buf] = "batched"
    <3> TAKE i \in 1..n
    <3>1. CASE i = n
      BY <3>1, <1>2, <1>3, <1>6 DEF Target
    <3>2. CASE i \in 1..count
      <4>1. wms'[i] = wms[i] /\ wms[i].buf \in UdpQueries /\ Target(wms[i]) = wms[i].buf
        BY <3>2, <1>6 DEF BatchOK
      <4>2. query'[wms[i].buf] = query[wms[i].buf] /\ query[wms[i].buf] = "batched"
        BY <3>2, <1>3, <1>7 DEF BatchOK
      <4> QED
        BY <4>1, <4>2
    <3> QED
      BY <3>1, <3>2, <2>1
  <2>3. \A i, j \in 1..n : wms'[i].buf = wms'[j].buf => i = j
    BY <1>6, <1>7, <2>1 DEF BatchOK
  <2> QED
    BY <1>3, <2>2, <2>3 DEF BatchOK, Target
<1> QED
  BY <1>8, <1>9

(* No message leaves twice in a write.                                     *)
LEMMA FewPositions ==
    /\ SetToSeq({}) = <<>>
    /\ \A x : SetToSeq({x}) = <<x>>
<1>1. SetToSeq({}) = <<>>
  <2>1. Cardinality({}) = 0
    BY FS_EmptySet
  <2>2. <<>> \in [1..0 -> {}] /\ IsInjective(<<>>)
    BY DEF IsInjective
  <2>3. SetToSeq({}) \in [1..0 -> {}]
    BY <2>1, <2>2 DEF SetToSeq
  <2>4. SetToSeq({}) \in Seq({}) /\ Len(SetToSeq({})) = 0
    BY <2>3
  <2> QED
    BY <2>4, EmptySeq
<1>2. ASSUME NEW x
      PROVE  SetToSeq({x}) = <<x>>
  <2>1. Cardinality({x}) = 1
    BY FS_Singleton
  <2>2. <<x>> \in [1..1 -> {x}] /\ IsInjective(<<x>>)
    BY DEF IsInjective
  <2>3. SetToSeq({x}) \in [1..1 -> {x}]
    BY <2>1, <2>2 DEF SetToSeq
  <2> QED
    BY <2>3
<1> QED
  BY <1>1, <1>2

LEMMA SentOnce ==
    ASSUME ServersInv, NEW n \in 0..count, Sent(n), NEW q \in Queries
    PROVE  delivered'[q] = IF q \in {wms[i].buf : i \in 1..n} THEN <<q>> ELSE delivered[q]
<1> USE DEF ServersInv, ServersTypeOK, UdpTypeOK
<1> DEFINE at == {i \in 1..n : wms[i].buf = q}
<1>1. delivered'[q] = delivered[q] \o
        [k \in 1..Len(SetToSeq(at)) |-> Target(wms[SetToSeq(at)[k]])]
  BY DEF Sent
<1>2. 1..n \subseteq 1..count /\ delivered[q] \in Seq(Queries)
  OBVIOUS
<1>3. ASSUME q \notin {wms[i].buf : i \in 1..n}
      PROVE  delivered'[q] = delivered[q]
  <2>1. at = {}
    BY <1>3
  <2>2. Len(SetToSeq(at)) = 0
    <3>1. SetToSeq(at) = <<>>
      BY <2>1, FewPositions
    <3> HIDE DEF at
    <3> QED
      BY <3>1
  <2>3. [k \in 1..0 |-> Target(wms[SetToSeq(at)[k]])] = <<>>
    OBVIOUS
  <2>4. delivered'[q] = delivered[q] \o <<>>
    BY <1>1, <2>2, <2>3
  <2> QED
    BY <1>2, <2>4
<1>4. ASSUME NEW i \in 1..n, q = wms[i].buf
      PROVE  delivered'[q] = <<q>>
  <2>1. at = {i}
    BY <1>2, <1>4 DEF BatchOK
  <2>2. SetToSeq(at) = <<i>>
    BY <2>1, FewPositions
  <2>3. delivered[q] = <<>>
    BY <1>2, <1>4 DEF BatchOK, AnsweredOnce
  <2>4. Target(wms[i]) = q
    BY <1>2, <1>4 DEF BatchOK
  <2>5. Len(<<i>>) = 1 /\ <<i>>[1] = i
    OBVIOUS
  <2>6. [k \in 1..1 |-> Target(wms[<<i>>[k]])] = <<q>>
    BY <2>4, <2>5
  <2>7. delivered'[q] = <<>> \o <<q>>
    BY <1>1, <2>2, <2>3, <2>5, <2>6
  <2> QED
    BY <2>7
<1> QED
  BY <1>3, <1>4

LEMMA BatchWriteKeeps ==
    ASSUME ServersInv, BatchWrite, UNCHANGED slots
    PROVE  /\ ServersTypeOK' /\ ChannelOK' /\ BatchOK' /\ AnsweredOnce'
           /\ (delivered \in [Queries -> Seq(Queries)])'
           /\ ServiceStep
<1> USE DEF ServersInv, ServersTypeOK, UdpTypeOK
<1>1. PICK n \in 0..count : Sent(n)
  BY DEF BatchWrite
<1> DEFINE all == {wms[i].buf : i \in 1..count}
           out == {wms[i].buf : i \in 1..n}
<1>2. 1..n \subseteq 1..count /\ out \subseteq all
  OBVIOUS
<1>3. \A q \in all : q \in UdpQueries /\ q \in Queries /\ query[q] = "batched"
  BY UdpAssumption DEF BatchOK
<1>4. /\ query' \in [Queries -> Places]
      /\ \A q \in Queries : query'[q] = IF q \in all THEN "done" ELSE query[q]
  <2>1. query' = [q \in Queries |-> IF q \in all /\ query[q] = "batched" THEN "done"
                                                                       ELSE query[q]]
    BY DEF BatchWrite
  <2> HIDE DEF all
  <2> QED
    BY <2>1, <1>3 DEF Places
<1>5. \A q \in Queries : delivered'[q] = IF q \in out THEN <<q>> ELSE delivered[q]
  BY <1>1, SentOnce
<1>6. delivered' \in [Queries -> Seq(Queries)]
  <2>1. delivered' = [q \in Queries |-> delivered'[q]]
    BY <1>1 DEF Sent
  <2>2. \A q \in Queries : delivered'[q] \in Seq(Queries)
    <3> TAKE q \in Queries
    <3>1. <<q>> \in Seq(Queries) /\ delivered[q] \in Seq(Queries)
      OBVIOUS
    <3> HIDE DEF out
    <3> QED
      BY <3>1, <1>5
  <2> QED
    BY <2>1, <2>2
<1>7. AnsweredOnce'
  <2> HIDE DEF out, all
  <2> QED
    BY <1>2, <1>4, <1>5 DEF AnsweredOnce
<1>8. UdpTypeOK' /\ UNCHANGED <<send, slots>>
  <2>1. wms' \in [1..BatchSize -> Messages]
    BY DEF BatchWrite, ResetMsg, Blank, Messages
  <2> QED
    BY <2>1, UdpAssumption DEF BatchWrite
<1>9. ChannelOK'
  <2>1. \A i \in 1..Len(send) : send[i] \in Queries /\ send[i] \notin all
    <3> TAKE i \in 1..Len(send)
    <3>1. send[i] \in UdpQueries /\ query[send[i]] = "queued"
      BY DEF ChannelOK
    <3> HIDE DEF all
    <3> QED
      BY <3>1, <1>3, UdpAssumption
  <2> HIDE DEF all
  <2> QED
    BY <2>1, <1>4, <1>8 DEF ChannelOK
<1>10. BatchOK'
  BY DEF BatchOK, BatchWrite
<1>11. Service!Settle(out, all \ out)
  <2> HIDE DEF out, all
  <2>1. \A q \in all : delivered[q] = <<>> /\ Status(q) = "pending"
    BY <1>3 DEF AnsweredOnce, Status
  <2>2. \A q \in Queries :
           Status(q)' = CASE q \in out -> "answered"
                          [] q \in all \ out -> "dropped"
                          [] OTHER -> Status(q)
    <3> TAKE q \in Queries
    <3>1. CASE q \in out
      <4>1. delivered'[q] = <<q>> /\ <<q>> # <<>>
        BY <3>1, <1>5
      <4>2. Status(q)' = "answered"
        BY <4>1 DEF Status
      <4> QED
        BY <4>2, <3>1
    <3>2. CASE q \in all \ out
      <4>1. delivered'[q] = <<>> /\ query'[q] = "done"
        BY <3>2, <1>4, <1>5, <2>1
      <4> QED
        BY <4>1, <3>2 DEF Status
    <3>3. CASE q \notin all
      BY <3>3, <1>2, <1>4, <1>5 DEF Status
    <3> QED
      BY <3>1, <3>2, <3>3
  <2>3. delivered' = [q \in Queries |-> IF q \in out THEN Append(delivered[q], q)
                                                    ELSE delivered[q]]
    <3>1. \A q \in out : Append(delivered[q], q) = <<q>>
      <4>1. \A q \in out : delivered[q] = <<>>
        BY <2>1, <1>2
      <4>2. \A q : Append(<<>>, q) = <<q>>
        OBVIOUS
      <4> QED
        BY <4>1, <4>2
    <3> QED
      BY <3>1, <1>5, <1>6
  <2> QED
    BY <2>1, <2>2, <2>3, <1>2, <1>3 DEF Service!Settle
<1>12. out \in SUBSET Queries /\ all \ out \in SUBSET Queries
  <2> HIDE DEF out, all
  <2> QED
    BY <1>2, <1>3
<1> QED
  BY <1>4, <1>6, <1>7, <1>8, <1>9, <1>10, <1>11, <1>12 DEF ServiceStep, Service!ServiceNext

-----------------------------------------------------------------------------
(* Every step keeps the invariant and is one of the service.               *)

Kept == ServersInv' /\ ServiceStep

(* Nothing happens to queries, to the loops' messages or to slots.         *)
LEMMA StayKeeps ==
    ASSUME ServersInv, UNCHANGED <<query, delivered, servers, send, wms, count, slots, panicked>>,
           writer' = writer \/ writer' \notin {"stopped", "waiting"} \/ count = 0,
           udp' = "down" => udp = "down" /\ (writer' = writer \/ writer' = "stopped")
    PROVE  Kept
<1> USE DEF ServersInv
<1>1. ServersTypeOK' /\ (delivered \in [Queries -> Seq(Queries)])'
  BY DEF ServersTypeOK, UdpTypeOK
<1>2. SlotsMatchHandlers'
  BY SlotsKept
<1> QED
  BY <1>1, <1>2, LoopsStay, QueriesStay DEF Kept

(* A query moves, and nothing else changes that the invariant is about.    *)
LEMMA MoveKeeps ==
    ASSUME ServersInv, NEW q \in Queries, NEW s \in Places \ {"queued", "batched"}, Move(q, s),
           UNCHANGED <<delivered, servers, send, wms, count, writer, udp, slots, panicked>>,
           query[q] \notin {"queued", "batched", "done"},
           s \notin {"unseen", "sent"} \/ query[q] \in {"unseen", "sent"},
           q \in StreamQueries => (s \in Handled <=> query[q] \in Handled)
    PROVE  Kept
<1> USE DEF ServersInv
<1>1. ServersTypeOK' /\ (delivered \in [Queries -> Seq(Queries)])'
  BY DEF ServersTypeOK, UdpTypeOK, Move
<1>2. SlotsMatchHandlers'
  <2>1. \A p \in StreamQueries : (query'[p] \in Handled) <=> (query[p] \in Handled)
    BY StreamAssumption DEF Move, ServersTypeOK
  <2> QED
    BY <2>1, SlotsKept
<1> QED
  BY <1>1, <1>2, LoopsKept, QueryMoves DEF Kept

LEMMA HandlerKeeps ==
    ASSUME ServersInv, NEW q \in Queries, HandlerStep(q), UNCHANGED <<udpVars, streamVars>>
    PROVE  Kept
<1>1. PICK s \in {"inside", "resp"} : Move(q, s)
  BY DEF HandlerStep, RateReject, LimitReject, LimitEnter, HandlerReturn
<1>2. query[q] \in {"received", "inside"} /\ UNCHANGED <<servers, delivered>>
  BY DEF HandlerStep, RateReject, LimitReject, LimitEnter, HandlerReturn
<1> QED
  BY <1>1, <1>2, MoveKeeps DEF udpVars, streamVars, Places, Handled

LEMMA UdpKeeps ==
    ASSUME ServersInv, UdpStep, UNCHANGED streamVars
    PROVE  Kept
<1>1. UNCHANGED <<servers, slots, panicked>>
  BY DEF UdpStep, UdpReceive, UdpIgnore, UdpQueue, UdpGiveUp, WriterStep, BatchBegin, BatchMore,
     BatchTimer, BatchWrite, WriteOne, WriterStops, ReaderStops, UdpMainCloses, handlerVars,
     streamVars
<1>2. ASSUME NEW q \in UdpQueries, UdpReceive(q) \/ UdpIgnore(q) \/ UdpGiveUp(q)
      PROVE  Kept
  <2>1. q \in Queries /\ q \notin StreamQueries
    BY UdpAssumption, ServersAssumption
  <2>2. PICK s \in {"received", "done"} : Move(q, s)
    BY <1>2 DEF UdpReceive, UdpIgnore, UdpGiveUp
  <2>3. query[q] \in {"unseen", "resp"} /\ UNCHANGED <<delivered, udpVars>>
    BY <1>2 DEF UdpReceive, UdpIgnore, UdpGiveUp, MaySend
  <2> QED
    BY <1>1, <2>1, <2>2, <2>3, MoveKeeps DEF udpVars, Places
<1>3. ASSUME NEW q \in UdpQueries, UdpQueue(q)
      PROVE  Kept
  <2>1. q \in Queries /\ q \notin StreamQueries
    BY UdpAssumption, ServersAssumption
  <2>2. /\ Move(q, "queued") /\ query[q] = "resp"
        /\ UNCHANGED <<delivered, servers, wms, count, slots, panicked>>
    BY <1>1, <1>3 DEF UdpQueue
  <2>3. ServersTypeOK'
    BY <1>3, <2>2, QueueKeeps DEF ServersInv, ServersTypeOK, UdpTypeOK, Move, Places
  <2>4. SlotsMatchHandlers'
    <3>1. \A p \in StreamQueries : query'[p] = query[p]
      BY <2>1, <2>2, StreamAssumption DEF Move, ServersInv, ServersTypeOK
    <3> QED
      BY <3>1, <2>2, SlotsKept DEF ServersInv
  <2>5. ServiceStep /\ AnsweredOnce'
    BY <2>1, <2>2, QueryMoves DEF ServersInv, Places
  <2> QED
    BY <1>3, <2>2, <2>3, <2>4, <2>5, QueueKeeps DEF ServersInv, Kept
<1>4. ASSUME BatchBegin \/ BatchMore
      PROVE  Kept
  <2>1. /\ count < BatchSize /\ TakeOp(count + 1)
        /\ writer' \notin {"stopped", "waiting"} /\ writer # "stopped"
        /\ UNCHANGED <<udp, delivered>>
    <3>1. CASE BatchBegin
      <4>1. count = 0
        BY <3>1 DEF BatchBegin, ServersInv, BatchOK
      <4>2. TakeOp(1) /\ writer = "waiting" /\ writer' \in {"collecting", "writing"}
            /\ UNCHANGED <<udp, delivered>>
        BY <3>1 DEF BatchBegin
      <4> QED
        BY <4>1, <4>2, UdpAssumption
    <3>2. CASE BatchMore
      BY <3>2 DEF BatchMore
    <3> QED
      BY <1>4, <3>1, <3>2
  <2>2. /\ Head(send) \in UdpQueries /\ Head(send) \in Queries
        /\ query[Head(send)] = "queued" /\ ChannelOK'
    BY <2>1, HeadTaken DEF TakeOp, Move, Places
  <2>3. UdpTypeOK' /\ BatchOK'
    BY <2>1, TakeOpKeeps
  <2>4. Move(Head(send), "batched")
    BY <2>1 DEF TakeOp
  <2>5. ServersTypeOK'
    BY <1>1, <2>3, <2>4 DEF ServersInv, ServersTypeOK, Move, Places
  <2>6. SlotsMatchHandlers'
    <3>1. \A p \in StreamQueries : query'[p] = query[p]
      BY <2>2, <2>4, StreamAssumption, ServersAssumption DEF Move, ServersInv, ServersTypeOK
    <3> QED
      BY <1>1, <3>1, SlotsKept DEF ServersInv
  <2>7. ServiceStep /\ AnsweredOnce'
    BY <2>1, <2>2, <2>4, QueryMoves DEF ServersInv, Places
  <2> QED
    BY <2>1, <2>2, <2>3, <2>5, <2>6, <2>7 DEF ServersInv, Kept
<1>5. ASSUME BatchWrite
      PROVE  Kept
  <2>1. \A p \in StreamQueries : query'[p] = query[p]
    <3>1. \A p \in Queries : query'[p] # query[p] => \E i \in 1..count : wms[i].buf = p
      BY <1>5 DEF BatchWrite, ServersInv, ServersTypeOK
    <3>2. \A i \in 1..count : wms[i].buf \in UdpQueries
      BY DEF ServersInv, BatchOK
    <3> QED
      BY <3>1, <3>2, StreamAssumption, ServersAssumption
  <2>2. SlotsMatchHandlers'
    BY <1>1, <2>1, SlotsKept DEF ServersInv
  <2> QED
    BY <1>1, <1>5, <2>2, BatchWriteKeeps DEF ServersInv, Kept
<1>6. ASSUME WriteOne
      PROVE  Kept
  <2> DEFINE q == Head(send)
  <2>1. /\ send # <<>> /\ send' = Tail(send) /\ Move(q, "done")
        /\ UNCHANGED <<wms, count, writer, udp>>
    BY <1>6 DEF WriteOne
  <2>2. /\ q \in UdpQueries /\ q \in Queries /\ query[q] = "queued"
        /\ send' \in Seq(UdpQueries) /\ ChannelOK'
    BY <2>1, HeadTaken DEF Move, Places
  <2>3. ServersTypeOK' /\ BatchOK'
    <3>1. ServersTypeOK'
      BY <1>1, <2>1, <2>2 DEF ServersInv, ServersTypeOK, UdpTypeOK, Move, Places
    <3>2. \A p \in Queries : query[p] = "batched" => query'[p] = "batched"
      BY <2>1, <2>2 DEF Move, ServersInv, ServersTypeOK
    <3>3. BatchOK'
      BY <2>1, <3>2, UdpAssumption DEF ServersInv, BatchOK, Target
    <3> QED
      BY <3>1, <3>3
  <2>4. SlotsMatchHandlers'
    <3>1. \A p \in StreamQueries : query'[p] = query[p]
      BY <2>1, <2>2, StreamAssumption, ServersAssumption DEF Move, ServersInv, ServersTypeOK
    <3> QED
      BY <1>1, <3>1, SlotsKept DEF ServersInv
  <2>5. ServiceStep /\ AnsweredOnce' /\ (delivered \in [Queries -> Seq(Queries)])'
    <3>1. CASE UNCHANGED delivered
      BY <2>1, <2>2, <3>1, QueryMoves DEF ServersInv, Places
    <3>2. CASE delivered' = [delivered EXCEPT ![q] = Append(@, q)]
      BY <2>1, <2>2, <3>2, QueryAnswered DEF ServersInv
    <3> QED
      BY <1>6, <3>1, <3>2 DEF WriteOne
  <2> QED
    BY <2>2, <2>3, <2>4, <2>5 DEF ServersInv, Kept
<1>7. ASSUME BatchTimer \/ WriterStops \/ ReaderStops \/ UdpMainCloses
      PROVE  Kept
  <2>1. UNCHANGED <<query, delivered, send, wms, count>>
    BY <1>7 DEF BatchTimer, WriterStops, ReaderStops, UdpMainCloses, handlerVars
  <2>2. writer' = writer \/ writer' = "writing" \/ count = 0
    BY <1>7 DEF BatchTimer, WriterStops, ReaderStops, UdpMainCloses, ServersInv, BatchOK
  <2>3. udp' = "down" => udp = "down" /\ (writer' = writer \/ writer' = "stopped")
    BY <1>7 DEF BatchTimer, WriterStops, ReaderStops, UdpMainCloses, CloseUdp, ServersInv, BatchOK
  <2> QED
    BY <1>1, <2>1, <2>2, <2>3, StayKeeps
<1> QED
  BY <1>2, <1>3, <1>4, <1>5, <1>6, <1>7 DEF UdpStep, WriterStep

LEMMA StreamKeeps ==
    ASSUME ServersInv, StreamStep, UNCHANGED udpVars
    PROVE  Kept
<1>1. UNCHANGED <<servers, send, wms, count, writer, udp>>
  BY DEF StreamStep, udpVars, handlerVars, AcceptFails, Accept, TrackConn, RefuseConn,
     ClientLeaves, ConnEnds, ForgetConn, ShutConn, ClientSends, ReadQuery, TakeSlot,
     ReadAndHandle, StreamFails, Respond
<1>2. ASSUME NEW q \in StreamQueries, ClientSends(q) \/ ReadQuery(q) \/ StreamFails(q)
      PROVE  Kept
  <2>1. q \in Queries
    BY StreamAssumption
  <2>2. UNCHANGED <<delivered, slots, panicked>>
    BY <1>2 DEF ClientSends, ReadQuery, StreamFails, streamVars
  <2>3. CASE ClientSends(q)
    BY <1>1, <2>1, <2>2, <2>3, MoveKeeps DEF ClientSends, MaySend, Places, Handled
  <2>4. CASE ReadQuery(q)
    BY <1>1, <2>1, <2>2, <2>4, MoveKeeps DEF ReadQuery, Places, Handled
  <2>5. CASE StreamFails(q)
    BY <1>1, <2>1, <2>2, <2>5, MoveKeeps DEF StreamFails, Places, Handled
  <2> QED
    BY <1>2, <2>3, <2>4, <2>5
<1>3. ASSUME NEW q \in StreamQueries, TakeSlot(q) \/ ReadAndHandle(q)
      PROVE  Kept
  <2>1. /\ q \in Queries /\ query[q] \in {"sent", "read"} /\ StartHandler(q)
        /\ SlotFree(ConnOf[q]) /\ UNCHANGED <<delivered, panicked>>
    BY <1>3, StreamAssumption DEF TakeSlot, ReadAndHandle
  <2>2. PICK s \in {"received", "resp"} : Move(q, s)
    BY <2>1 DEF StartHandler
  <2>3. ServersTypeOK'
    <3>1. slots' \in [Conns -> Nat]
      BY <2>1, StreamAssumption DEF StartHandler, ServersInv, ServersTypeOK
    <3> QED
      BY <1>1, <2>2, <3>1 DEF ServersInv, ServersTypeOK, UdpTypeOK, Move, Places
  <2>4. SlotsMatchHandlers'
    BY <1>1, <2>1, SlotTaken DEF ServersInv, Handled
  <2>5. ChannelOK' /\ BatchOK'
    BY <1>1, <2>1, <2>2, LoopsKept DEF ServersInv, Places
  <2>6. ServiceStep /\ AnsweredOnce'
    BY <2>1, <2>2, QueryMoves DEF ServersInv, Places
  <2> QED
    BY <2>1, <2>3, <2>4, <2>5, <2>6 DEF ServersInv, Kept
<1>4. ASSUME NEW q \in StreamQueries, Respond(q)
      PROVE  Kept
  <2>1. /\ q \in Queries /\ query[q] = "resp" /\ Move(q, "done") /\ FreeSlot(ConnOf[q])
    BY <1>4, StreamAssumption DEF Respond
  <2>2. ServersTypeOK'
    <3>1. slots' \in [Conns -> Nat]
      <4>1. slots \in [Conns -> Nat] /\ slots[ConnOf[q]] \in Nat
        BY StreamAssumption DEF ServersInv, ServersTypeOK
      <4>2. slots' = slots \/ (slots[ConnOf[q]] > 0
                              /\ slots' = [slots EXCEPT ![ConnOf[q]] = @ - 1])
        BY <2>1 DEF FreeSlot
      <4>3. slots[ConnOf[q]] > 0 => slots[ConnOf[q]] - 1 \in Nat
        BY <4>1
      <4> QED
        BY <4>1, <4>2, <4>3
    <3> QED
      BY <1>1, <2>1, <3>1 DEF ServersInv, ServersTypeOK, UdpTypeOK, Move, Places
  <2>3. SlotsMatchHandlers'
    BY <1>1, <2>1, SlotFreed DEF ServersInv
  <2>4. ChannelOK' /\ BatchOK'
    BY <1>1, <2>1, LoopsKept DEF ServersInv, Places
  <2>5. ServiceStep /\ AnsweredOnce' /\ (delivered \in [Queries -> Seq(Queries)])'
    <3>1. CASE UNCHANGED delivered
      BY <2>1, <3>1, QueryMoves DEF ServersInv, Places
    <3>2. CASE delivered' = [delivered EXCEPT ![q] = Append(@, q)]
      BY <2>1, <3>2, QueryAnswered DEF ServersInv
    <3> QED
      BY <1>4, <3>1, <3>2 DEF Respond
  <2> QED
    BY <2>2, <2>3, <2>4, <2>5 DEF ServersInv, Kept
<1>5. ASSUME \/ AcceptFails
             \/ \E c \in Conns : \/ Accept(c) \/ TrackConn(c) \/ RefuseConn(c)
                                 \/ ClientLeaves(c) \/ ConnEnds(c) \/ ForgetConn(c)
                                 \/ ShutConn(c)
      PROVE  Kept
  <2>1. UNCHANGED <<query, delivered, slots, panicked>>
    BY <1>5 DEF AcceptFails, Accept, TrackConn, RefuseConn, ClientLeaves, ConnEnds, ForgetConn,
       ShutConn, handlerVars
  <2> QED
    BY <1>1, <2>1, StayKeeps
<1> QED
  BY <1>2, <1>3, <1>4, <1>5 DEF StreamStep

LEMMA RouterKeeps ==
    ASSUME ServersInv, RouterStep
    PROVE  Kept
<1>1. UNCHANGED <<query, delivered, servers, send, wms, count, slots, panicked>>
  BY DEF RouterStep, RunStarts, StartUdp, StartStream, RunNotesCloser, RunFails,
     CloseAfterFailedRun, CloseOnSignal, CloseNextServer, CloseEnds, UdpReturns, StreamReturns,
     handlerVars, udpVars, streamVars
<1>2. \/ UNCHANGED <<writer, udp>>
      \/ UNCHANGED writer /\ udp' = "closed"
      \/ StartUdp
  BY DEF RouterStep, RunStarts, RunNotesCloser, RunFails, CloseAfterFailedRun, CloseOnSignal,
     CloseNextServer, CloseUdp, CloseEnds, UdpReturns, StreamReturns, udpVars
<1>3. CASE StartUdp
  BY <1>1, <1>3, StayKeeps DEF StartUdp, ServersInv, BatchOK
<1>4. CASE UNCHANGED <<writer, udp>> \/ (UNCHANGED writer /\ udp' = "closed")
  BY <1>1, <1>4, StayKeeps
<1> QED
  BY <1>2, <1>3, <1>4

LEMMA ServersStepKeeps == ServersInv /\ [ServersNext]_serverVars => Kept
<1> SUFFICES ASSUME ServersInv, [ServersNext]_serverVars PROVE Kept
  OBVIOUS
<1>1. CASE ServersNext
  BY <1>1, HandlerKeeps, UdpKeeps, StreamKeeps, RouterKeeps DEF ServersNext
<1>2. CASE UNCHANGED serverVars
  BY <1>2, StayKeeps DEF serverVars, handlerVars, udpVars, streamVars
<1> QED
  BY <1>1, <1>2

LEMMA ServersInitInv == RouterInit => ServersInv /\ Service!ServiceInit
<1> SUFFICES ASSUME RouterInit PROVE ServersInv /\ Service!ServiceInit
  OBVIOUS
<1> USE DEF RouterInit, HandlerInit, UdpInit, StreamInit
<1>1. ServersTypeOK
  BY UdpAssumption DEF ServersTypeOK, UdpTypeOK, Places, Blank, Messages
<1>2. SlotsMatchHandlers
  <2>1. \A c : Running(c) = {}
    BY StreamAssumption DEF Running, Of, Handled
  <2>2. \A c \in Conns : slots[c] = 0 /\ Cardinality(Running(c)) = 0
    BY <2>1, FS_EmptySet
  <2>3. ~panicked /\ 0 <= SlotLimit
    BY SlotLimitNat
  <2> QED
    BY <2>2, <2>3, SlotsRead
<1>3. ChannelOK /\ BatchOK
  BY DEF ChannelOK, BatchOK
<1>4. delivered \in [Queries -> Seq(Queries)] /\ AnsweredOnce
  BY DEF AnsweredOnce
<1>5. Service!ServiceInit
  BY DEF Service!ServiceInit, Status
<1> QED
  BY <1>1, <1>2, <1>3, <1>4, <1>5 DEF ServersInv

(* The invariant of the servers: the slots, the UDP channel and batch, and *)
(* what was delivered.                                                     *)
THEOREM ServersInvariant == ServersSpec => []ServersInv
<1>1. ServersInv /\ [ServersNext]_serverVars => ServersInv'
  BY ServersStepKeeps DEF Kept
<1> QED
  BY <1>1, ServersInitInv, PTL DEF ServersSpec

(* Each entry of the channel of a connection is a handler that runs, and   *)
(* the handlers of a connection are never more than allowed, in whatever   *)
(* order the connection, its handlers and the server end (server_tcp.go,   *)
(* handleConn).                                                            *)
THEOREM ServersSlots == ServersSpec => []SlotsMatchHandlers
<1>1. ServersInv => SlotsMatchHandlers
  BY DEF ServersInv
<1> QED
  BY <1>1, ServersInvariant, PTL

(* The servers implement DnsService: each step of a loop, a handler, a     *)
(* connection or the router takes a query, settles some, or is not seen by *)
(* clients (server_udp.go, server_tcp.go, server_quic.go).                 *)
THEOREM ServersImplementService == ServersSpec => ImplementsService
<1>1. ServersInv /\ [ServersNext]_serverVars => [Service!ServiceNext]_(Service!serviceVars)
  BY ServersStepKeeps DEF Kept, ServiceStep
<1> QED
  BY <1>1, ServersInitInv, ServersInvariant, PTL
     DEF ServersSpec, ImplementsService, Service!ServiceSpec
=============================================================================
