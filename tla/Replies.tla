------------------------------- MODULE Replies -------------------------------
(***************************************************************************)
(* The last step of every server, src/app/router/server_utils.go and the   *)
(* DoH front ends: a request is judged, the answer of the router is given  *)
(* the header and the OPT record the request calls for, cut to what the    *)
(* client can take, packed, and sent as the transport frames it.           *)
(***************************************************************************)
EXTENDS Messages

CONSTANTS Requests,     \* the messages clients send, with [opt, udpSize] beside
          Fronts,       \* how they reach a server: [proto, http], http the DoH envelope
          Given,        \* records the router answers with: [section, rr]
          OtherQuestions, \* question sections of upstreams' or cached answers
          MaxGiven,     \* bound: the records of one answer
          MaxEdns0Size, \* udpServer.maxEdns0Size and the DoH servers' udpSize
          FrameMax      \* the payload of a two-byte length: 65535 in the code

(* What was read is a message, or its envelope says what is wrong with it. *)
ASSUME RepliesAssumption ==
    /\ MaxEdns0Size \in Nat /\ FrameMax \in Nat
    /\ \A r \in Requests : r.m \in MessageSet /\ r.udpSize \in Nat
    /\ Given \subseteq [section : {"answers", "authorities", "additionals"}, rr : Resources]
    /\ \A g \in Given : Bodied(g.rr)
    /\ OtherQuestions \subseteq Seq(NameSet)
    /\ \A f \in Fronts : /\ f.proto \in {"udp", "tcp", "quic", "http"}
                         /\ f.http.payload \in {"message", "missing", "large", "garbled"}

VARIABLES req, front, resp, \* resp is QueryCtx.resp, or the reply to a refused request
          sent,             \* [w, len, cut, framed] once packed
          status            \* "given", "packed", "dropped", or the HTTP error

replyVars == <<req, front, resp, sent, status>>

EmptyMsg == [hdr |-> [id |-> 0, response |-> FALSE, opcode |-> 0, rd |-> FALSE, ra |-> FALSE,
                      tc |-> FALSE, rcode |-> "success"],
             questions |-> <<>>, answers |-> <<>>, authorities |-> <<>>, additionals |-> <<>>]

NotSent == [w |-> <<>>, len |-> 0, cut |-> FALSE, framed |-> FALSE]

Opt == [name |-> <<>>, type |-> "OPT", body |-> <<>>]

RepliesInit ==
    /\ req \in Requests /\ front \in Fronts
    /\ resp = EmptyMsg /\ sent = NotSent /\ status = "received"

(* parseQuery: a standard query of one question, recursion desired, with no more than one record. *)
ParseQuery(m) ==
    /\ ~m.hdr.response /\ m.hdr.rd /\ m.hdr.opcode = 0
    /\ Len(m.questions) = 1 /\ m.answers = <<>> /\ m.authorities = <<>>
    /\ Len(m.additionals) <= 1

HasEDNS0(m) == OptsAt(m.additionals) # {}

(* PopEDNS0: the last OPT goes, the last additional record takes its place. *)
PopEDNS0(rrs) ==
    IF OptsAt(rrs) = {} THEN rrs ELSE Front([rrs EXCEPT ![LastOpt(rrs)] = Last(rrs)])

(* The response keeps the id it came with. *)
ReplyHeaderKeepingId(hdr) ==
    [hdr EXCEPT !.response = TRUE, !.opcode = req.m.hdr.opcode, !.ra = TRUE, !.rd = req.m.hdr.rd]

(* postProcessResp: the header, then the OPT record. *)
ReplyHeader(hdr) ==
    [hdr EXCEPT !.id = req.m.hdr.id, !.response = TRUE, !.opcode = req.m.hdr.opcode,
                !.ra = TRUE, !.rd = req.m.hdr.rd]
PostProcess(m) ==
    [m EXCEPT !.hdr = ReplyHeader(@),
              !.additionals = IF HasEDNS0(req.m) THEN Append(PopEDNS0(@), Opt) ELSE PopEDNS0(@)]

(* calUdpSize: what the client's OPT offers, within the server's bounds. *)
CalUdpSize ==
    LET offered == IF HasEDNS0(req.m) THEN req.udpSize ELSE 0
        most == IF offered > MaxEdns0Size THEN MaxEdns0Size ELSE offered
    IN  IF most < MinSize THEN MinSize ELSE most

(* serverFinalRespB.  A TCP answer is cut to the frame, its own two bytes   *)
(* included; should OPT push it over, only a SERVFAIL header is sent.       *)
SendPacked(m, tcp, pk) ==
    /\ resp' = m
    /\ sent' = [w |-> pk.w, len |-> pk.len, cut |-> pk.cut, framed |-> tcp]
    /\ status' = IF tcp /\ pk.len > FrameMax THEN "header" ELSE "packed"
FinalResp(m, tcp, size) ==
    SendPacked(m, tcp, Pack(m, TRUE, IF tcp THEN 2 ELSE 0, IF tcp THEN FrameMax ELSE size))

(* ServeHTTP and readReqMsg up to the message: the error of a bad envelope. *)
HttpError(h) ==
    CASE ~h.path -> "404"
      [] h.path /\ h.clientAddr = "bad" -> "400"
      [] h.method \notin {"GET", "POST"} -> "501"
      [] h.mime = "other" -> "400"
      [] h.payload = "missing" -> "400"
      [] h.payload = "large" -> IF h.method = "GET" THEN "414" ELSE "413"
      [] h.payload = "garbled" -> "400"
      [] OTHER -> "none"

HttpRefuses ==
    /\ status = "received" /\ front.proto = "http" /\ HttpError(front.http) # "none"
    /\ status' = HttpError(front.http)
    /\ UNCHANGED <<req, front, resp, sent>>

Arrived == status = "received" /\ (front.proto = "http" => HttpError(front.http) = "none")

(* The servers' handleMsg: a query goes to the router; of what is not one,  *)
(* a UDP server drops it, the others refuse it with its first question.     *)
(* Of its own answers the router copies the question; what an upstream or   *)
(* the cache answers is passed on with whatever question section it has.    *)
Dispatch ==
    /\ Arrived /\ ParseQuery(req.m)
    /\ status' = "given"
    /\ \E qs \in {req.m.questions} \cup OtherQuestions :
         resp' = [EmptyMsg EXCEPT !.questions = qs]
    /\ UNCHANGED <<req, front, sent>>

DropQuery ==
    /\ Arrived /\ ~ParseQuery(req.m) /\ front.proto = "udp"
    /\ status' = "dropped"
    /\ UNCHANGED <<req, front, resp, sent>>

FirstQuestion(m) == IF m.questions = <<>> THEN <<>> ELSE <<m.questions[1]>>

(* makeEmptyRespM, packed as for TCP by the DoH servers too. *)
Refuse ==
    /\ Arrived /\ ~ParseQuery(req.m) /\ front.proto # "udp"
    /\ FinalResp(PostProcess([EmptyMsg EXCEPT !.hdr.rcode = "refused",
                                              !.questions = FirstQuestion(req.m)]), TRUE, 0)
    /\ UNCHANGED <<req, front>>

(* The answer of the router, record by record; forward has taken an OPT out *)
(* of what the upstream sent.                                               *)
Give(g) ==
    /\ status = "given" /\ Len(Records(resp)) < MaxGiven
    /\ g.rr.type = "OPT" => ~HasEDNS0(resp)
    /\ resp' = [resp EXCEPT ![g.section] = Append(@, g.rr)]
    /\ UNCHANGED <<req, front, sent, status>>

Send ==
    /\ status = "given"
    /\ FinalResp(PostProcess(resp), front.proto \in {"tcp", "quic"},
                 IF front.proto = "udp" THEN CalUdpSize ELSE MaxEdns0Size)
    /\ UNCHANGED <<req, front>>

RepliesStep ==
    \/ HttpRefuses \/ Dispatch \/ DropQuery \/ Refuse \/ Send
    \/ \E g \in Given : Give(g)

-----------------------------------------------------------------------------
Names(m) ==
    ToSet(m.questions) \cup {r.name : r \in ToSet(Records(m))}
    \cup UNION {{r.body[i].name : i \in 1..Len(r.body)} : r \in ToSet(Records(m))}

(* The pointers that reading the field at token i follows. *)
Hops(w) ==
    LET Chain[i \in 1..Len(w)] ==
            IF w[i].t = "label" THEN Chain[i + 1]
            ELSE IF w[i].t # "ptr" THEN 0
            ELSE 1 + Chain[CHOOSE k \in TokenAt(w, w[i].v, {"label"}) : TRUE]
    IN  {Chain[i] : i \in 1..Len(w)}

Readable(m, w) == /\ \A n \in Names(m) : NameBytes(n) < NameMax
                  /\ \A n \in Hops(w) : n <= MaxPtr

(* The lengths that size the buffers before packing are exact without      *)
(* compression and never short with it.                                     *)
LengthsHold ==
    status = "packed" => /\ Pack(resp, FALSE, 0, 0).len = MaxPackLen(resp)
                         /\ sent.len <= MaxPackLen(resp)

(* What unpacks must be what was packed: a pointer that is off by a byte,   *)
(* a length patched wrong, a suffix remembered at the wrong place or after  *)
(* it cannot be pointed to garbles a name records later.  A message nothing *)
(* was left out of is read back whole by the code's own Unpack, unless a    *)
(* name in it is of the 255 bytes unpack refuses or its names nest deeper   *)
(* than unpack follows pointers; and the lengths hold.                      *)
MessagesSurvive ==
    status = "packed" =>
        LET plain == Pack(resp, FALSE, 0, 0)
        IN  /\ ~sent.cut => Unpack(sent.w) = IF Readable(resp, sent.w) THEN {resp} ELSE {}
            /\ Unpack(plain.w) = IF Readable(resp, plain.w) THEN {resp} ELSE {}
            /\ LengthsHold

(* A query as a resolver is asked one: one question, and EDNS0 or not.      *)
PlainQuery(m) ==
    /\ ~m.hdr.response /\ m.hdr.rd /\ m.hdr.opcode = 0
    /\ Len(m.questions) = 1 /\ m.answers = <<>> /\ m.authorities = <<>>
    /\ m.additionals = <<>> \/ (Len(m.additionals) = 1 /\ HasEDNS0(m))

(* The client of any transport can match and take its answer: id and opcode *)
(* are its own, an OPT is there only when it sent one, a UDP answer is      *)
(* within the size it offered but for the header of an OPT, which Pack does *)
(* not reserve, and no query, with EDNS0 or without, stays unanswered.  A   *)
(* DoH error is answered with its status and never reaches the router.      *)
RepliesMatchRequests ==
    /\ status = "packed" =>
         /\ sent.w[1].v.hdr.id = req.m.hdr.id /\ sent.w[1].v.hdr.opcode = req.m.hdr.opcode
         /\ Cardinality(OptsAt(resp.additionals)) = (IF HasEDNS0(req.m) THEN 1 ELSE 0)
         /\ front.proto = "udp" =>
              /\ ~sent.framed
              /\ sent.len <= CalUdpSize + IF HasEDNS0(req.m) THEN NameBytes(<<>>) + 10 ELSE 0
    /\ status = "dropped" => front.proto = "udp" /\ ~PlainQuery(req.m)
    /\ front.proto = "http" /\ status \in {"given", "packed"} => front.http.payload = "message"

(* The comment of Msg.Pack: "Upon reach the limit, no rr will be packed and *)
(* the msg will be "Truncated"".  A reply that records were left out of     *)
(* says so, so that the client asks again over TCP.                         *)
CutIsMarked == status = "packed" /\ sent.cut => sent.w[1].v.hdr.tc
=============================================================================
