------------------------------ MODULE Messages ------------------------------
(***************************************************************************)
(* src/pkg/dnsmsg: a DNS message packed into bytes, with name compression  *)
(* and a size limit, and unpacked again.                                   *)
(*                                                                         *)
(* Wire data is a sequence of tokens that know their size: what decides    *)
(* lengths, offsets and pointers is kept, what the bytes say is not.  A    *)
(* label is a model value of LabelSize bytes, its length byte included; a  *)
(* name the sequence of its labels; fixed-size fields are one token.  A    *)
(* record is [name, type, body], its body a sequence of names and of       *)
(* fixed-size parts, in the order of its Go type's packBody.               *)
(***************************************************************************)
EXTENDS Integers, Sequences, SequencesExt, FiniteSets

CONSTANTS LabelSize, \* label |-> the bytes it takes
          MaxPtr,    \* the pointers unpack follows in one name: 10 in the code
          MaxOffset, \* the offsets a pointer can hold: 14 bits in the code
          NameMax,   \* the bytes of the longest name: 255 in the code
          MinSize    \* the smallest size limit: 512 in the code

Labels == DOMAIN LabelSize

(* A label takes a byte at least, a message its header of 12 at least; the  *)
(* root's name is within the limit.                                         *)
ASSUME MessagesAssumption ==
    /\ LabelSize \in [Labels -> Nat \ {0}]
    /\ MaxPtr \in Nat /\ MaxOffset \in Nat /\ NameMax \in Nat /\ NameMax > 1
    /\ MinSize \in Nat /\ MinSize >= 12

SumOf(s) == LET Upto[i \in 0..Len(s)] == IF i = 0 THEN 0 ELSE Upto[i - 1] + s[i] IN Upto[Len(s)]
NameBytes(name) == SumOf([i \in 1..Len(name) |-> LabelSize[name[i]]]) + 1

NamePart(nm) == [name |-> nm, size |-> 0]
FixPart(n) == [name |-> <<>>, size |-> n]

(* The parts of a body, 0 for a name: RawResource is read by the header's length. *)
Layout(type, length) ==
    CASE type = "A" -> <<4>>
      [] type = "AAAA" -> <<16>>
      [] type = "NAME" -> <<0>>
      [] type = "SOA" -> <<0, 0, 20>>
      [] type = "MX" -> <<2, 0>>
      [] type = "SRV" -> <<6, 0>>
      [] OTHER -> IF length = 0 THEN <<>> ELSE <<length>>

(* A body has the parts its type reads. *)
Bodied(r) ==
    LET sizes == [i \in 1..Len(r.body) |-> r.body[i].size]
    IN  /\ sizes = Layout(r.type, SumOf(sizes))
        /\ \A i \in 1..Len(r.body) : r.body[i].size > 0 => r.body[i].name = <<>>

(* NAME stands for CNAME, NS and PTR, TXT for every type read as raw bytes. *)
RRTypes == {"A", "AAAA", "NAME", "SOA", "MX", "SRV", "OPT", "TXT"}
RCodes == {"success", "formerr", "servfail", "nxdomain", "notimp", "refused"}

NameSet == Seq(Labels)
Resources == [name : NameSet, type : RRTypes, body : Seq([name : NameSet, size : Nat])]
Headers == [id : Nat, response : BOOLEAN, opcode : 0..15, rd : BOOLEAN, ra : BOOLEAN, tc : BOOLEAN,
            rcode : RCodes]
MessageSet == [hdr : Headers, questions : Seq(NameSet), answers : Seq(Resources),
               authorities : Seq(Resources), additionals : Seq(Resources)]

Records(m) == m.answers \o m.authorities \o m.additionals

(* Where the OPT records are; the search for one starts at the end. *)
OptsAt(rrs) == {k \in 1..Len(rrs) : rrs[k].type = "OPT"}
LastOpt(rrs) == CHOOSE k \in OptsAt(rrs) : \A j \in OptsAt(rrs) : j <= k

-----------------------------------------------------------------------------
(* Packing.  pk is [w, len, ptrs, cut]: the tokens, their bytes, the map of *)
(* compressed suffixes, whether a record was left out.  A token is at the   *)
(* offset its bytes start at.                                               *)
Emit(pk, kind, value, bytes) ==
    [pk EXCEPT !.w = Append(@, [t |-> kind, v |-> value, size |-> bytes, at |-> pk.len]),
               !.len = @ + bytes]

Suffix(name, i) == SubSeq(name, i, Len(name))
Hit(ptrs, name) == {i \in 1..Len(name) : Suffix(name, i) \in DOMAIN ptrs}
FirstHit(ptrs, name) ==
    IF Hit(ptrs, name) = {} THEN Len(name) + 1
    ELSE CHOOSE i \in Hit(ptrs, name) : \A j \in Hit(ptrs, name) : i <= j
BytesBefore(name, i) == SumOf([k \in 1..(i - 1) |-> LabelSize[name[k]]])

(* Name.packLen; without compression ptrs is empty. *)
NameLen(ptrs, name) ==
    LET i == FirstHit(ptrs, name)
    IN  BytesBefore(name, i) + IF i <= Len(name) THEN 2 ELSE 1

(* Offsets counted from the start of a buffer whose first two bytes hold a length. *)
StartInBuffer(pk, name, k) == pk.len + 2 + BytesBefore(name, k)

(* Where label k of a name packed next starts in the message. *)
Start(pk, name, k) == pk.len + BytesBefore(name, k)

(* The suffixes remembered after the first i - 1 labels of a name. *)
Remember(pk, name, i) ==
    LET new == {k \in 1..(i - 1) : Start(pk, name, k) <= MaxOffset}
        At == [s \in {Suffix(name, k) : k \in new} |-> Start(pk, name, Len(name) - Len(s) + 1)]
    IN  [s \in DOMAIN At \cup DOMAIN pk.ptrs |-> IF s \in DOMAIN At THEN At[s] ELSE pk.ptrs[s]]

EmitLabels(pk, labels) ==
    LET Upto[k \in 0..Len(labels)] ==
            IF k = 0 THEN pk
            ELSE Emit(Upto[k - 1], "label", labels[k], LabelSize[labels[k]])
    IN  Upto[Len(labels)]

PackUpTo(pk, name, i, ptrs) ==
    LET labelled == [EmitLabels(pk, SubSeq(name, 1, i - 1)) EXCEPT !.ptrs = ptrs]
    IN  IF i > Len(name) THEN Emit(labelled, "end", 0, 1)
        ELSE Emit(labelled, "ptr", pk.ptrs[Suffix(name, i)], 2)

(* Name.pack: labels up to a suffix packed before, then a pointer to it; the *)
(* suffixes packed here are remembered at their offset in the message.       *)
PackName(pk, name, compress) ==
    IF ~compress THEN PackUpTo(pk, name, Len(name) + 1, pk.ptrs)
    ELSE PackUpTo(pk, name, FirstHit(pk.ptrs, name), Remember(pk, name, FirstHit(pk.ptrs, name)))

PackPart(pk, part, compress) ==
    IF part.size > 0 THEN Emit(pk, "fix", part.size, part.size)
    ELSE PackName(pk, part.name, compress)

(* packBodyLen: SRV measures its target as if it were not compressed. *)
BodyLen(ptrs, r) ==
    SumOf([i \in 1..Len(r.body) |->
             IF r.body[i].size > 0 THEN r.body[i].size
             ELSE NameLen(IF r.type = "SRV" THEN <<>> ELSE ptrs, r.body[i].name)])

(* packRRLen and Question.packLen. *)
RRLen(ptrs, r) == NameLen(ptrs, r.name) + 10 + BodyLen(ptrs, r)
QuestionLen(ptrs, q) == NameLen(ptrs, q) + 4

PackQuestion(pk, q, compress) ==
    Emit(PackName(pk, q, compress), "qtype", 0, 4)

PackHeader(pk, r, compress) == Emit(PackName(pk, r.name, compress), "rr", <<r.type, 0>>, 10)

(* The length of the body is written once the body is packed. *)
PatchLength(pk, before, type) == [pk EXCEPT !.w[Len(before.w)].v = <<type, pk.len - before.len>>]

PackParts(pk, parts, compress) ==
    LET Upto[k \in 0..Len(parts)] ==
            IF k = 0 THEN pk ELSE PackPart(Upto[k - 1], parts[k], compress)
    IN  Upto[Len(parts)]

PackBody(headed, r, compress) == PatchLength(PackParts(headed, r.body, compress), headed, r.type)

(* packRR. *)
PackRR(pk, r, compress) == PackBody(PackHeader(pk, r, compress), r, compress)

(* MaxPackLen. *)
MaxPackLen(m) ==
    12 + SumOf([i \in 1..Len(m.questions) |-> QuestionLen(<<>>, m.questions[i])])
       + SumOf([i \in 1..Len(Records(m)) |-> RRLen(<<>>, Records(m)[i])])

Counts(m) == <<Len(m.questions), Len(m.answers), Len(m.authorities), Len(m.additionals)>>

Over(pk, bytes, limit) == limit > 0 /\ pk.len + bytes > limit

TakeQuestion(pk, q, compress, limit) ==
    IF Over(pk, QuestionLen(pk.ptrs, q), limit) THEN [pk EXCEPT !.cut = TRUE]
    ELSE PackQuestion(pk, q, compress)

TakeRR(pk, r, compress, limit) ==
    IF Over(pk, RRLen(pk.ptrs, r), limit) THEN [pk EXCEPT !.cut = TRUE]
    ELSE PackRR(pk, r, compress)

TakeQuestions(pk, qs, compress, limit) ==
    LET Upto[k \in 0..Len(qs)] ==
            IF k = 0 THEN pk ELSE TakeQuestion(Upto[k - 1], qs[k], compress, limit)
    IN  Upto[Len(qs)]

(* packRRs: the records of a section, the OPT records skipped or not. *)
TakeRRs(pk, rrs, skip, compress, limit) ==
    LET Upto[k \in 0..Len(rrs)] ==
            IF k = 0 THEN pk
            ELSE IF skip /\ rrs[k].type = "OPT" THEN Upto[k - 1]
            ELSE TakeRR(Upto[k - 1], rrs[k], compress, limit)
    IN  Upto[Len(rrs)]

TakeAll(pk, m, skip, compress, limit) ==
    LET asked == TakeQuestions(pk, m.questions, compress, limit)
        answered == TakeRRs(asked, m.answers, FALSE, compress, limit)
        authorised == TakeRRs(answered, m.authorities, FALSE, compress, limit)
    IN  TakeRRs(authorised, m.additionals, skip, compress, limit)

(* Msg.Pack behind prefix bytes of a buffer: the counts and the flags of    *)
(* the header are those of m before packing; a record that would exceed the *)
(* limit is passed over, a later smaller one is not; with a limit the last  *)
(* OPT is packed at the end, where only its body has been reserved.         *)
Pack(m, compression, prefix, size) ==
    LET compress == compression /\ Len(m.questions) + Len(Records(m)) > 1
        opt == m.additionals[LastOpt(m.additionals)]
        most == (IF size < MinSize THEN MinSize ELSE size) - prefix
        header == Emit([w |-> <<>>, len |-> 0, ptrs |-> <<>>, cut |-> FALSE],
                       "header", [hdr |-> m.hdr, counts |-> Counts(m)], 12)
    IN  IF size = 0 THEN TakeAll(header, m, FALSE, compress, 0)
        ELSE IF OptsAt(m.additionals) = {} THEN TakeAll(header, m, FALSE, compress, most)
        ELSE PackRR(TakeAll(header, m, TRUE, compress, most - BodyLen(<<>>, opt)), opt, compress)

-----------------------------------------------------------------------------
(* Unpacking.  up is [ok, off, list]: whether all is well so far, where to  *)
(* read on, what has been read of a section or a body.                      *)
TokenAt(w, off, kind) == {i \in 1..Len(w) : w[i].at = off /\ w[i].t \in kind}

(* The loop of Name.unpack.  st is [state, at, next, name, followed]: where *)
(* it reads, where the next field starts, the labels read, the pointers     *)
(* followed.                                                                *)
NameParts == {"label", "ptr", "end"}
Fail(st) == [st EXCEPT !.state = "bad"]
EndName(st) ==
    [st EXCEPT !.state = "end", !.next = IF st.followed = 0 THEN st.at + 1 ELSE @]
FollowPtr(st, to) ==
    IF st.followed = MaxPtr THEN Fail(st)
    ELSE [st EXCEPT !.at = to, !.followed = @ + 1, !.next = IF st.followed = 0 THEN st.at + 2 ELSE @]

(* The length byte of the last label counts twice. *)
ReadLabel(st, label, size) ==
    IF NameBytes(Append(st.name, label)) >= NameMax THEN Fail(st)
    ELSE [st EXCEPT !.at = @ + size, !.name = Append(@, label)]

ReadToken(st, tok) ==
    IF tok.t = "end" THEN EndName(st)
    ELSE IF tok.t = "ptr" THEN FollowPtr(st, tok.v)
    ELSE ReadLabel(st, tok.v, tok.size)
ReadOn(w, st) ==
    LET here == TokenAt(w, st.at, NameParts)
    IN  IF st.state # "on" THEN st
        ELSE IF here = {} THEN Fail(st)
        ELSE ReadToken(st, w[CHOOSE i \in here : TRUE])

(* Name.unpack: each turn but the last one reads a label or follows a       *)
(* pointer, so there are no more turns than the limits of both.             *)
UnpackName(w, off) ==
    LET Turn[k \in 0..(NameMax + MaxPtr + 1)] ==
            IF k = 0 THEN [state |-> "on", at |-> off, next |-> off, name |-> <<>>, followed |-> 0]
            ELSE ReadOn(w, Turn[k - 1])
        read == Turn[NameMax + MaxPtr + 1]
    IN  [ok |-> read.state = "end", name |-> read.name, next |-> read.next]

Bad(up) == [up EXCEPT !.ok = FALSE]
Got(up, off, x) == [ok |-> up.ok, off |-> off, list |-> Append(up.list, x)]

(* A field that starts with a name n: a question, and a record below. *)
UnpackQuestion(w, up, n) ==
    IF ~n.ok \/ TokenAt(w, n.next, {"qtype"}) = {} THEN Bad(up)
    ELSE Got(up, n.next + 4, n.name)

(* One part of a body, as its type's unpackBody reads it. *)
UnpackFixed(w, up, size) ==
    IF \E i \in TokenAt(w, up.off, {"fix"}) : w[i].size = size
    THEN Got(up, up.off + size, FixPart(size))
    ELSE Bad(up)
UnpackNamePart(up, n) == IF n.ok THEN Got(up, n.next, NamePart(n.name)) ELSE Bad(up)
UnpackPart(w, up, size) ==
    IF ~up.ok THEN up
    ELSE IF size > 0 THEN UnpackFixed(w, up, size)
    ELSE UnpackNamePart(up, UnpackName(w, up.off))

UnpackParts(w, off, layout) ==
    LET Upto[k \in 0..Len(layout)] ==
            IF k = 0 THEN [ok |-> TRUE, off |-> off, list |-> <<>>]
            ELSE UnpackPart(w, Upto[k - 1], layout[k])
    IN  Upto[Len(layout)]

(* unpackResource: the body must be as long as the header says. *)
TakeBody(up, name, type, end, b) ==
    IF ~b.ok \/ b.off # end THEN Bad(up)
    ELSE Got(up, end, [name |-> name, type |-> type, body |-> b.list])
TakeHeader(w, up, n, hdr) ==
    TakeBody(up, n.name, hdr[1], n.next + 10 + hdr[2],
             UnpackParts(w, n.next + 10, Layout(hdr[1], hdr[2])))
UnpackRR(w, up, n) ==
    LET here == TokenAt(w, n.next, {"rr"})
    IN  IF ~n.ok \/ here = {} THEN Bad(up)
        ELSE TakeHeader(w, up, n, w[CHOOSE i \in here : TRUE].v)

UnpackField(w, up, kind) ==
    IF ~up.ok THEN up
    ELSE IF kind = "question" THEN UnpackQuestion(w, up, UnpackName(w, up.off))
    ELSE UnpackRR(w, up, UnpackName(w, up.off))

(* The section after prev, of n fields. *)
UnpackSection(w, prev, kind, n) ==
    LET Upto[k \in 0..n] ==
            IF k = 0 THEN [prev EXCEPT !.list = <<>>] ELSE UnpackField(w, Upto[k - 1], kind)
    IN  Upto[n]

(* Msg.Unpack: as many of each section as the header counts; {} on an error. *)
Unpack(w) ==
    LET h == w[1].v
        asked == UnpackSection(w, [ok |-> TRUE, off |-> 12, list |-> <<>>], "question", h.counts[1])
        answered == UnpackSection(w, asked, "rr", h.counts[2])
        authorised == UnpackSection(w, answered, "rr", h.counts[3])
        added == UnpackSection(w, authorised, "rr", h.counts[4])
    IN  {m \in {[hdr |-> h.hdr, questions |-> asked.list, answers |-> answered.list,
                 authorities |-> authorised.list, additionals |-> added.list]} : added.ok}
=============================================================================
