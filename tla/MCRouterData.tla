---------------------------- MODULE MCRouterData ----------------------------
(* Rules, addresses, hosts and messages small enough to enumerate.          *)
EXTENDS RouterData

CONSTANTS com, sub, host, long, n1, n2, n3

\* Domain rules: three siblings and their ancestors; every name of up to three labels is asked.
MCRuleNames == {<<>>, <<1>>, <<1, 1>>, <<1, 2>>, <<1, 3>>, <<2>>}
MCQueryNames == UNION {[1..k -> 1..3] : k \in 0..3}
MCRegexps == {{<<2, 2>>}, {<<1, 3>>, <<3, 1>>}}

V4(n) == [fam |-> 4, n |-> n]
V6(n) == [fam |-> 6, n |-> n]
Cidr(f, n, k) == [fam |-> f, n |-> n, bits |-> k]
ZoneLine(s, e, m) == [start |-> s, end |-> e, mark |-> m]
\* Prefixes with host bits set, inside, beside and around the mapped addresses.
MCCidrs == {Cidr(4, 0, 0), Cidr(4, 3, 1), Cidr(4, 1, 2), Cidr(6, 5, 2), Cidr(6, 9, 4), Cidr(6, 0, 1)}
MCRanges == {ZoneLine(V4(0), V4(1), "z1"), ZoneLine(V4(1), V4(3), "z2"), ZoneLine(V6(0), V6(7), "z1"),
             ZoneLine(V6(12), V6(15), "z2"), ZoneLine(V6(5), V4(0), "z3"), ZoneLine(V4(2), V4(1), "z2")}

HostLine(n, s) == [name |-> n, ips |-> s]
MCHostLines == {HostLine(n1, <<V4(1)>>), HostLine(n1, <<V4(2), V6(1)>>), HostLine(n1, <<V6(1), V6(1)>>),
                HostLine(n2, <<V6(2)>>), HostLine(n2, <<V4(1), V4(1)>>)}

\* Names that nest four deep, one of NameMax bytes, and answers of every kind of body.
MCLabelSize == [l \in {com, sub, host, long} |->
                  CASE l = com -> 4 [] l = sub -> 2 [] l = host -> 3 [] l = long -> 12]
Name1 == <<sub, com>>
Name2 == <<host, sub, com>>
Name3 == <<sub, host, sub, com>>
Name4 == <<host, sub, host, sub, com>>
NameLong == <<long, host, com>>
Rr(name, type, body) == [name |-> name, type |-> type, body |-> body]
In(section, r) == [section |-> section, rr |-> r]
MCGiven ==
    {In("answers", r) : r \in
        {Rr(Name1, "A", <<FixPart(4)>>), Rr(Name1, "NAME", <<NamePart(Name2)>>),
         Rr(Name2, "NAME", <<NamePart(Name3)>>), Rr(Name3, "NAME", <<NamePart(Name4)>>),
         Rr(Name1, "SRV", <<FixPart(6), NamePart(Name2)>>),
         Rr(Name2, "MX", <<FixPart(2), NamePart(Name1)>>),
         Rr(NameLong, "AAAA", <<FixPart(16)>>), Rr(<<>>, "TXT", <<FixPart(5)>>)}}
    \cup {In("authorities", Rr(<<com>>, "SOA", <<NamePart(Name2), NamePart(Name3), FixPart(20)>>)),
          In("additionals", Rr(Name2, "A", <<FixPart(4)>>)),
          In("additionals", Rr(<<>>, "OPT", <<FixPart(4)>>))}

\* An upstream may answer without the question, or with another one.
MCOtherQuestions == {<<>>, <<Name2>>}

Query == [EmptyMsg EXCEPT !.hdr.id = 7, !.hdr.rd = TRUE, !.questions = <<Name1>>]
OptQuery == [Query EXCEPT !.additionals = <<Opt>>]
Request(m, size) == [m |-> m, udpSize |-> size]
MCRequests ==
    {Request(Query, 0), Request(OptQuery, 0), Request(OptQuery, 60), Request(OptQuery, 90),
     Request([Query EXCEPT !.hdr.response = TRUE], 0), Request([Query EXCEPT !.hdr.rd = FALSE], 0),
     Request([Query EXCEPT !.questions = <<Name2, Name1>>], 0),
     Request([Query EXCEPT !.hdr.opcode = 5], 0), Request([Query EXCEPT !.questions = <<>>], 0),
     Request([OptQuery EXCEPT !.additionals = @ \o <<Rr(Name2, "A", <<FixPart(4)>>)>>], 60)}

Plain == [path |-> TRUE, clientAddr |-> "good", method |-> "POST", mime |-> "dns", payload |-> "message"]
MCFronts ==
    {[proto |-> p, http |-> Plain] : p \in {"udp", "tcp", "http"}}
    \cup {[proto |-> "http", http |-> h] : h \in
            {[Plain EXCEPT !.path = FALSE], [Plain EXCEPT !.clientAddr = "bad"],
             [Plain EXCEPT !.method = "PUT"], [Plain EXCEPT !.mime = "other"],
             [Plain EXCEPT !.payload = "missing"], [Plain EXCEPT !.payload = "large"],
             [Plain EXCEPT !.payload = "garbled"],
             [Plain EXCEPT !.method = "GET", !.payload = "large"]}}

\* The parts that do not use the requests or the kinds of list start from one of them.
MCInit ==
    /\ DataInit
    /\ part # "replies" => req = Request(Query, 0) /\ front = [proto |-> "udp", http |-> Plain]
    /\ part # "addresses" => kind = "cidr"

MCSpec == MCInit /\ [][DataNext]_dataVars
MCReplySpec == MCInit /\ part = "replies" /\ [][DataNext]_dataVars
=============================================================================
