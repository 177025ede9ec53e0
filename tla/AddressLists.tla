---------------------------- MODULE AddressLists ----------------------------
(***************************************************************************)
(* src/internal/netlist and its two users: the ip sets (CIDR files) and    *)
(* the ECS zones (files of "start,end,mark").  A file is read line by line *)
(* into a builder, sorted and checked for overlaps; a set or a zone is a   *)
(* sequence of such lists, asked in order.                                 *)
(*                                                                         *)
(* An address is [fam, n], n a number of Width(fam) bits.  As in           *)
(* addr2Ipv6 both families share one space of numbers, IPv4 mapped at      *)
(* Mapped.  The two 64-bit halves of an address are one number here.       *)
(***************************************************************************)
EXTENDS Integers, Sequences, SequencesExt, FiniteSets

CONSTANTS V4Bits, V6Bits, \* bounds: the width of the addresses
          Mapped,         \* where IPv4 addresses are mapped among the IPv6 ones
          Cidrs,          \* the prefixes [fam, n, bits] ip set files are written with
          Ranges,         \* the lines [start, end, mark] zone files are written with
          MaxFiles, MaxLines \* bounds: the files of a set, the lines of a file

ASSUME WidthAssumption ==
    V4Bits \in Nat /\ V6Bits \in Nat /\ Mapped \in Nat /\ Mapped + 2^V4Bits <= 2^V6Bits

VARIABLES kind,  \* "cidr" for an ip set, "marker" for a zone
          lines, \* the lines of each file read so far, the last one being read
          ranges, \* ListBuilder.b of that file: ranges [start, end, v]
          marks, \* LoadIpMarkerFromReader.labels: v is an index into it
          lists, \* the lists built: [e, marks]
          refused \* "no", or why a file was refused: "line" or "overlap"

addressVars == <<kind, lines, ranges, marks, lists, refused>>

AddressInit ==
    /\ kind \in {"cidr", "marker"}
    /\ lines = << <<>> >>
    /\ ranges = <<>> /\ marks = <<>> /\ lists = <<>>
    /\ refused = "no"

Width(fam) == IF fam = 4 THEN V4Bits ELSE V6Bits

Addresses == [fam : {4}, n : 0..(2^V4Bits - 1)] \cup [fam : {6}, n : 0..(2^V6Bits - 1)]

(* netip parses no other addresses, and no prefix longer than its address. *)
ASSUME LinesAssumption ==
    /\ \A p \in Cidrs : [fam |-> p.fam, n |-> p.n] \in Addresses /\ p.bits \in 0..Width(p.fam)
    /\ \A l \in Ranges : l.start \in Addresses /\ l.end \in Addresses

Addr2Ipv6(a) == IF a.fam = 4 THEN Mapped + a.n ELSE a.n

(* prefix.Masked().Addr(), and lastIP setting every bit after the prefix. *)
Masked(p) ==
    LET size == 2^(Width(p.fam) - p.bits) IN [fam |-> p.fam, n |-> (p.n \div size) * size]
LastIP(p) ==
    LET size == 2^(Width(p.fam) - p.bits) IN [fam |-> p.fam, n |-> Masked(p).n + size - 1]

Reading == refused = "no" /\ Len(lists) < MaxFiles
CanAdd == Reading /\ Len(Last(lines)) < MaxLines

(* ListBuilder.Add, and the line is refused when its ends are swapped. *)
AddRange(start, end, v, line) ==
    LET r == [start |-> Addr2Ipv6(start), end |-> Addr2Ipv6(end), v |-> v]
    IN  /\ refused' = IF r.start > r.end THEN "line" ELSE "no"
        /\ ranges' = IF r.start > r.end THEN ranges ELSE Append(ranges, r)
        /\ lines' = [lines EXCEPT ![Len(lines)] = Append(@, line)]

(* parseCIDRFile, one line. *)
ReadPrefix(p) ==
    /\ kind = "cidr" /\ CanAdd
    /\ AddRange(Masked(p), LastIP(p), 0, [start |-> Masked(p), end |-> LastIP(p), mark |-> "-"])
    /\ UNCHANGED <<kind, marks, lists>>

(* LoadIpMarkerFromReader, one line: a mark seen before keeps its number. *)
ReadRange(l) ==
    /\ kind = "marker" /\ CanAdd
    /\ LET seen == {i \in 1..Len(marks) : marks[i] = l.mark}
       IN  /\ marks' = IF seen = {} THEN Append(marks, l.mark) ELSE marks
           /\ AddRange(l.start, l.end,
                       IF seen = {} THEN Len(marks) ELSE (CHOOSE i \in seen : TRUE) - 1, l)
    /\ UNCHANGED <<kind, lists>>

(* A line that does not parse. *)
ReadFails ==
    /\ CanAdd
    /\ refused' = "line"
    /\ UNCHANGED <<kind, lines, ranges, marks, lists>>

(* Ranges that share only their border are not seen to overlap. *)
OverlapsInside(rs) == \E i \in 1..(Len(rs) - 1) : rs[i].end > rs[i + 1].start

Overlaps(rs) == \E i \in 1..(Len(rs) - 1) : rs[i].end >= rs[i + 1].start

(* sort.Slice by start, which leaves ranges with equal starts in any order. *)
Sorted(rs) ==
    {s \in {[i \in 1..Len(rs) |-> rs[p[i]]] : p \in Bijection(1..Len(rs), 1..Len(rs))} :
        \A i, j \in 1..Len(rs) : i < j => s[i].start <= s[j].start}

(* ListBuilder.Build at the end of a file; the next file starts a new builder. *)
Build ==
    \E rs \in Sorted(ranges) :
        /\ Reading
        /\ refused' = IF Overlaps(rs) THEN "overlap" ELSE "no"
        /\ lists' = IF Overlaps(rs) THEN lists ELSE Append(lists, [e |-> rs, marks |-> marks])
        /\ ranges' = <<>> /\ marks' = <<>>
        /\ lines' = IF Overlaps(rs) \/ Len(lists') = MaxFiles THEN lines ELSE Append(lines, <<>>)
        /\ UNCHANGED kind

AddressStep ==
    \/ \E p \in Cidrs : ReadPrefix(p)
    \/ \E l \in Ranges : ReadRange(l)
    \/ ReadFails
    \/ Build

(* sort.Search: the first position whose range starts after ip, by bisection. *)
FirstAfter(e, ip) ==
    LET Bisect[b \in (0..Len(e)) \X (0..Len(e))] ==
            LET i == b[1]
                j == b[2]
                h == (i + j) \div 2
            IN  IF i >= j THEN i
                ELSE IF ip < e[h + 1].start THEN Bisect[<<i, h>>]
                ELSE Bisect[<<h + 1, j>>]
    IN  Bisect[<<0, Len(e)>>]

(* List.Lookup: {} or the one value found. *)
Lookup(l, ip) ==
    LET i == FirstAfter(l.e, ip)
    IN  IF i > 0 /\ l.e[i].start <= ip /\ ip <= l.e[i].end THEN {l.e[i].v} ELSE {}

(* IpSet.MatchAddr and ECSZone.Mark: the first list that has the address. *)
MatchAddr(a) == \E i \in 1..Len(lists) : Lookup(lists[i], Addr2Ipv6(a)) # {}
Mark(a) ==
    LET hits == {i \in 1..Len(lists) : Lookup(lists[i], Addr2Ipv6(a)) # {}}
        first == CHOOSE i \in hits : \A j \in hits : i <= j
    IN  IF hits = {} THEN {}
        ELSE {lists[first].marks[v + 1] : v \in Lookup(lists[first], Addr2Ipv6(a))}

(* IpSet.MatchMsg: an A record holds an IPv4 address, an AAAA record an IPv6 *)
(* one that may be a mapped IPv4 address.                                    *)
MatchMsg(answers) == \E k \in 1..Len(answers) : MatchAddr(answers[k])

-----------------------------------------------------------------------------
Covers(l, a) == Addr2Ipv6(l.start) <= Addr2Ipv6(a) /\ Addr2Ipv6(a) <= Addr2Ipv6(l.end)
LinesOver(i, a) == {k \in 1..Len(lines[i]) : Covers(lines[i][k], a)}

(* Every address is answered by the first file with a line over it and by   *)
(* that very line, whatever the order of the lines, and a file is refused   *)
(* for an overlap exactly when two of its lines share an address: comparing *)
(* neighbours in a sorted list must miss no pair of ranges.                 *)
AddressesExact ==
    /\ refused = "overlap" =>
         \E a \in Addresses : Cardinality(LinesOver(Len(lines), a)) > 1
    /\ \A i \in 1..Len(lists) : \A a \in Addresses : Cardinality(LinesOver(i, a)) <= 1
    /\ \A a \in Addresses :
         LET over == {i \in 1..Len(lists) : LinesOver(i, a) # {}}
             file == CHOOSE i \in over : \A j \in over : i <= j
         IN  /\ MatchAddr(a) <=> over # {}
             /\ MatchMsg(<<a>>) <=> over # {}
             /\ kind = "marker" =>
                  Mark(a) = IF over = {} THEN {}
                            ELSE {lines[file][k].mark : k \in LinesOver(file, a)}
=============================================================================
