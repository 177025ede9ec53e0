------------------------------- MODULE Hosts -------------------------------
(***************************************************************************)
(* src/app/router/hosts.go: names answered from configured addresses.  The *)
(* inline entries and then each file are parsed into a map from a name to  *)
(* its IPv4 and IPv6 addresses; a query merges what every map says of its  *)
(* name.  Names are compared in lower case, and are model values here.     *)
(* An IPv4-mapped IPv6 address is an IPv6 address to netip's Is4.          *)
(***************************************************************************)
EXTENDS Integers, Sequences, SequencesExt, FiniteSets

CONSTANTS HostLines,     \* the lines [name, ips] hosts are written with
          HostNames,     \* the names queries ask about
          MaxHostFiles,  \* bound: the inline entries count as the first file
          MaxHostLines   \* bound: the lines of one file

(* netip parses addresses of the two families only. *)
ASSUME HostsAssumption ==
    \A l \in HostLines : /\ l.ips \in Seq(ToSet(l.ips))
                         /\ \A ip \in ToSet(l.ips) : ip.fam \in {4, 6}

VARIABLES hostLines,     \* the lines read of each file, the last one being read
          records,       \* the map of each file: name |-> [v4, v6]
          hostsStage     \* "reading", "ready", "refused"

hostsVars == <<hostLines, records, hostsStage>>

HostsInit == hostLines = << <<>> >> /\ records = << <<>> >> /\ hostsStage = "reading"

Record(recs, name) == IF name \in DOMAIN recs THEN recs[name] ELSE [v4 |-> <<>>, v6 |-> <<>>]

(* An address is appended whether or not it is there already. *)
AppendAlways(dst, ip) == Append(dst, ip)

(* appendUniqueAddr. *)
AppendUnique(dst, ip) == IF ip \in ToSet(dst) THEN dst ELSE Append(dst, ip)

(* The addresses of a line, one after the other, to the list of their family. *)
AddAddresses(rec, ips) ==
    LET Upto[k \in 0..Len(ips)] ==
            IF k = 0 THEN rec
            ELSE LET r == Upto[k - 1]
                     ip == ips[k]
                 IN  IF ip.fam = 4 THEN [r EXCEPT !.v4 = AppendUnique(r.v4, ip)]
                                   ELSE [r EXCEPT !.v6 = AppendUnique(r.v6, ip)]
    IN  Upto[Len(ips)]

(* mergeHostRecord: each list of src after that of dst. *)
AppendAll(dst, ips) ==
    LET Upto[k \in 0..Len(ips)] == IF k = 0 THEN dst ELSE AppendUnique(Upto[k - 1], ips[k])
    IN  Upto[Len(ips)]
Merge(dst, src) == [v4 |-> AppendAll(dst.v4, src.v4), v6 |-> AppendAll(dst.v6, src.v6)]

(* parseHostsLine: a line for a name already there adds to its record. *)
ReadHostsLine(line) ==
    /\ hostsStage = "reading" /\ Len(Last(hostLines)) < MaxHostLines
    /\ hostLines' = [hostLines EXCEPT ![Len(hostLines)] = Append(@, line)]
    /\ LET recs == Last(records)
           rec == AddAddresses(Record(recs, line.name), line.ips)
       IN  records' = [records EXCEPT ![Len(records)] =
                         [n \in DOMAIN recs \cup {line.name} |->
                            IF n = line.name THEN rec ELSE recs[n]]]
    /\ UNCHANGED hostsStage

HostsLineFails ==
    /\ hostsStage = "reading"
    /\ hostsStage' = "refused"
    /\ UNCHANGED <<hostLines, records>>

(* The end of the inline entries or of a file: the next file, or loadHosts returns. *)
HostsFileEnds ==
    /\ hostsStage = "reading"
    /\ \/ /\ Len(records) < MaxHostFiles
          /\ hostLines' = Append(hostLines, <<>>)
          /\ records' = Append(records, <<>>)
          /\ UNCHANGED hostsStage
       \/ /\ hostsStage' = "ready"
          /\ UNCHANGED <<hostLines, records>>

HostsStep == (\E l \in HostLines : ReadHostsLine(l)) \/ HostsLineFails \/ HostsFileEnds

(* Hosts.lookup: whether any map has the name, and the merge of all that do. *)
HostsLookup(name) ==
    LET Upto[f \in 0..Len(records)] ==
            IF f = 0 THEN [v4 |-> <<>>, v6 |-> <<>>]
            ELSE IF name \in DOMAIN records[f] THEN Merge(Upto[f - 1], records[f][name])
            ELSE Upto[f - 1]
    IN  [matched |-> \E f \in 1..Len(records) : name \in DOMAIN records[f],
         rec |-> Upto[Len(records)]]

(* Hosts.Response: not handled, or the addresses of the family asked for,   *)
(* with a SOA in the authority section when there are none.                 *)
HostsResponse(name, class, type) ==
    LET found == HostsLookup(name)
        answers == IF type = "A" THEN found.rec.v4 ELSE found.rec.v6
    IN  IF class # "IN" \/ type \notin {"A", "AAAA"} \/ ~found.matched
        THEN [handled |-> FALSE]
        ELSE [handled |-> TRUE, answers |-> answers, soa |-> answers = <<>>]

-----------------------------------------------------------------------------
Written(name) ==
    UNION {UNION {ToSet(hostLines[f][k].ips) : k \in
        {j \in 1..Len(hostLines[f]) : hostLines[f][j].name = name}} : f \in 1..Len(hostLines)}

Named(name) == \E f \in 1..Len(hostLines) : \E k \in 1..Len(hostLines[f]) :
                    hostLines[f][k].name = name

(* An address query for a name written in any file is always answered here, *)
(* never forwarded: with every address of its family that any file gives    *)
(* the name, each once, or with a SOA when the name has only the other      *)
(* family; any other query is left alone.                                   *)
HostsExact ==
    hostsStage = "ready" =>
        \A n \in HostNames, class \in {"IN", "CH"}, type \in {"A", "AAAA", "MX"} :
            LET r == HostsResponse(n, class, type)
                due == {ip \in Written(n) : ip.fam = IF type = "A" THEN 4 ELSE 6}
            IN  /\ r.handled <=> (class = "IN" /\ type # "MX" /\ Named(n))
                /\ r.handled => /\ ToSet(r.answers) = due
                                /\ Len(r.answers) = Cardinality(due)
                                /\ r.soa <=> due = {}
=============================================================================
