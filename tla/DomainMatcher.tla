--------------------------- MODULE DomainMatcher ---------------------------
(***************************************************************************)
(* src/internal/domain_matcher: one file of a domain set is read line by   *)
(* line into a tree, the tree is compiled into three flat sections (nodes, *)
(* index, labels) that queries search, and the sections can be written out *)
(* and read back.                                                          *)
(*                                                                         *)
(* A label is a number, ordered as bytes.Compare orders the real ones.  A  *)
(* name is the sequence of its labels from the root down, so a node of the *)
(* tree is the name of its path.  A regular expression is the set of names *)
(* it accepts.  Lower-casing, comments and the dataOff field (Loader.Add   *)
(* always passes 0) are left out.                                          *)
(***************************************************************************)
EXTENDS Integers, Sequences, SequencesExt, FiniteSets

CONSTANTS RuleNames,   \* the names rules are written for
          QueryNames,  \* the names queries ask about
          Regexps,     \* the expressions rules are written with, sets of names
          MaxRules     \* bound: the rules of one file

ASSUME DomainAssumption ==
    MaxRules \in Nat /\ RuleNames \subseteq Seq(Nat) /\ QueryNames \subseteq Seq(Nat)

VARIABLES rules,       \* the lines accepted so far, in file order
          tree,        \* tree: path |-> [idx, stat]
          re,          \* Loader.re, deduplicated by Loader.dup
          ct,          \* compiledTree: [nodes, idxNodes, labels]
          frames,      \* the recursion of buildIdx: children still to visit, innermost last
          stage        \* "adding", "compiling", "compiled", "reloaded", "refused"

domainVars == <<rules, tree, re, ct, frames, stage>>

NoTree == [nodes |-> <<>>, idxNodes |-> <<>>, labels |-> <<>>]

DomainInit ==
    /\ rules = <<>>
    /\ tree = [p \in {<<>>} |-> [idx |-> 0, stat |-> "none"]]
    /\ re = {}
    /\ ct = NoTree
    /\ frames = <<>>
    /\ stage = "adding"

(* tree.Add: missing nodes are numbered from the root down; the last rule for a name wins. *)
TreeAdd(name, inherit) ==
    LET path == {SubSeq(name, 1, k) : k \in 0..Len(name)}
        new == path \ DOMAIN tree
        Number(p) == Cardinality(DOMAIN tree) + Cardinality({q \in new : Len(q) < Len(p)})
    IN  [p \in DOMAIN tree \cup path |->
            [idx |-> IF p \in new THEN Number(p) ELSE tree[p].idx,
             stat |-> IF p = name THEN (IF inherit THEN "domain" ELSE "full")
                      ELSE IF p \in new THEN "none" ELSE tree[p].stat]]

Line == [typ : {"domain", "full"}, name : RuleNames] \cup [typ : {"regexp"}, accepts : Regexps]

(* Loader.Add of one line that parses. *)
AddLine(line) ==
    /\ stage = "adding" /\ Len(rules) < MaxRules
    /\ rules' = Append(rules, line)
    /\ IF line.typ = "regexp"
       THEN re' = re \cup {line.accepts} /\ tree' = tree
       ELSE tree' = TreeAdd(line.name, line.typ = "domain") /\ re' = re
    /\ UNCHANGED <<ct, frames, stage>>

(* A line that does not parse: LoadRulesFromReader returns and the file is refused. *)
AddFails ==
    /\ stage = "adding"
    /\ stage' = "refused"
    /\ UNCHANGED <<rules, tree, re, ct, frames>>

Children(p) == {q \in DOMAIN tree : Len(q) = Len(p) + 1 /\ SubSeq(q, 1, Len(p)) = p}

Seg(s, sa) == SubSeq(s, sa.off + 1, sa.off + sa.l)

LabelOf(e, labels) == Seg(labels, e.labelSeg)[1]

(* The children are left in the order the map gave them. *)
AscendingUnsorted(labels, es) == {es}

(* slices.SortFunc by label. *)
Ascending(labels, es) ==
    {s \in {[k \in 1..Len(es) |-> es[f[k]]] : f \in Bijection(1..Len(es), 1..Len(es))} :
        \A i, j \in 1..Len(es) : i < j => LabelOf(s[i], labels) <= LabelOf(s[j], labels)}

(* buildIdx of one node: its children go to the index section in the order *)
(* the iteration of the map yields them, then that segment is sorted.      *)
IndexNode(c, p, order) ==
    LET n == tree[p].idx
        off == Len(c.idxNodes)
        labels == c.labels \o [k \in 1..Len(order) |-> Last(order[k])]
        entry == [k \in 1..Len(order) |->
                    [labelSeg |-> [off |-> Len(c.labels) + k - 1, l |-> 1],
                     childIdx |-> tree[order[k]].idx]]
    IN  {[nodes |-> [c.nodes EXCEPT ![n + 1].childIdxSeg = [off |-> off, l |-> Len(order)]],
          idxNodes |-> c.idxNodes \o es,
          labels |-> labels] : es \in Ascending(labels, entry)}

Visiting(fs, p) == IF Children(p) = {} THEN fs ELSE Append(fs, Children(p))

(* tree.Compile: compileNodes fills the stats, buildIdx starts at the root. *)
Compile(order) ==
    LET AtIdx(i) == CHOOSE p \in DOMAIN tree : tree[p].idx = i
        blank == [NoTree EXCEPT !.nodes =
                    [i \in 1..Cardinality(DOMAIN tree) |->
                        [childIdxSeg |-> [off |-> 0, l |-> 0], stat |-> tree[AtIdx(i - 1)].stat]]]
    IN  /\ stage = "adding"
        /\ order \in SetToSeqs(Children(<<>>))
        /\ ct' \in IndexNode(blank, <<>>, order)
        /\ frames' = Visiting(<<>>, <<>>)
        /\ stage' = IF frames' = <<>> THEN "compiled" ELSE "compiling"
        /\ UNCHANGED <<rules, tree, re>>

(* The recursion of buildIdx: the next child, in any order again. *)
BuildIdx(p, order) ==
    /\ stage = "compiling"
    /\ p \in Last(frames)
    /\ order \in SetToSeqs(Children(p))
    /\ ct' \in IndexNode(ct, p, order)
    /\ LET left == Last(frames) \ {p}
           outer == IF left = {} THEN Front(frames) ELSE Append(Front(frames), left)
       IN  frames' = Visiting(outer, p)
    /\ stage' = IF frames' = <<>> THEN "compiled" ELSE "compiling"
    /\ UNCHANGED <<rules, tree, re>>

(* binarySearchIdx: the position of the label in a sorted segment, 0 when absent. *)
BinarySearchIdx(s, labels, target) ==
    LET Lower[b \in (0..Len(s)) \X (0..Len(s))] ==
            LET i == b[1]
                j == b[2]
                h == (i + j) \div 2
            IN  IF i >= j THEN i
                ELSE IF LabelOf(s[h + 1], labels) < target THEN Lower[<<h + 1, j>>]
                ELSE Lower[<<i, h>>]
        at == Lower[<<0, Len(s)>>]
    IN  IF at < Len(s) /\ LabelOf(s[at + 1], labels) = target THEN at + 1 ELSE 0

(* The search has come to a node at level i - 1, or has lost its way. *)
Reach(node, i, lvl) ==
    [node |-> node, lost |-> FALSE,
     lvl |-> IF node.stat = "domain" THEN i - 1 ELSE lvl,
     full |-> IF node.stat = "full" THEN i - 1 ELSE -2]
Lose(prev) == [prev EXCEPT !.lost = TRUE, !.full = -2]

(* One level down, to the child with the label. *)
Descend(c, prev, label, i) ==
    LET s == Seg(c.idxNodes, prev.node.childIdxSeg)
        k == BinarySearchIdx(s, c.labels, label)
    IN  IF prev.lost \/ k = 0 THEN Lose(prev)
        ELSE Reach(c.nodes[s[k].childIdx + 1], i, prev.lvl)

(* compiledTree.Match: the level of the closest rule, -1 for the root, -2 for none. *)
Match(c, q) ==
    LET Walk[i \in 0..Len(q)] ==
            IF i = 0 THEN Reach(c.nodes[1], 0, -2) ELSE Descend(c, Walk[i - 1], q[i], i)
        end == Walk[Len(q)]
    IN  IF end.full # -2 THEN end.full ELSE end.lvl

(* Matcher.Match: the tree first, then every expression. *)
MatcherMatch(q) == Match(ct, q) > -2 \/ \E r \in re : q \in r

ValidSegAddr(sa, targetLen) == sa.off \in 0..targetLen /\ sa.l >= 0 /\ sa.off + sa.l <= targetLen

(* What deserializeBody checks of the pointers before it accepts the sections. *)
ValidPointers(c) ==
    \A n \in 1..Len(c.nodes) :
        LET sa == c.nodes[n].childIdxSeg
            s == Seg(c.idxNodes, sa)
        IN  /\ ValidSegAddr(sa, Len(c.idxNodes))
            /\ \A j \in 1..Len(s) :
                 /\ s[j].childIdx \in 0..(Len(c.nodes) - 1)
                 /\ ValidSegAddr(s[j].labelSeg, Len(c.labels))
                 /\ j > 1 => LabelOf(s[j - 1], c.labels) < LabelOf(s[j], c.labels)

(* Serialize writes the sections with their lengths; Deserialize reads them back. *)
Reload ==
    /\ stage = "compiled"
    /\ stage' = IF ValidPointers(ct) THEN "reloaded" ELSE "refused"
    /\ UNCHANGED <<rules, tree, re, ct, frames>>

DomainStep ==
    \/ \E line \in Line : AddLine(line)
    \/ AddFails
    \/ \E order \in SetToSeqs(Children(<<>>)) : Compile(order)
    \/ stage = "compiling" /\ \E p \in Last(frames) :
            \E order \in SetToSeqs(Children(p)) : BuildIdx(p, order)
    \/ Reload

-----------------------------------------------------------------------------
(* docs/wiki.md, the three kinds of rules: what a line says of a name,      *)
(* whatever the other lines say.                                            *)
Says(line, q) ==
    \/ line.typ = "regexp" /\ q \in line.accepts
    \/ line.typ = "full" /\ q = line.name
    \/ line.typ = "domain" /\ IsPrefix(line.name, q)

Listed(q) == \E k \in 1..Len(rules) : Says(rules[k], q)

(* tree.go:42 overwrites the node of a name, so a "full:" line takes the    *)
(* subdomains away from an earlier "domain:" line of the same name.  The    *)
(* docs know of no such case; nothing is claimed of what such a line says.  *)
Narrowed(k) ==
    /\ rules[k].typ = "domain"
    /\ \E j \in (k + 1)..Len(rules) : rules[j].typ = "full" /\ rules[j].name = rules[k].name

ListedForGood(q) == \E k \in 1..Len(rules) : Says(rules[k], q) /\ ~Narrowed(k)

(* A file that compiled matches no name but those it lists, and all that a  *)
(* line lists that is not narrowed, whatever the order its children were    *)
(* laid out in; and it is accepted when it is read back: only a line that   *)
(* does not parse may refuse a file.                                        *)
MatcherExact ==
    /\ stage \in {"compiled", "reloaded"} => \A q \in QueryNames :
         (MatcherMatch(q) => Listed(q)) /\ (ListedForGood(q) => MatcherMatch(q))
    /\ stage = "refused" => ct = NoTree
=============================================================================
