------------------------------- MODULE Decoding -------------------------------
(***************************************************************************)
(* How a value the server sent becomes a vertex, an edge, a path or a list *)
(* of them: _protocol/textfmt.py and decode.py.                            *)
(*                                                                         *)
(* A rendering is a sequence of symbols: "[1]" is an id group, naming the  *)
(* label by its id, "ends" the two ids of an edge, "{}" a whole property map, *)
(* "{s" and "s}" the two ends of a map that holds one string, in which any *)
(* other symbol may stand.  A label is written as it is.                   *)
(***************************************************************************)
EXTENDS Integers, Sequences

Ids == {"[1]", "[2]", "[3]"}
SymAt(buf, i) == IF i \in DOMAIN buf THEN buf[i] ELSE ""
Part(buf, from, to) == SubSeq(buf, from, to)
First(S) == CHOOSE x \in S : \A y \in S : x <= y

(* An element read; what could not be, as a part of a text or an element.  *)
Element(kind, labid, label, props) == [kind |-> kind, labid |-> labid, label |-> label, props |-> props]
Null == Element("null", "", <<>>, <<>>)
NoElement == Element("nothing", "", <<>>, <<>>)
NoPart == <<"nothing">>

(* One complete JSON object.                                               *)
IsJson(buf) ==
    \/ buf = <<"{}">>
    \/ /\ Len(buf) >= 2 /\ buf[1] = "{s" /\ buf[Len(buf)] = "s}"
       /\ \A i \in 2..(Len(buf) - 1) : buf[i] \notin {"{s", "s}"}

(* The groups that could be an element's own: one after a label, before    *)
(* an object that ends with the text; for an edge, with its two ids.       *)
Owns(buf, i, kind) ==
    LET props == IF kind = "edge" THEN i + 2 ELSE i + 1
    IN /\ i > 1 /\ buf[i] \in Ids
       /\ kind = "edge" => SymAt(buf, i + 1) = "ends"
       /\ IsJson(Part(buf, props, Len(buf)))
Split(buf, i, kind) ==
    Element(kind, buf[i], Part(buf, 1, i - 1),
            Part(buf, IF kind = "edge" THEN i + 2 ELSE i + 1, Len(buf)))

(* parse_vertex and parse_edge: by the first bracket, else by a search.    *)
Brackets == Ids \cup {"[", "ends"}
Cut(buf, kind) ==
    LET found == {i \in DOMAIN buf : buf[i] \in Brackets}
    IN IF found # {} /\ Owns(buf, First(found), kind) THEN Split(buf, First(found), kind) ELSE NoElement
Searched(buf, kind) ==
    LET AtFirst(own) == IF own = {} THEN NoElement ELSE Split(buf, First(own), kind)
    IN AtFirst({i \in DOMAIN buf : Owns(buf, i, kind)})
Parse(buf, kind) ==
    LET OrSearched(cut) == IF cut # NoElement THEN cut ELSE Searched(buf, kind)
    IN OrSearched(Cut(buf, kind))

-----------------------------------------------------------------------------
(* split_elements: where the element at pos could end, shortest first.     *)
EndsHere(buf, i) == i = Len(buf) \/ SymAt(buf, i + 1) = ","
MapEnd(buf, start) ==
    LET closes == {p \in start..Len(buf) :
                      buf[p] \in {"{}", "s}"} /\ EndsHere(buf, p) /\ IsJson(Part(buf, start, p))}
    IN IF closes = {} THEN 0 ELSE First(closes)
EndOf(buf, i) ==
    LET rest == IF SymAt(buf, i + 1) = "ends" THEN i + 2 ELSE i + 1
    IN IF SymAt(buf, rest) \in {"{}", "{s"} THEN MapEnd(buf, rest) ELSE 0
ElementEnds(buf, pos) ==
    LET groups == SelectSeq([i \in DOMAIN buf |-> i],
                            LAMBDA i : i > pos /\ buf[i] \in Ids /\ EndOf(buf, i) > 0)
    IN (IF buf[pos] = "NULL" /\ EndsHere(buf, pos) THEN <<pos>> ELSE <<>>)
           \o [n \in DOMAIN groups |-> EndOf(buf, groups[n])]

(* An element the table has under the name the reading gives it; a table   *)
(* that holds nothing is not asked.                                        *)
Accounted(part, table) ==
    part # NoElement /\ part.labid \in DOMAIN table /\ table[part.labid] = part.label
KindAt(what, i) ==
    IF what = "path" THEN IF i % 2 = 1 THEN "vertex" ELSE "edge"
    ELSE IF what = "vertices" THEN "vertex" ELSE "edge"

(* The first end the table accounts for, or else the first.                *)
ElementEnd(buf, pos, what, i, table) ==
    LET Taken(ends) == {n \in DOMAIN ends : Accounted(Parse(Part(buf, pos, ends[n]), KindAt(what, i)), table)}
        OneOf(ends, taken) == IF taken # {} THEN ends[First(taken)] ELSE IF ends = <<>> THEN 0 ELSE ends[1]
        Of(ends) == OneOf(ends, Taken(ends))
    IN Of(ElementEnds(buf, pos))
SplitExact(buf, what, table) ==
    LET From[pos \in 1..(Len(buf) + 1), i \in 1..(Len(buf) + 1)] ==
            LET UpTo(stop) ==
                    IF stop = 0 THEN <<NoPart>>
                    ELSE <<Part(buf, pos, stop)>> \o IF stop = Len(buf) THEN <<>> ELSE From[stop + 2, i + 1]
            IN UpTo(IF pos > Len(buf) THEN 0 ELSE ElementEnd(buf, pos, what, i, table))
    IN IF buf = <<>> THEN <<>> ELSE From[1, 1]
Unread(parts) == \E i \in DOMAIN parts : parts[i] = NoPart

NoTable == <<>>
SplitElements(buf, what, table) ==
    LET OrShortest(parts) == IF Unread(parts) THEN SplitExact(buf, what, NoTable) ELSE parts
    IN OrShortest(SplitExact(buf, what, table))

(* Every part parsed as its kind, a null as itself, or nothing at all; a   *)
(* path has no null and one vertex more than edges.                        *)
Failed == <<NoElement>>
Parsed(parts, what) ==
    LET Whole(found) == IF \E i \in DOMAIN found : found[i] = NoElement THEN Failed ELSE found
    IN IF Unread(parts) THEN Failed
       ELSE Whole([i \in DOMAIN parts |-> IF parts[i] = <<"NULL">> THEN Null
                                          ELSE Parse(parts[i], KindAt(what, i))])
IsPath(parts) == parts = <<>> \/ (Len(parts) % 2 = 1 /\ \A i \in DOMAIN parts : parts[i] # <<"NULL">>)
ParsedAs(parts, what) ==
    IF what = "path" /\ ~IsPath(parts) THEN Failed ELSE Parsed(parts, what)
AllAccounted(found, table) ==
    found # Failed /\ \A i \in DOMAIN found : found[i] = Null \/ Accounted(found[i], table)

(* _array_from_text and path_from_text: the shortest reading, and where    *)
(* the table does not account for it, the one it prefers if that does.     *)
ShortestAlone(buf, what, table) == ParsedAs(SplitElements(buf, what, NoTable), what)
FromText(buf, what, table) ==
    LET Better(found, other) ==
            IF table # NoTable /\ ~AllAccounted(found, table) /\ AllAccounted(other, table)
            THEN other ELSE found
    IN Better(ParsedAs(SplitElements(buf, what, NoTable), what),
              ParsedAs(SplitElements(buf, what, table), what))
PathFromText(buf, table) == FromText(buf, "path", table)
ListFromText(buf, what, table) == FromText(buf, what, table)

(* The server's rendering of a list under the graph's labels.              *)
Rendered(list, names) ==
    LET One(e) == IF e.kind = "null" THEN <<"NULL">>
                  ELSE names[e.labid] \o <<e.labid>> \o (IF e.kind = "edge" THEN <<"ends">> ELSE <<>>) \o e.props
        From[i \in 0..Len(list)] ==
            IF i = 0 THEN <<>> ELSE From[i - 1] \o (IF i = 1 THEN <<>> ELSE <<",">>) \o One(list[i])
    IN From[Len(list)]
===============================================================================
