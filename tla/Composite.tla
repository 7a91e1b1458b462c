------------------------------ MODULE Composite ------------------------------
(***************************************************************************)
(* The composite renderings, which put lengths before what they hold: a     *)
(* vertex or an edge read in one unpack, or a column at a time where its    *)
(* shape is not the expected one, and arrays and paths of them.            *)
(*                                                                         *)
(* A value is a sequence of words.  As a length a word counts words, -1    *)
(* for a null; an identity is two words, a property map one for its        *)
(* version and the rest for its text.                                      *)
(***************************************************************************)
EXTENDS Integers, Sequences

CONSTANTS WordBits, LocBits,    \* 32 and 48 in the code
          Labels                \* the label ids the table knows

GraphidOid == 70
JsonbOid == 38
TidOid == 27
IdSize == 2
TidSize == 2
Version == 1
Slice(buf, start, size) == SubSeq(buf, start, start + size - 1)

(* A packed identity and its two parts.                                    *)
Packed(id) == id.labid * 2 ^ LocBits + id.locid
FromPacked(n) == [labid |-> n \div 2 ^ LocBits, locid |-> n % 2 ^ LocBits]
IdIn(words) == FromPacked(words[1] * 2 ^ WordBits + words[2])
WordsOf(id) == <<Packed(id) \div 2 ^ WordBits, Packed(id) % 2 ^ WordBits>>

(* What is read, or that it was refused, or of a label unknown.            *)
Value(ids, props) == [as |-> "element", ids |-> ids, props |-> props]
Refusal == [as |-> "refused", ids |-> <<>>, props |-> <<>>]
Stale == [as |-> "stale", ids |-> <<>>, props |-> <<>>]
Null == [as |-> "null", ids |-> <<>>, props |-> <<>>]
Failed(r) == r.as \in {"refused", "stale"}

(* The runs of a record or an array: [oid, data], where a record gives an   *)
(* oid with each.  What lies beyond them is not looked at.                 *)
Run(oid, data) == [data |-> data, null |-> FALSE, oid |-> oid]
NullRun(oid) == [data |-> <<>>, null |-> TRUE, oid |-> oid]
Broken == <<NullRun(-9)>>
Runs(buf, count, start, header) ==
    LET At[n \in 0..99, pos \in 1..99] ==
            LET oid == IF header = 2 THEN buf[pos] ELSE 0
                size == buf[pos + header - 1]
                next == pos + header + IF size = -1 THEN 0 ELSE size
                rest == At[n - 1, next]
            IN IF n = 0 THEN <<>>
               ELSE IF pos + header - 1 > Len(buf) THEN Broken
               ELSE IF size < -1 \/ next > Len(buf) + 1 THEN Broken
               ELSE IF rest = Broken THEN Broken
               ELSE <<IF size = -1 THEN NullRun(oid) ELSE Run(oid, Slice(buf, pos + header, size))>> \o rest
    IN At[count, start]
DecodeRecord(buf) == IF buf = <<>> \/ buf[1] < 0 THEN Broken ELSE Runs(buf, buf[1], 2, 2)
DecodeArray(buf) ==
    IF Len(buf) < 3 THEN Broken
    ELSE IF buf[1] = 0 THEN <<>>
    ELSE IF buf[1] # 1 \/ Len(buf) < 5 \/ buf[4] < 0 THEN Broken
    ELSE Runs(buf, buf[4], 6, 1)

-----------------------------------------------------------------------------
IsId(run) == run.oid = GraphidOid /\ ~run.null /\ Len(run.data) = IdSize
IsMap(run) == run.oid = JsonbOid /\ ~run.null /\ run.data # <<>> /\ run.data[1] = Version
Resolved(value) == IF value.ids[1].labid \in Labels THEN value ELSE Stale

(* ids is how many identities come before the map: 1 or 3.                 *)
ColumnByColumn(buf, ids) ==
    LET fields == DecodeRecord(buf)
    IN IF fields = Broken \/ Len(fields) < ids + 1 THEN Refusal
       ELSE IF ~(\A i \in 1..ids : IsId(fields[i])) \/ ~IsMap(fields[ids + 1]) THEN Refusal
       ELSE Resolved(Value([i \in 1..ids |-> IdIn(fields[i].data)], Tail(fields[ids + 1].data)))

(* vertex_from_binary and edge_from_binary.                                *)
Head_(ids) == 3 + 4 * ids
Expected(buf, ids) ==
    /\ Len(buf) >= Head_(ids) /\ buf[1] = ids + 2
    /\ \A i \in 1..ids : buf[4 * i - 2] = GraphidOid /\ buf[4 * i - 1] = IdSize
    /\ buf[4 * ids + 2] = JsonbOid
ExpectedHead(buf, ids) == Expected(buf, ids)
ExpectedShape(buf, ids) ==
    Expected(buf, ids) /\ Len(buf) = Head_(ids) + buf[Head_(ids)] + 2 + TidSize
FromBinary(buf, ids) ==
    LET size == buf[Head_(ids)]
        start == Head_(ids) + 1
    IN IF ~ExpectedShape(buf, ids) THEN ColumnByColumn(buf, ids)
       ELSE IF IdIn(Slice(buf, 4, IdSize)).labid \notin Labels THEN Stale
       ELSE IF size < 1 \/ start + size - 1 > Len(buf) THEN Refusal
       ELSE IF buf[start] # Version THEN Refusal
       ELSE Value([i \in 1..ids |-> IdIn(Slice(buf, 4 * i, IdSize))], Slice(buf, start + 1, size - 1))

(* vertices_from_binary; and path_from_binary, which takes no null and one  *)
(* more vertex than edges.                                                 *)
OneRefused == <<Refusal>>
ListFromBinary(buf, ids, nulls) ==
    LET runs == DecodeArray(buf)
        read == [i \in DOMAIN runs |-> IF runs[i].null THEN IF nulls THEN Null ELSE Refusal
                                       ELSE FromBinary(runs[i].data, ids)]
    IN IF runs = Broken \/ \E i \in DOMAIN read : Failed(read[i]) THEN OneRefused ELSE read
PathFromBinary(buf) ==
    LET fields == DecodeRecord(buf)
        vertices == ListFromBinary(fields[1].data, 1, FALSE)
        edges == ListFromBinary(fields[2].data, 3, FALSE)
    IN IF fields = Broken \/ Len(fields) < 2 THEN OneRefused
       ELSE IF fields[1].null \/ fields[2].null \/ OneRefused \in {vertices, edges} THEN OneRefused
       ELSE IF Len(vertices) # Len(edges) + 1 /\ (vertices # <<>> \/ edges # <<>>) THEN OneRefused
       ELSE vertices \o edges

-----------------------------------------------------------------------------
(* What the server sends.                                                  *)
Column(oid, data) == <<oid, Len(data)>> \o data
Sent(value) ==
    LET n == Len(value.ids)
        Ids[i \in 0..n] == IF i = 0 THEN <<>> ELSE Ids[i - 1] \o Column(GraphidOid, WordsOf(value.ids[i]))
    IN <<n + 2>> \o Ids[n] \o Column(JsonbOid, <<Version>> \o value.props) \o Column(TidOid, <<0, 1>>)
SentArray(values) ==
    LET All[i \in 0..Len(values)] ==
            IF i = 0 THEN <<>>
            ELSE All[i - 1] \o IF values[i] = Null THEN <<-1>>
                               ELSE <<Len(Sent(values[i]))>> \o Sent(values[i])
    IN IF values = <<>> THEN <<0, 0, 99>> ELSE <<1, 0, 99, Len(values), 1>> \o All[Len(values)]
SentPath(vertices, edges) ==
    <<2>> \o Column(99, SentArray(vertices)) \o Column(99, SentArray(edges))
===============================================================================
