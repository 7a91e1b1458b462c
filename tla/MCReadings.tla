------------------------------- MODULE MCReadings ------------------------------
(***************************************************************************)
(* What is read and written without a connection, over inputs grown by one  *)
(* part at a time: texts, names and statements (MCText); what the server    *)
(* sent, as text and in bytes; rows exported in chunks; vectors; and a     *)
(* budget spent a statement at a time.                                     *)
(***************************************************************************)
EXTENDS Integers, MCText, Deadline

CONSTANTS WordBits, LocBits, Labels, ByteBits

D == INSTANCE Decoding
C == INSTANCE Composite
X == INSTANCE Columnar
V == INSTANCE Vectors
I == INSTANCE IndexText

vars == <<what, setting, given, spending>>

-----------------------------------------------------------------------------
(* Lists and paths the server renders as text, under the names two labels  *)
(* may have.                                                               *)
LabelNames == {<<"v">>, <<"[", "v">>, <<"NULL", ",", "v">>, <<"v", "[1]", "{}", ",", "w">>,
               <<"v", "[2]", "{s">>, <<"v", "[1]", "ends", "{}", ",", "v">>}
Maps == {<<"{}">>, <<"{s", "[1]", "{}", ",", "s}">>}
ListSettings ==
    [of : {"vertices", "edges", "path"},
     table : {t \in [{"[1]", "[2]"} -> LabelNames] : t["[1]"] # t["[2]"]}]
ListItems ==
    {D!Null} \cup {D!Element(D!KindAt(setting.of, Len(given) + 1), l, setting.table[l], p) :
                       l \in {"[1]", "[2]"}, p \in Maps}
GrowList == what = "list" /\ Grows(3, ListItems)

(* Values the server sends in bytes, and what may happen to the bytes.     *)
Id(label, n) == [labid |-> label, locid |-> n]
Vertex(label) == C!Value(<<Id(label, 1)>>, <<7>>)
Edge(label) == C!Value(<<Id(label, 2), Id(1, 1), Id(1, 33)>>, <<>>)
ByteSettings ==
    {[ids |-> ids, shape |-> "one", values |-> <<IF ids = 1 THEN Vertex(l) ELSE Edge(l)>>] :
         ids \in {1, 3}, l \in {1, 3}}
      \cup {[ids |-> 1, shape |-> "list", values |-> s] :
              s \in {<<>>, <<Vertex(1)>>, <<Vertex(1), C!Null, Vertex(1)>>}}
      \cup {[ids |-> 1, shape |-> "path", values |-> s] :
              s \in {<<>>, <<Vertex(1)>>, <<Vertex(1), Vertex(1), Edge(1)>>}}
SentBytes ==
    LET OfKind(n) == SelectSeq(setting.values, LAMBDA v : Len(v.ids) = n)
    IN CASE setting.shape = "one" -> C!Sent(setting.values[1])
         [] setting.shape = "list" -> C!SentArray(setting.values)
         [] OTHER -> C!SentPath(OfKind(1), OfKind(3))
Faults ==
    LET n == Len(SentBytes)
    IN [at : 1..n, how : {"word"}, word : {-2, -1, 0, 1, 2, 5, 27, 38, 70}]
         \cup [at : 1..n, how : {"cut"}, word : {0}] \cup [at : {0}, how : {"more"}, word : {0}]
Damage == what = "bytes" /\ Grows(IF setting.shape = "one" /\ setting.ids = 1 THEN 2 ELSE 1, Faults)
Arrived ==
    LET After[i \in 0..Len(given)] ==
            LET buf == After[i - 1]
                f == given[i]
            IN IF i = 0 THEN SentBytes
               ELSE CASE f.how = "word" /\ f.at \in DOMAIN buf -> [buf EXCEPT ![f.at] = f.word]
                      [] f.how = "cut" /\ f.at \in DOMAIN buf -> SubSeq(buf, 1, f.at - 1)
                      [] f.how # "more" -> buf
                      [] OTHER -> Append(buf, f.word)
    IN After[Len(given)]

(* Rows to export: a column of scalars, of graph values of one kind or     *)
(* more, of vectors, with what does not belong among them; or of rows that  *)
(* are not all as wide.  A column is laid out in every way it can be.      *)
ScalarValues ==
    {X!Value("int", <<"2">>), X!Value("float", <<"2">>), X!Value("float", <<"2.5">>), X!Value("bool", <<"T">>),
     X!Value("str", <<"w">>), X!Value("str", <<"2">>), X!Value("int", <<"huge">>), X!Value("map", <<"{}">>)}
Two == X!Value("int", <<"2">>)
AVertex(l) == X!Value("vertex", <<"1.1", l, "{s}">>)
AnEdge == X!Value("edge", <<"2.1", "e", "1.1", "1.2", "{}">>)
AnId(n) == X!Value("graphid", <<n>>)
Numbered(n) == X!Value("vector", [i \in 1..n |-> X!Cell(IF i = 1 THEN "a" ELSE "b")])
AList(members) == X!Value("list", members)
APath(vertices, edges) == X!Value("path", <<AList(vertices), AList(edges)>>)
OneHop == APath(<<AVertex("v"), AVertex("w")>>, <<AnEdge>>)
ElementFields == {"elements", "identity", "properties"}
Export(oid, reads, values) == [oid |-> oid, reads |-> reads, values |-> values]
Exports ==
    {Export("", {}, ScalarValues),
     Export("", ElementFields, {AVertex("v"), AnEdge, AnId("1.1"), Two}),
     Export("vertex", ElementFields, {AVertex("v"), AVertex("w"), AnEdge}),
     Export("edge", ElementFields, {AnEdge, AVertex("v")}),
     Export("", ElementFields, {AList(<<AVertex("v"), AVertex("w")>>), AList(<<AnEdge, AVertex("w")>>), OneHop}),
     Export("vertex[]", ElementFields, {AList(<<>>), AList(<<AVertex("v"), X!Null, AnEdge>>), OneHop, Two}),
     Export("graphpath", ElementFields, {APath(<<>>, <<>>), APath(<<AVertex("v")>>, <<>>), OneHop}),
     Export("", {"vectors"}, {Numbered(0), Numbered(1), Numbered(2), Two, X!Value("int", <<"huge">>)}),
     Export("graphid", {"identity"}, {AnId("1.1"), AnId("1.2"), AVertex("v")}),
     Export("graphid[]", {"identity"}, {AList(<<AnId("1.1"), X!Null>>), AList(<<AnId("1.2")>>), AList(<<X!Null, Two>>)}),
     Export("", {"sparse"}, {X!Sparse(2, <<>>, <<>>), X!Sparse(2, <<X!Cell(2)>>, <<X!Cell("a")>>),
                             X!Sparse(3, <<X!Cell(1), X!Cell(3)>>, <<X!Cell("a"), X!Cell("b")>>)})}
DefaultLayout ==
    [elements |-> "struct", identity |-> "packed", properties |-> "json", sparse |-> "parts", vectors |-> "fixed"]
LayoutsOf(export) ==
    {l \in [elements : {"struct", "columns"}, identity : {"packed", "text"}, properties : {"json", "skip"},
            sparse : {"parts", "dense"}, vectors : {"fixed", "list"}] :
        \A f \in DOMAIN l \ export.reads : l[f] = DefaultLayout[f]}
ExportSettings == UNION {[export : {e}, layout : LayoutsOf(e), size : 0..2] : e \in Exports}
RowItems ==
    {<<v>> : v \in setting.export.values \cup IF setting.layout.elements = "columns" THEN {} ELSE {X!Null}}
      \cup IF setting.export.oid = "edge" THEN {<<AnEdge, AnEdge>>} ELSE {}
GrowRows == what = "rows" /\ Grows(3, RowItems)

(* Numbers of a dense vector, entries of a sparse one, bits.               *)
Widths == {"0", "h", "s", "d", "tiny", "big", "inf"}
VectorSettings == [of : {"dense"}, size : {0}] \cup [of : {"sparse"}, size : 0..2] \cup [of : {"bits"}, size : {0}]
VectorItems ==
    CASE setting.of = "dense" -> Widths
      [] setting.of = "sparse" -> {<<i, n>> : i \in -1..2, n \in Widths}
      [] OTHER -> {0, 1}
GrowVector == what = "vector" /\ Grows(IF setting.of = "bits" THEN 7 ELSE 3, VectorItems)

(* Budgets of no length, of next to none, and to either side of the gaps.   *)
BudgetLengths == {NoBudget, 1, 4, 700, 3000}

(* Indexes, a key at a time: what a desired index can say, under names of  *)
(* every sort, and what it cannot; made as asked or with more to them.     *)
IndexSettings ==
    {[method |-> <<"btree">>, name |-> <<"w">>, tail |-> <<>>], [method |-> <<"ops">>, name |-> <<"w", " ", "(">>, tail |-> <<>>],
     [method |-> <<"btree">>, name |-> <<"w", " ", "USING", " ", "W">>, tail |-> <<>>],
     [method |-> <<"btree">>, name |-> <<"w">>, tail |-> <<" ", "WITH", " ", "(", "w", ")">>],
     [method |-> <<"btree">>, name |-> <<"w">>, tail |-> <<" ", "INCLUDE", " ", "(", "w", ")">>],
     [method |-> <<"btree">>, name |-> <<"w">>, tail |-> <<" ", "WHERE", " ", "(", "w", ")">>]}
PropertyNames ==
    {<<"w">>, <<"W">>, <<"desc">>, <<"start">>, <<"w", ",", " ", "w">>, <<"w", " ", "desc">>, <<"Q", "w">>, <<"Q">>,
     <<"(", "w", ")">>, <<"w", ")">>, <<"(", "w">>, <<"w", "::", "w">>}
Types == {<<"vector", "(", "1", ")">>, <<"integer">>}
Other(printed) == [as |-> "other", printed |-> printed, element |-> I!NoElement]
Asked(p, c, d, n, t) == [as |-> "asked", printed |-> <<>>, element |-> I!IndexElement(p, c, d, n, t)]
FirstKeys ==
    {Asked(p, c, d, n, t) : p \in PropertyNames, c \in {I!Absent, <<"ops">>}, d \in BOOLEAN,
                            n \in {"", "first", "last"}, t \in {I!Absent} \cup Types}
      \cup {Other(p) : p \in {<<"lower", "(", "w", ")">>, <<"w", ".", "w">>, <<"w", " ", "COLLATE", " ", "Q", "W", "Q">>,
                             <<"w", " ", "COLLATE", " ", "Q", "W", "Q", " ", "ops">>,
                             <<"(", "(", "w", ")", " ", "+", " ", "(", "w", ")", ")">>,
                             <<"(", "(", "w", ")", "::", "integer", " ", "+", " ", "1", ")">>,
                             <<"(", "(", "(", "w", ")", "::", "text", ")", "::", "integer", ")">>}}
SecondKeys ==
    {Asked(<<"desc">>, c, TRUE, "", I!Absent) : c \in {I!Absent, <<"ops">>}}
      \cup {Asked(<<"w", ")">>, I!Absent, FALSE, "first", I!Absent), Other(<<"lower", "(", "w", ",", " ", "W", ")">>)}
GrowIndex == what = "index" /\ Grows(2, IF given = <<>> THEN FirstKeys ELSE SecondKeys)

-----------------------------------------------------------------------------
Init ==
    /\ given = <<>>
    /\ \/ TextInit
       \/ what = "list" /\ setting \in ListSettings
       \/ what = "bytes" /\ setting \in ByteSettings
       \/ what = "rows" /\ setting \in ExportSettings
       \/ what = "vector" /\ setting \in VectorSettings
       \/ what = "budget" /\ setting = {}
       \/ what = "index" /\ setting \in IndexSettings
    /\ IF what = "budget" THEN BudgetInit
       ELSE budget = Deadline(NoBudget, 0, 0) /\ clock = 0 /\ limit = 0
Next ==
    /\ \/ /\ GrowText \/ GrowName \/ Continue \/ GrowList \/ Damage \/ GrowRows \/ GrowVector \/ GrowIndex
          /\ UNCHANGED spending
       \/ what = "budget" /\ Spend /\ UNCHANGED given
    /\ UNCHANGED <<what, setting>>
Spec == Init /\ [][Next]_vars

-----------------------------------------------------------------------------
(* Properties.                                                             *)

(* A list or a path read from text is the one the server rendered, where    *)
(* no name of a label begins as a rendering of another element of the      *)
(* graph; and without the table, where no name holds what separates.       *)
ListComesBack ==
    what = "list" /\ (setting.of = "path" => D!IsPath([i \in DOMAIN given |-> D!Rendered(<<given[i]>>, setting.table)])) =>
        LET table == setting.table
            sent == D!Rendered(given, table)
            Apart ==
                \A l \in DOMAIN table, before \in {<<>>, <<"NULL", ",">>} :
                    LET name == before \o table[l]
                    IN \A p \in DOMAIN name, kind \in {"vertex", "edge"} :
                         D!SymAt(name, p + 1) = "," => ~D!Accounted(D!Parse(D!Part(name, 1, p), kind), table)
            Plainly == \A l \in DOMAIN table : \A i \in DOMAIN table[l] : table[l][i] \notin D!Ids \cup {","}
            Read(names) == IF setting.of = "path" THEN D!PathFromText(sent, names)
                           ELSE D!ListFromText(sent, setting.of, names)
        IN /\ Apart => Read(table) = given
           /\ Plainly => Read(D!NoTable) = given

(* A value read from bytes in one unpack is what reading a column at a time *)
(* makes of its first columns; what was cut short is refused; what arrived  *)
(* whole is what was sent, or of a label the table does not know; and      *)
(* identities pack in their order.                                         *)
BytesReadWhole ==
    what = "bytes" =>
        LET buf == Arrived
            ids == setting.ids
            one == C!FromBinary(buf, ids)
            slow == C!ColumnByColumn(buf, ids)
            read == CASE setting.shape = "one" -> <<one>>
                      [] setting.shape = "list" -> C!ListFromBinary(buf, 1, TRUE)
                      [] OTHER -> C!PathFromBinary(buf)
        IN /\ given = <<>> => read = IF \E i \in DOMAIN setting.values :
                                           setting.values[i] # C!Null /\ setting.values[i].ids[1].labid \notin Labels
                                     THEN <<C!Stale>> ELSE setting.values
           /\ Len(given) = 1 /\ given[1].how = "cut" => read = C!OneRefused
           /\ setting.shape = "one" =>
                /\ slow # C!Refusal => one = slow
                /\ one.as = "element" => one = C!ColumnByColumn([buf EXCEPT ![1] = ids + 1], ids)
           /\ \A i \in DOMAIN setting.values : \A id, other \in {setting.values[i].ids[n] : n \in DOMAIN setting.values[i].ids} :
                 /\ C!FromPacked(C!Packed(id)) = id
                 /\ C!Packed(id) < C!Packed(other) <=>
                        id.labid < other.labid \/ (id.labid = other.labid /\ id.locid < other.locid)

(* What a value is to come out as, a column at a time, where the column's  *)
(* builder takes it.                                                       *)
Told(v, builder) ==
    LET settled == builder.of
        apart == setting.layout.elements = "columns"
        Parts(e, kind) == LET names == X!ElementParts(kind, setting.layout)
                          IN [p \in DOMAIN names |-> X!Cell(X!Field(e, names[p]))]
        One(e, kind) == IF e = X!Null THEN e ELSE X!Value("struct", Parts(e, kind))
        Members(row, kind) == LET held == X!Iterated(row) IN AList([i \in DOMAIN held |-> One(held[i], kind)])
        Written(row) == LET held == X!Iterated(row) IN AList([i \in DOMAIN held |-> X!TextOf(held[i])])
        Sides == <<Members(v.held[1], "vertex"), Members(v.held[2], "edge")>>
        dense == X!DenseOf(v, v.held[1].held[1].held[1]).held
    IN IF v = X!Null THEN <<X!Null>>
       ELSE CASE builder.how = "elements" -> IF apart THEN Parts(v, settled) ELSE <<One(v, settled)>>
              [] builder.how = "lists" -> <<Members(v, settled)>>
              [] builder.how = "paths" -> IF apart THEN Sides ELSE <<X!Value("struct", Sides)>>
              [] builder.how = "ids" -> <<X!TextOf(v)>>
              [] builder.how = "idlists" -> <<Written(v)>>
              [] builder.how = "sparse" ->
                   <<IF setting.layout.sparse = "parts" THEN X!Value("struct", v.held) ELSE AList(dense)>>
              [] builder.how = "vectors" -> <<AList(IF v.as = "vector" THEN v.held ELSE <<>>)>>
              [] settled = "bool" -> <<X!Cell("T")>>
              [] settled \in {"int64", "double"} /\ v.as = "bool" -> <<X!Cell("1")>>
              [] OTHER -> <<X!TextOf(v)>>
IsRefused(arrays) == \E c \in DOMAIN arrays : arrays[c].as = "refused"

(* An export in chunks holds the rows it was given, in order and each value *)
(* and null in its place, or refuses a chunk; it refuses none that the      *)
(* type of the first chunk holds; and what is loaded from it is what was   *)
(* in it.  (Elements in columns of their own: where no row is null.)       *)
(* Except that the code checks no kind: an edge among vertices comes out    *)
(* as a vertex, without its ends, alone or in a list; an identity written   *)
(* as text is the text of any value; a number among listed vectors is a     *)
(* vector of no numbers; and a column of numbers makes a truth 1, one of    *)
(* truths a number true.                                                   *)
ExportedAsGiven ==
    what = "rows" =>
        LET size == setting.size
            chunks == X!Chunks(given, size)
            batches == X!Batches(given, size, setting.export.oid, setting.layout)
            values == X!Transpose(given)
            first == X!Transpose(chunks[1])
            kinds == X!Kinds(values)
            builder == X!ColumnFor(setting.export.oid, first)
            refusesNone == \A n \in DOMAIN batches : ~IsRefused(batches[n])
        IN /\ X!FlattenSeq(chunks) = given /\ chunks # <<>> /\ X!AsyncChunks(given, size) = chunks
           /\ \A n \in DOMAIN chunks :
                /\ size # 0 => Len(chunks[n]) <= size
                /\ X!Ragged(chunks[n]) => IsRefused(batches[n])
                /\ IsRefused(batches[n]) \/
                     \A c \in DOMAIN batches[n] :
                        X!Read(batches[n][c]) = [i \in DOMAIN chunks[n] |-> Told(chunks[n][i][1], builder)[c]]
           /\ builder.how = "inferred" /\ X!Infer(first) = X!Infer(values) => refusesNone
           /\ builder.how = "elements" /\ kinds = {builder.of} /\ ~X!Ragged(given) => refusesNone
           /\ LET plain == X!Columns(values)
              IN IF plain = <<X!Value("refused", <<>>)>> THEN kinds # {X!First(values).as}
                 ELSE /\ Len(plain) = Len(values)
                      /\ \A i \in DOMAIN values : values[i] = X!Null <=> plain[i] = X!Null
           /\ kinds = {"edge"} /\ builder.of = "edge" /\ ~X!Ragged(given) /\ setting.layout.elements = "columns"
                    /\ setting.layout.properties = "json" /\ size # 0 =>
                LET Column(c) == X!FlattenSeq([n \in DOMAIN batches |-> X!Read(batches[n][c])])
                IN X!FlattenSeq(X!EdgePayloads(Column(3), Column(4), Column(5), size)) =
                     [i \in DOMAIN values |-> [f \in 1..3 |-> X!Cell(values[i].held[f + 2])]]

DenseComesBack ==
    LET sent == V!OfNumbers(given, FALSE)
        kept == [i \in DOMAIN given |-> V!Singly(given[i])]
        halves == [i \in DOMAIN given |-> V!Halved(kept[i])]
        back == V!FromWire(V!ToBytes(sent))
        written == V!FromWireText(V!VectorText(V!Values(sent)), FALSE)
        fits == "big" \notin V!ToSet(given)
        finite == "inf" \notin V!ToSet(given)
    IN /\ V!Values(back) = kept /\ V!Length(back) = Len(given) /\ V!ToBytes(back) = V!ToBytes(sent)
       /\ V!Values(written) = IF finite THEN kept ELSE V!Nothing
       /\ finite => V!Length(written) = Len(given) /\ V!ToBytes(written) = V!ToBytes(sent)
       /\ fits => V!Values(V!HalfLoaded(V!HalfBytes(sent))) = halves
       /\ fits /\ finite => V!Values(V!FromWireText(V!VectorText(kept), TRUE)) = halves
       /\ given # <<>> /\ finite => V!ToDense(V!FromDense(given)) = given
SparseComesBack ==
    LET sparse == V!SparseVector(given, setting.size)
        small == V!InSingle(V!ToDense(sparse))
        byText == V!StoredFromText(V!ToText(sparse))
        byBytes == V!StoredFromBytes(V!SparseBytes(sparse))
    IN sparse # V!Unfit =>
         /\ \A i \in 1..setting.size : V!ToDense(sparse)[i] # "0" => <<i - 1, V!ToDense(sparse)[i]>> \in V!ToSet(given)
         /\ \A e \in V!ToSet(given) : e[2] # "0" => V!ToDense(sparse)[e[1] + 1] = e[2]
         /\ \A stored \in {byText, byBytes} \ {V!Unfit} :
               /\ V!FromText(V!ToText(stored)) = stored /\ V!FromBytes(V!SparseBytes(stored)) = stored
               /\ V!ToDense(stored) = small

(* A vector that is sent, in text or in bytes, and read back in either is   *)
(* the one it was, at the width it is kept in; and so are bits.  Except     *)
(* that the text of a vector with an infinity in it is refused by the      *)
(* driver that wrote it: the encoder writes null there.                    *)
VectorsComeBack ==
    what = "vector" =>
        CASE setting.of = "dense" -> DenseComesBack
          [] setting.of = "sparse" -> SparseComesBack
          [] OTHER -> V!BitsFromBytes(V!BitsToBytes(given), Len(given)) = given

(* An index that was asked for is found in what the catalog prints of it,   *)
(* so that ensure_indexes has nothing to do a second time, and nothing else *)
(* is taken for it; it was written so that the server makes what was asked, *)
(* and it is not unique over what is not an edge's ends.                   *)
(* Except under a name that holds a parenthesis or a cast's colons, or an   *)
(* index called " USING ".                                                 *)
IndexFoundAgain ==
    what = "index" /\ given # <<>> =>
        LET means == [i \in DOMAIN given |-> IF given[i].as = "other" THEN I!NoElement ELSE I!Resolved(given[i].element)]
            keys == [i \in DOMAIN given |-> IF given[i].as = "other" THEN given[i].printed ELSE I!Printed(means[i])]
            definition == I!Definition(setting.name, setting.method, keys, setting.tail)
            read == I!IndexElements(definition)
            describable == I!NoElement \notin V!ToSet(means) /\ setting.tail \in {<<>>, <<" ", "WITH", " ", "(", "w", ")">>}
            plainly == /\ "USING" \notin V!ToSet(setting.name)
                       /\ \A i \in DOMAIN means : V!ToSet(means[i].property) \cap {"(", ")", "::"} = {}
            Wanted(unique, where) ==
                [elements |-> [i \in DOMAIN given |-> given[i].element], label |-> <<"w">>, method |-> setting.method,
                 name |-> setting.name, unique |-> unique, where |-> where]
        IN /\ plainly /\ read # <<>> => describable /\ read = means
           /\ plainly /\ describable => read = I!Key(Wanted(FALSE, I!Absent)).elements /\ I!IndexMethod(definition) = setting.method
           /\ \A i \in DOMAIN given : given[i].as = "asked" => I!Rendered(given[i].element) \in I!Spelled(means[i])
           /\ I!NoElement \notin V!ToSet(means) =>
                \A unique \in BOOLEAN, where \in {I!Absent, <<"w">>} :
                    LET made == I!CreateIndexStatement(Wanted(unique, where), FALSE)
                    IN made = I!Absent <=> unique /\ \E i \in DOMAIN means : means[i].property = <<"start">>
===============================================================================
