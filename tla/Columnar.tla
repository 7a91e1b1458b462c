------------------------------- MODULE Columnar -------------------------------
(***************************************************************************)
(* Rows handed to Arrow a chunk and a column at a time (columnar.py): how a *)
(* column's builder is chosen, what buffers it fills, how a later chunk is *)
(* held to the first; and Arrow columns taken back into a load.            *)
(*                                                                         *)
(* A value is its kind and the parts it has: a scalar one symbol, which is *)
(* its value however it is typed ("2" of 2, 2.0 and '2'); a vertex or an   *)
(* edge its fields, each a scalar; a list, a path or a vector its members.  *)
(* Nothing checks the kind of a value: a builder takes whatever has the    *)
(* attributes it reads, and what has not is refused by Python.             *)
(***************************************************************************)
EXTENDS Integers, Sequences, SequencesExt

Value(kind, held) == [as |-> kind, held |-> held]
Null == Value("null", <<>>)
Cell(symbol) == Value("cell", <<symbol>>)
TextOf(v) == IF v = Null THEN Null ELSE Value("cell", v.held)   \* str(value), of whatever it is
Nulls(values) == {i \in DOMAIN values : values[i] = Null}
First(values) ==
    LET some == SelectSeq(values, LAMBDA v : v # Null) IN IF some = <<>> THEN Null ELSE some[1]

(* An Arrow array: what lies in its buffers, and which slots are valid.     *)
Array(kind, valid) ==
    [as |-> kind, child |-> <<>>, data |-> <<>>, fields |-> <<>>, offsets |-> <<>>, valid |-> valid, width |-> 0]
Validity(values) == [i \in DOMAIN values |-> values[i] # Null]
AllValid(values) == [i \in DOMAIN values |-> TRUE]
Refused == Array("refused", <<>>)
PyArray(values) == [Array("cells", Validity(values)) EXCEPT !.data = values]

-----------------------------------------------------------------------------
(* _Inferred: the type Arrow gives a list of scalars, and its exact cast.   *)
Kinds(values) == {values[i].as : i \in DOMAIN values} \ {"null"}
Infer(values) ==
    LET kinds == Kinds(values)
    IN CASE kinds = {} -> "null"
         [] kinds = {"str"} -> "string"
         [] \E i \in DOMAIN values : values[i].as = "int" /\ values[i].held = <<"huge">> -> "untyped"
         [] kinds = {"int"} -> "int64"
         [] kinds = {"bool"} -> "bool"
         [] kinds \in {{"float"}, {"float", "int"}} -> "double"
         [] kinds = {"map"} -> "struct"
         [] OTHER -> "untyped"
Whole == {"2", "3", "huge"}
Numbers == Whole \cup {"2.5"}
CastTo(type, symbol, from) ==
    \/ type = from
    \/ type = "string" /\ from # "struct"
    \/ type = "double" /\ from \in {"int64", "string"} /\ symbol \in Numbers
    \/ type = "int64" /\ from \in {"double", "string"} /\ symbol \in Whole \ {"huge"}
    \/ {type, from} \subseteq {"bool", "int64", "double"} /\ "bool" \in {type, from}
Casts(type, values) ==
    \A i \in DOMAIN values : values[i] = Null \/ CastTo(type, values[i].held[1], Infer(values))
(* A truth cast to a number is 1; a number, none of them 0, to a truth: T. *)
CastOf(type, v, from) ==
    CASE type = "bool" /\ from \in {"int64", "double"} -> Cell("T")
      [] type \in {"int64", "double"} /\ from = "bool" -> Cell("1")
      [] OTHER -> TextOf(v)
Written(values) == PyArray([i \in DOMAIN values |-> TextOf(values[i])])
CastArray(type, values) ==
    PyArray([i \in DOMAIN values |-> IF values[i] = Null THEN Null ELSE CastOf(type, values[i], Infer(values))])

(* A later chunk is inferred again and cast to the type the first settled,  *)
(* or written as text where the first fell back to it.  (Built straight    *)
(* into that type, 2.5 would be 2 in a column of whole numbers.)           *)
BuiltAsSettled(settled, values) ==
    LET Truncated(v) == IF settled = "int64" /\ v.as = "float" /\ v.held = <<"2.5">> THEN Cell("2") ELSE v
        Alike == {settled, Infer(values)} \subseteq {"int64", "double"}
    IN IF settled # "untyped" /\ Infer(values) \notin {"null", settled} /\ ~Alike THEN Refused
       ELSE Written([i \in DOMAIN values |-> Truncated(values[i])])
BuildInferred(settled, values) ==
    IF settled = "untyped" THEN Written(values)
    ELSE IF Infer(values) = "untyped" \/ ~Casts(settled, values) THEN Refused
    ELSE CastArray(settled, values)

-----------------------------------------------------------------------------
(* Identities: packed, where a null slot holds a zero, or as the text of    *)
(* whatever is there: only packing asks a value for what an identity has.  *)
PackedArray(packed, valid) ==
    [Array("cells", valid) EXCEPT !.data = [i \in DOMAIN packed |-> Cell(packed[i])]]
IdentityArray(values, text) ==
    IF text THEN Written(values)
    ELSE IF ~(Kinds(values) \subseteq {"graphid"}) THEN Refused
    ELSE PackedArray([i \in DOMAIN values |-> IF values[i] = Null THEN "0.0" ELSE values[i].held[1]], Validity(values))
BuildIdentities(values, layout) == IdentityArray(values, layout.identity = "text")

(* Elements: an array for each field, a null slot filled with a blank; in  *)
(* a list, one flat array and where each row of it ends.  The fields read   *)
(* are those of the column's kind: an edge has all that a vertex has.      *)
AllParts(kind) ==
    IF kind = "edge" THEN <<"id", "label", "start", "end", "properties">> ELSE <<"id", "label", "properties">>
ElementParts(kind, layout) ==
    SelectSeq(AllParts(kind), LAMBDA part : part # "properties" \/ layout.properties = "json")
Field(v, part) == v.held[CHOOSE n \in DOMAIN AllParts(v.as) : AllParts(v.as)[n] = part]
HasParts(v, kind) == v.as \in {"vertex", "edge"} /\ ToSet(AllParts(kind)) \subseteq ToSet(AllParts(v.as))
Blank(kind) ==
    Value(kind, IF kind = "edge" THEN <<"0.0", "", "0.0", "0.0", "{}">> ELSE <<"0.0", "", "{}">>)
Filled(values, kind) == [i \in DOMAIN values |-> IF values[i] = Null THEN Blank(kind) ELSE values[i]]
Fit(values, kind) == \A i \in DOMAIN values : HasParts(Filled(values, kind)[i], kind)
ElementArrays(values, kind, layout) ==
    LET filled == Filled(values, kind)
        parts == ElementParts(kind, layout)
        Packed(part) == part \in {"id", "start", "end"} /\ layout.identity = "packed"
    IN [p \in DOMAIN parts |->
          PackedArray([i \in DOMAIN filled |-> Field(filled[i], parts[p])],
                      IF Packed(parts[p]) THEN Validity(values) ELSE AllValid(values))]
Struct(fields, valid) == [Array("struct", valid) EXCEPT !.fields = fields]
Typed(values, kind) == Kinds(values) \subseteq {kind}

BuildElements(values, kind, layout) ==
    IF ~Fit(values, kind) THEN <<Refused>>
    ELSE IF layout.elements = "columns" THEN ElementArrays(values, kind, layout)
    ELSE <<Struct(ElementArrays(values, kind, layout), Validity(values))>>

(* What iterating over a row gives: a path's elements in turn, the keys of *)
(* a map, the characters of a text.                                        *)
Iterable(rows) == Kinds(rows) \subseteq {"list", "path", "vector", "str", "map"}
Iterated(v) ==
    CASE v = Null -> <<>>
      [] v.as = "path" ->
           [n \in 1..(Len(v.held[1].held) + Len(v.held[2].held)) |-> v.held[2 - (n % 2)].held[(n + 1) \div 2]]
      [] v.as \in {"str", "map"} -> IF v.held \in {<<"">>, <<"{}">>} THEN <<>> ELSE <<TextOf(v)>>
      [] OTHER -> v.held
Ends(rows) ==
    LET At[i \in 0..Len(rows)] == IF i = 0 THEN 0 ELSE At[i - 1] + Len(Iterated(rows[i]))
    IN [i \in 1..(Len(rows) + 1) |-> At[i - 1]]
Flat(rows) == FlattenSeq([i \in DOMAIN rows |-> Iterated(rows[i])])
ListArray(rows, child) == [Array("list", Validity(rows)) EXCEPT !.child = <<child>>, !.offsets = Ends(rows)]
ElementLists(rows, kind, layout) ==
    IF ~Iterable(rows) \/ ~Fit(Flat(rows), kind) THEN Refused
    ELSE ListArray(rows, Struct(ElementArrays(Flat(rows), kind, layout), Validity(Flat(rows))))
IdentityLists(rows, layout) ==
    LET identities == IdentityArray(Flat(rows), layout.identity = "text")
    IN IF ~Iterable(rows) \/ identities = Refused THEN Refused ELSE ListArray(rows, identities)
BuildPaths(values, layout) ==
    LET Side(n) == [i \in DOMAIN values |-> IF values[i] = Null THEN Null ELSE values[i].held[n]]
        lists == <<ElementLists(Side(1), "vertex", layout), ElementLists(Side(2), "edge", layout)>>
    IN IF ~Typed(values, "path") \/ Refused \in ToSet(lists) THEN <<Refused>>
       ELSE IF layout.elements = "columns" THEN lists
       ELSE <<Struct(lists, Validity(values))>>

(* Vectors: the numbers of every row one after another, a null row's as     *)
(* zeros where the width is fixed; a sparse one as its parts or as a dense *)
(* one (dimensions, then the indices and the numbers).  What is read of a  *)
(* vector is its bytes past their header: a whole number or a truth, which *)
(* has bytes but no header, is a vector of no numbers.                     *)
HasBytes(v) == v = Null \/ v.as = "vector" \/ (v.as \in {"int", "bool"} /\ v.held # <<"huge">>)
NumbersOf(v) == CASE v = Null -> Null [] v.as = "vector" -> v [] OTHER -> Value("vector", <<>>)
ListedVectors(values) == ListArray(values, PyArray(Flat(values)))
FixedVectors(values, width) ==
    LET Zeros == Value("vector", [n \in 1..width |-> Cell("0")])
        numbers == [i \in DOMAIN values |-> IF values[i] = Null THEN Zeros ELSE values[i]]
    IN IF width < 1 \/ \E i \in DOMAIN numbers : Len(numbers[i].held) # width THEN Refused
       ELSE [Array("fixed", Validity(values)) EXCEPT !.child = <<PyArray(Flat(numbers))>>, !.width = width]
BuildVectors(values, width, layout) ==
    LET vectors == [i \in DOMAIN values |-> NumbersOf(values[i])]
    IN IF \E i \in DOMAIN values : ~HasBytes(values[i]) THEN Refused
       ELSE IF layout.vectors = "list" THEN ListedVectors(vectors) ELSE FixedVectors(vectors, width)

Sparse(width, indices, numbers) ==
    Value("sparse", <<Value("list", <<Cell(width)>>), Value("list", indices), Value("list", numbers)>>)
DenseOf(v, width) ==
    LET At(n) == {i \in DOMAIN v.held[2].held : v.held[2].held[i] = Cell(n)}
    IN Value("vector", [n \in 1..width |-> IF At(n) = {} THEN Cell("0") ELSE v.held[3].held[CHOOSE i \in At(n) : TRUE]])
BuildSparse(values, width, layout) ==
    LET Part(n) == [i \in DOMAIN values |-> IF values[i] = Null THEN Null ELSE values[i].held[n]]
    IN IF ~Typed(values, "sparse") THEN Refused
       ELSE IF layout.sparse = "dense"
       THEN FixedVectors([i \in DOMAIN values |-> IF values[i] = Null THEN Null ELSE
                            DenseOf(values[i], values[i].held[1].held[1].held[1])], width)
       ELSE Struct([n \in 1..3 |-> ListedVectors(Part(n))], Validity(values))

-----------------------------------------------------------------------------
(* _column_for and Plan: each column's builder is settled by its type oid,  *)
(* or by the first value of the first chunk, and kept.                     *)
ColumnFor(oid, values) ==
    LET sample == First(values)
        inner == IF sample.as = "list" THEN First(sample.held) ELSE Null
        Builder(how, of, width) == [how |-> how, of |-> of, width |-> width]
    IN CASE oid \in {"vertex", "edge"} -> Builder("elements", oid, 0)
         [] oid = "graphid" -> Builder("ids", "", 0)
         [] oid = "graphpath" -> Builder("paths", "", 0)
         [] oid = "vertex[]" -> Builder("lists", "vertex", 0)
         [] oid = "edge[]" -> Builder("lists", "edge", 0)
         [] oid = "graphid[]" -> Builder("idlists", "", 0)
         [] sample.as \in {"vertex", "edge"} -> Builder("elements", sample.as, 0)
         [] sample.as = "path" -> Builder("paths", "", 0)
         [] sample.as = "vector" -> Builder("vectors", "", Len(sample.held))
         [] sample.as = "sparse" -> Builder("sparse", "", sample.held[1].held[1].held[1])
         [] sample.as = "graphid" -> Builder("ids", "", 0)
         [] inner.as \in {"vertex", "edge"} -> Builder("lists", inner.as, 0)
         [] inner.as = "graphid" -> Builder("idlists", "", 0)
         [] sample.as = "map" -> Builder("inferred", "untyped", 0)
         [] OTHER -> Builder("inferred", Infer(values), 0)
Build(builder, values, layout) ==
    CASE builder.how = "elements" -> BuildElements(values, builder.of, layout)
      [] builder.how = "paths" -> BuildPaths(values, layout)
      [] builder.how = "lists" -> <<ElementLists(values, builder.of, layout)>>
      [] builder.how = "ids" -> <<BuildIdentities(values, layout)>>
      [] builder.how = "idlists" -> <<IdentityLists(values, layout)>>
      [] builder.how = "sparse" -> <<BuildSparse(values, builder.width, layout)>>
      [] builder.how = "vectors" -> <<BuildVectors(values, builder.width, layout)>>
      [] OTHER -> <<BuildInferred(builder.of, values)>>

(* _transpose, of rows that must all be one value wide.                     *)
Transpose(rows) == [i \in DOMAIN rows |-> rows[i][1]]
Ragged(rows) == \E i \in DOMAIN rows : Len(rows[i]) # 1

(* _chunks: from a cursor, an iterator or a list, at least one.             *)
Chunks(rows, size) ==
    LET From[start \in 1..(Len(rows) + 1)] ==
            LET stop == IF start + size - 1 > Len(rows) THEN Len(rows) ELSE start + size - 1
            IN IF start > Len(rows) THEN <<>> ELSE <<SubSeq(rows, start, stop)>> \o From[stop + 1]
    IN IF size = 0 \/ rows = <<>> THEN <<rows>> ELSE From[1]
(* _async_chunks, from rows awaited one at a time.                          *)
AsyncChunks(rows, size) ==
    LET After[n \in 0..Len(rows)] ==
            LET held == Append(After[n - 1].held, rows[n])
                sent == After[n - 1].sent
            IN IF n = 0 THEN [held |-> <<>>, sent |-> <<>>]
               ELSE IF size # 0 /\ Len(held) >= size THEN [held |-> <<>>, sent |-> Append(sent, held)]
               ELSE [held |-> held, sent |-> sent]
        all == After[Len(rows)]
    IN IF all.held # <<>> \/ all.sent = <<>> THEN Append(all.sent, all.held) ELSE all.sent
Batch(builder, chunk, layout) ==
    IF Ragged(chunk) THEN <<Refused>> ELSE Build(builder, Transpose(chunk), layout)
Batches(rows, size, oid, layout) ==
    LET chunks == Chunks(rows, size)
        builder == ColumnFor(oid, Transpose(chunks[1]))
    IN [n \in DOMAIN chunks |-> Batch(builder, chunks[n], layout)]

(* What a reader of an array finds in it (Arrow's side).                   *)
RECURSIVE Read(_)
Read(array) ==
    [i \in DOMAIN array.valid |->
      IF ~array.valid[i] THEN Null
      ELSE CASE array.as = "cells" -> array.data[i]
             [] array.as = "struct" ->
                  Value("struct", [f \in DOMAIN array.fields |-> Read(array.fields[f])[i]])
             [] array.as = "list" ->
                  Value("list", SubSeq(Read(array.child[1]), array.offsets[i] + 1, array.offsets[i + 1]))
             [] OTHER ->
                  Value("list", SubSeq(Read(array.child[1]), (i - 1) * array.width + 1, i * array.width))]

-----------------------------------------------------------------------------
(* columns(): plain values, each converted as the first one asks.          *)
MappingOf(v) ==
    IF v.as # "path" THEN Value("map", v.held)
    ELSE Value("map", [side \in 1..2 |->
            Value("list", [i \in DOMAIN v.held[side].held |-> Value("map", v.held[side].held[i].held)])])
Elements == {"vertex", "edge", "path"}
Converted(sample, v) ==
    LET kinds == IF sample.as \in Elements THEN Elements ELSE {sample.as}
    IN IF v = Null THEN Null
       ELSE IF sample.as = "graphid" THEN TextOf(v)
       ELSE IF v.as \notin kinds THEN Value("refused", <<>>)
       ELSE CASE v.as = "vector" -> Value("list", v.held)
              [] v.as = "sparse" -> TextOf(v)
              [] OTHER -> MappingOf(v)
Columns(values) ==
    LET sample == First(values)
        plain == [i \in DOMAIN values |-> Converted(sample, values[i])]
    IN IF sample.as \notin Elements \cup {"graphid", "vector", "sparse"} THEN values
       ELSE IF Value("refused", <<>>) \in ToSet(plain) THEN <<Value("refused", <<>>)>>
       ELSE plain

(* vertex_payloads and edge_payloads: the property maps and the ids of a    *)
(* table to load, slice by slice, from the arrays an export built.         *)
Slices(column, size) ==
    LET starts == SelectSeq([i \in DOMAIN column |-> i], LAMBDA i : (i - 1) % size = 0)
    IN [n \in DOMAIN starts |-> SubSeq(column, starts[n], IF starts[n] + size - 1 > Len(column)
                                                          THEN Len(column) ELSE starts[n] + size - 1)]
Payloads(names, columns, rows) ==
    IF columns = <<>> THEN [i \in 1..rows |-> Cell("{}")]
    ELSE IF names = <<"properties">> THEN columns[1]
    ELSE [i \in 1..rows |-> Value("map", [f \in DOMAIN names |-> columns[f][i]])]
Endpoints(column) == IF Nulls(column) # {} THEN <<Value("refused", <<>>)>> ELSE column
EdgePayloads(starts, ends, properties, size) ==
    LET ThoseOf(column) == Slices(column, size)
    IN [n \in DOMAIN ThoseOf(starts) |->
          LET maps == Payloads(<<"properties">>, <<ThoseOf(properties)[n]>>, Len(ThoseOf(starts)[n]))
          IN [i \in DOMAIN maps |->
                <<Endpoints(ThoseOf(starts)[n])[i], Endpoints(ThoseOf(ends)[n])[i], maps[i]>>]]
===============================================================================
