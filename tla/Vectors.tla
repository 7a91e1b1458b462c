-------------------------------- MODULE Vectors --------------------------------
(***************************************************************************)
(* Dense, sparse and bit vectors (vector.py): what is sent for one in text *)
(* and in bytes, and what is made of what the server sends back.           *)
(*                                                                         *)
(* A number is a name with its value at each width: "d" needs double       *)
(* precision, "s" single and "h" half; "tiny" is zero in single precision, *)
(* "big" too large for a half.                                             *)
(***************************************************************************)
EXTENDS Integers, Sequences, SequencesExt

CONSTANT ByteBits   \* bits in a byte: 8 in the code

Singly(n) == CASE n = "d" -> "s" [] n = "tiny" -> "0" [] OTHER -> n
Halved(n) == CASE n \in {"d", "s"} -> "h" [] n = "tiny" -> "0" [] OTHER -> n
InHalf(numbers) == [i \in DOMAIN numbers |-> Halved(numbers[i])]
InSingle(numbers) == [i \in DOMAIN numbers |-> Singly(numbers[i])]
Nothing == <<"refused">>

(* A dense vector holds its numbers, or the bytes or the text it came in.   *)
Vector(held, form, half) == [form |-> form, half |-> half, held |-> held]
OfNumbers(numbers, half) == Vector(InSingle(numbers), "values", half)
FromWire(raw) == Vector(raw, "raw", FALSE)
FromWireText(text, half) == Vector(text, "text", half)

(* "[1,2]", which is JSON and has no infinity: one is written null.  What   *)
(* is not a bracketed list is refused, and so is a null in it.             *)
AsJson(n) == IF n = "inf" THEN "null" ELSE n
VectorText(numbers) ==
    <<"[">> \o [i \in 1..(2 * Len(numbers) - (IF numbers = <<>> THEN 0 ELSE 1)) |->
                   IF i % 2 = 1 THEN AsJson(numbers[(i + 1) \div 2]) ELSE ","] \o <<"]">>
ParseVectorValues(text, half) ==
    LET body == SubSeq(text, 2, Len(text) - 1)
        numbers == [i \in 1..((Len(body) + 1) \div 2) |-> body[2 * i - 1]]
    IN IF Len(text) < 2 \/ text[1] # "[" \/ text[Len(text)] # "]" THEN Nothing
       ELSE IF "null" \in ToSet(numbers) \/ (half /\ "big" \in ToSet(numbers)) THEN Nothing
       ELSE IF half THEN InHalf(numbers) ELSE InSingle(numbers)

(* The bytes: how many numbers and a spare field, then the numbers.        *)
ToRaw(numbers) == [dimensions |-> Len(numbers), numbers |-> numbers]
Values(v) ==
    CASE v.form = "values" -> v.held
      [] v.form = "raw" -> v.held.numbers
      [] OTHER -> ParseVectorValues(v.held, v.half)
ToBytes(v) == IF v.form = "raw" THEN v.held ELSE ToRaw(Values(v))
Length(v) == IF v.form = "raw" THEN v.held.dimensions ELSE Len(Values(v))
HalfBytes(v) == IF "big" \in ToSet(Values(v)) THEN ToRaw(Nothing) ELSE ToRaw(InHalf(Values(v)))
HalfLoaded(raw) == OfNumbers(SubSeq(raw.numbers, 1, raw.dimensions), TRUE)

-----------------------------------------------------------------------------
(* A sparse vector: its entries in the order of their indices, counted     *)
(* from zero, none of them zero; [index, value] pairs are given.           *)
Unfit == [dimensions |-> 0, entries |-> <<>>]
SparseVector(given, dimensions) ==
    LET After[n \in 0..Len(given)] ==
            LET kept == After[n - 1]
                e == given[n]
            IN IF n = 0 THEN {}
               ELSE IF Nothing \in kept \/ e[1] \notin 0..(dimensions - 1) THEN {Nothing}
               ELSE IF \E k \in kept : k[1] = e[1] THEN {Nothing}
               ELSE IF e[2] = "inf" THEN {Nothing}
               ELSE IF e[2] = "0" THEN kept ELSE kept \cup {e}
        kept == After[Len(given)]
    IN IF dimensions < 1 \/ Nothing \in kept THEN Unfit
       ELSE [dimensions |-> dimensions,
             entries |-> SetToSortSeq(kept, LAMBDA a, b : a[1] < b[1])]
ToDense(sparse) ==
    [i \in 1..sparse.dimensions |->
        LET here == {n \in DOMAIN sparse.entries : sparse.entries[n][1] = i - 1}
        IN IF here = {} THEN "0" ELSE sparse.entries[CHOOSE n \in here : TRUE][2]]
FromDense(numbers) ==
    SparseVector(SelectSeq([i \in DOMAIN numbers |-> <<i - 1, numbers[i]>>], LAMBDA e : e[2] # "0"),
                 Len(numbers))

(* The text counts from one, and reads each number as the server holds it;  *)
(* the bytes count from zero.                                              *)
AsCounted(sparse) == [pairs |-> sparse.entries, size |-> sparse.dimensions]
ToText(sparse) ==
    [pairs |-> [n \in DOMAIN sparse.entries |-> <<sparse.entries[n][1] + 1, sparse.entries[n][2]>>],
     size |-> sparse.dimensions]
FromText(text) ==
    SparseVector([n \in DOMAIN text.pairs |-> <<text.pairs[n][1] - 1, Singly(text.pairs[n][2])>>], text.size)
SparseBytes(sparse) ==
    [pairs |-> [n \in DOMAIN sparse.entries |-> <<sparse.entries[n][1], Singly(sparse.entries[n][2])>>],
     size |-> sparse.dimensions]
FromBytes(raw) == SparseVector(raw.pairs, raw.size)

(* The server: text drops a zero, bytes that hold one are refused; and it   *)
(* writes either.                                                          *)
StoredFromText(text) ==
    [dimensions |-> text.size,
     entries |-> SelectSeq([n \in DOMAIN text.pairs |-> <<text.pairs[n][1] - 1, Singly(text.pairs[n][2])>>],
                           LAMBDA e : e[2] # "0")]
StoredFromBytes(raw) ==
    IF \E n \in DOMAIN raw.pairs : raw.pairs[n][2] = "0" THEN Unfit
    ELSE [dimensions |-> raw.size, entries |-> raw.pairs]

-----------------------------------------------------------------------------
(* Bits, the first of them the highest of the first byte.                  *)
Number(bits) ==
    LET Upto[n \in 0..Len(bits)] == IF n = 0 THEN 0 ELSE 2 * Upto[n - 1] + bits[n]
    IN Upto[Len(bits)]
Bytes(n, size) == [i \in 1..size |-> (n \div 2 ^ (ByteBits * (size - i))) % 2 ^ ByteBits]
BitsToBytes(bits) ==
    LET size == (Len(bits) + ByteBits - 1) \div ByteBits
    IN Bytes(Number(bits) * (2 ^ (size * ByteBits - Len(bits))), size)
BitsFromBytes(data, length) ==
    IF length < 0 \/ length > Len(data) * ByteBits THEN <<-1>>
    ELSE [i \in 1..length |->
            (data[(i - 1) \div ByteBits + 1] \div 2 ^ (ByteBits - 1 - ((i - 1) % ByteBits))) % 2]
===============================================================================
