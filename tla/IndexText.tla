------------------------------- MODULE IndexText -------------------------------
(***************************************************************************)
(* A property index, written into a statement and read back from what the  *)
(* catalog prints of it (introspect.py): ensure_indexes knows an index it  *)
(* has made by this reading alone.                                         *)
(*                                                                         *)
(* A text is a sequence of symbols as in Cypher: words, marks and single   *)
(* letters of a name.  The server prints its own words in capitals.        *)
(***************************************************************************)
EXTENDS Cypher
LOCAL INSTANCE Integers
LOCAL INSTANCE SequencesExt

Absent == <<"absent">>

(* One property an index is keyed on.  nulls is "first", "last" or ""      *)
(* where it is left to the order; cast and operator class may be absent.   *)
IndexElement(property, class, descending, nulls, cast) ==
    [cast |-> cast, class |-> class, descending |-> descending, nulls |-> nulls, property |-> property]

NoElement == IndexElement(Absent, Absent, FALSE, "", Absent)

NullsComeLast(e) == e.nulls = "first"
NullsComeFirst(e) == IF e.nulls = "" THEN e.descending ELSE e.nulls = "first"
Resolved(e) == [e EXCEPT !.nulls = IF NullsComeFirst(e) THEN "first" ELSE "last"]

Said_(words, when) == IF when THEN words ELSE <<>>
Rendered(e) ==
    LET name == QuoteIdentifier(e.property)
    IN (IF e.cast = Absent THEN name ELSE <<"(">> \o name \o <<"::">> \o e.cast \o <<")">>)
         \o Said_(<<" ">> \o e.class, e.class # Absent)
         \o Said_(<<" ", "DESC">>, e.descending)
         \o Said_(<<" ", "NULLS", " ", IF e.nulls = "first" THEN "FIRST" ELSE "LAST">>,
                  e.nulls # "" /\ (e.nulls = "first") # e.descending)

(* A desired index, and the statement that makes it unless it is refused:  *)
(* one that is unique over what is not an edge's ends though it is called  *)
(* so, one without a name whose predicate could not be recognised, or that *)
(* is to be skipped if it is there.                                        *)
EndpointColumns == {<<"start">>}
Listed(texts) == [i \in DOMAIN texts |-> IF i = 1 THEN texts[i] ELSE <<",", " ">> \o texts[i]]
CreateIndexStatement(want, ifNotExists) ==
    IF \/ want.elements = <<>>
       \/ want.unique /\ \E i \in DOMAIN want.elements : want.elements[i].property \in EndpointColumns
       \/ want.name = Absent /\ (want.where # Absent \/ ifNotExists)
    THEN Absent
    ELSE <<"CREATE", " ">> \o Said_(<<"UNIQUE", " ">>, want.unique) \o <<"PROPERTY", " ", "INDEX", " ">>
           \o Said_(<<"IF", " ", "NOT", " ", "EXISTS", " ">>, ifNotExists)
           \o (IF want.name = Absent THEN <<>> ELSE QuoteIdentifier(want.name) \o <<" ">>)
           \o <<"ON", " ">> \o QuoteIdentifier(want.label) \o <<" ">>
           \o (IF want.method = <<"btree">> THEN <<>> ELSE <<"USING", " ">> \o want.method \o <<" ">>)
           \o <<"(">> \o FlattenSeq(Listed([i \in DOMAIN want.elements |-> Rendered(want.elements[i])])) \o <<")">>
           \o (IF want.where = Absent THEN <<>> ELSE <<" ", "WHERE", " ">> \o want.where)

(* What an index is matched by: its label, method and elements.            *)
Key(want) == [elements |-> [i \in DOMAIN want.elements |-> Resolved(want.elements[i])], method |-> want.method]

-----------------------------------------------------------------------------
(* The server's part: what a statement may be for an element to be made,   *)
(* and how the definition is printed, with no default in it.               *)
Spelled(e) ==
    LET key == Rendered([e EXCEPT !.class = Absent, !.descending = FALSE, !.nulls = ""])
        class == IF e.class = Absent THEN <<>> ELSE <<" ">> \o e.class
        nulls == IF e.nulls = "first" THEN <<" ", "NULLS", " ", "FIRST">> ELSE <<" ", "NULLS", " ", "LAST">>
        order == IF e.descending THEN {<<" ", "DESC">>} ELSE {<<>>, <<" ", "ASC">>}
    IN {key \o class \o o \o n : o \in order, n \in {nulls} \cup IF (e.nulls = "first") = e.descending THEN {<<>>} ELSE {}}
Printed(e) ==
    (IF e.cast = Absent THEN QuoteIdentifier(e.property)
     ELSE <<"(", "(">> \o QuoteIdentifier(e.property) \o <<")", "::">> \o e.cast \o <<")">>)
      \o Said_(<<" ">> \o e.class, e.class # Absent)
      \o Said_(<<" ", "DESC">>, e.descending)
      \o Said_(<<" ", "NULLS", " ", "FIRST">>, e.nulls = "first" /\ ~e.descending)
      \o Said_(<<" ", "NULLS", " ", "LAST">>, e.nulls = "last" /\ e.descending)
Definition(name, method, keys, tail) ==
    <<"CREATE", " ", "PROPERTY", " ", "INDEX", " ">> \o QuoteIdentifier(name) \o <<" ", "ON", " ", "w", " ", "USING", " ">>
      \o method \o <<" ", "(">> \o FlattenSeq(Listed(keys)) \o <<")">> \o tail

-----------------------------------------------------------------------------
(* Reading it.  Splitting outside quotes and parentheses; what is before   *)
(* the symbol at i: how deep it is in parentheses, whether in a quote.     *)
Before(t) ==
    LET At[i \in 1..Len(t)] ==
            IF i = 1 THEN [depth |-> 0, quoted |-> FALSE]
            ELSE LET b == At[i - 1]
                     s == t[i - 1]
                 IN CASE s = "Q" -> [b EXCEPT !.quoted = ~b.quoted]
                      [] s = "(" /\ ~b.quoted -> [b EXCEPT !.depth = b.depth + 1]
                      [] s = ")" /\ ~b.quoted -> [b EXCEPT !.depth = b.depth - 1]
                      [] OTHER -> b
    IN At
SplitTopLevel(t, separator) ==
    LET Cuts(before) == {i \in DOMAIN t : t[i] = separator /\ before[i] = [depth |-> 0, quoted |-> FALSE]}
        Between(edges) == [n \in 1..(Len(edges) - 1) |-> SubSeq(t, edges[n] + 1, edges[n + 1] - 1)]
    IN Between(SetToSortSeq({0, Len(t) + 1} \cup Cuts(Before(t)), <))
SplitWords(t) == SelectSeq(SplitTopLevel(t, " "), LAMBDA word : word # <<>>)

Strip(t) ==
    LET kept == {i \in DOMAIN t : t[i] # " "}
    IN IF kept = {} THEN <<>> ELSE SubSeq(t, LeastOf(kept, 0), CHOOSE i \in kept : \A j \in kept : j <= i)
Enclosed(t, open, close) == t # <<>> /\ t[1] = open /\ t[Len(t)] = close
Within(t) == SubSeq(t, 2, Len(t) - 1)

(* A doubled quote stands for one; a lone one means the name was cut.      *)
Undoubled(t) ==
    LET Run[i \in 1..(Len(t) + 1)] ==
            IF i > Len(t) THEN <<>>
            ELSE <<t[i]>> \o Run[IF t[i] = "Q" /\ Sym(t, i + 1) = "Q" THEN i + 2 ELSE i + 1]
    IN Run[1]
LoneQuote(t) ==
    LET Run[i \in 1..(Len(t) + 1)] ==
            IF i > Len(t) THEN FALSE
            ELSE IF t[i] # "Q" THEN Run[i + 1]
            ELSE Sym(t, i + 1) # "Q" \/ Run[i + 2]
    IN Run[1]
InAName == {"w", "W", "1", "NULLS", "desc"}
NameIn(t) ==
    CASE Enclosed(t, "Q", "Q") /\ Len(t) > 2 -> IF LoneQuote(Within(t)) THEN Absent ELSE Undoubled(Within(t))
      [] t # <<>> /\ t[1] # "1" /\ ToSet(t) \subseteq InAName -> t
      [] OTHER -> Absent
BareProperty(token) == NameIn(Strip(token))

(* The server prints a cast in two pairs of parentheses.                   *)
InAType == {"vector", "integer", "text", "(", ")", "1", " ", "Q", "w", "COLLATE", "."}
Keyed(cast, name) == [cast |-> cast, name |-> name]
Nothing == Keyed(Absent, Absent)
CastOf(name, cast) ==
    IF name = Absent THEN Nothing
    ELSE IF cast = <<>> \/ cast[1] \in {"(", ")", "1", "."} \/ ~(ToSet(cast) \subseteq InAType) THEN Nothing
    ELSE Keyed(cast, name)
Uncovered(t) == IF Enclosed(t, "(", ")") THEN Within(t) ELSE t
CutAt(inner, sep) ==
    IF sep = 0 THEN Keyed(Absent, BareProperty(Uncovered(inner)))
    ELSE CastOf(BareProperty(Uncovered(Strip(SubSeq(inner, 1, sep - 1)))),
                Strip(SubSeq(inner, sep + 1, Len(inner))))
CastWithin(inner) == CutAt(inner, LeastOf({i \in DOMAIN inner : inner[i] = "::"}, 0))
CastElement(token) ==
    IF BareProperty(token) # Absent THEN Keyed(Absent, BareProperty(token))
    ELSE IF ~Enclosed(Strip(token), "(", ")") THEN Nothing
    ELSE CastWithin(Strip(Within(Strip(token))))

(* Read from the right: the nulls order, the sort order, the class.        *)
Last_(words, n) == IF Len(words) >= n THEN words[Len(words) - n + 1] ELSE Absent
Less(words, n) == SubSeq(words, 1, Len(words) - n)
SaysNulls(words) == Last_(words, 2) = <<"NULLS">> /\ Last_(words, 1) \in {<<"FIRST">>, <<"LAST">>}
SaysOrder(words) == Last_(words, 1) \in {<<"DESC">>, <<"ASC">>}
ElementOf(found, class, descending, nulls) ==
    IF found.name = Absent THEN NoElement
    ELSE Resolved(IndexElement(found.name, class, descending, nulls, found.cast))
Classed(words, descending, nulls) ==
    IF Last_(words, 2) = <<"COLLATE">> \/ Len(words) \notin {1, 2} THEN NoElement
    ELSE ElementOf(CastElement(words[1]), IF Len(words) = 2 THEN words[2] ELSE Absent, descending, nulls)
Ordered(words, nulls) ==
    Classed(IF SaysOrder(words) THEN Less(words, 1) ELSE words, Last_(words, 1) = <<"DESC">>, nulls)
OfWords(words) ==
    Ordered(IF SaysNulls(words) THEN Less(words, 2) ELSE words,
            CASE ~SaysNulls(words) -> "" [] Last_(words, 1) = <<"FIRST">> -> "first" [] OTHER -> "last")
ParseIndexElement(token) == OfWords(SplitWords(token))

(* The key list is the first parenthesis after USING to the one it closes  *)
(* with, quoted or not; it ends before the tail.                           *)
Using(definition) == LeastOf({i \in DOMAIN definition : Holds(definition, i, <<" ", "USING", " ">>)}, 0)
NoList == [from |-> 0, to |-> 0]
Enclosing(definition, opens) ==
    LET Deep[i \in (opens - 1)..Len(definition)] ==
            IF i < opens THEN 0
            ELSE Deep[i - 1] + CASE definition[i] = "(" -> 1 [] definition[i] = ")" -> -1 [] OTHER -> 0
        UpTo(closes) == IF closes = 0 THEN NoList ELSE [from |-> opens + 1, to |-> closes - 1]
    IN IF opens = 0 THEN NoList ELSE UpTo(LeastOf({i \in opens..Len(definition) : Deep[i] = 0}, 0))
ListAfter(definition, using) ==
    IF using = 0 THEN NoList
    ELSE Enclosing(definition, LeastOf({i \in using..Len(definition) : definition[i] = "("}, 0))
KeyList(definition) == ListAfter(definition, Using(definition))
Tail_(definition, list) == SubSeq(definition, list.to + 2, Len(definition))
IndexIsPartial(definition, list) ==
    LET Where(tail) == \E i \in DOMAIN tail : Holds(tail, i, <<" ", "WHERE", " ">>)
    IN list # NoList /\ Where(<<" ">> \o Tail_(definition, list) \o <<" ">>)
HasIncludedColumns(definition, list) == list # NoList /\ "INCLUDE" \in ToSet(Tail_(definition, list))
IndexMethod(definition) ==
    LET rest == SubSeq(definition, Using(definition) + 3, Len(definition))
    IN SubSeq(rest, 1, LeastOf({i \in DOMAIN rest : rest[i] \in {" ", "("}}, Len(rest) + 1) - 1)
AllRead(elements) == IF NoElement \in ToSet(elements) THEN <<>> ELSE elements
EachParsed(tokens) == AllRead([i \in DOMAIN tokens |-> ParseIndexElement(tokens[i])])
ElementsIn(definition, list) ==
    IF list = NoList \/ IndexIsPartial(definition, list) \/ HasIncludedColumns(definition, list) THEN <<>>
    ELSE EachParsed(SplitTopLevel(SubSeq(definition, list.from, list.to), ","))
IndexElements(definition) == ElementsIn(definition, KeyList(definition))
===============================================================================
