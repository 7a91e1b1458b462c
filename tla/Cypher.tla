-------------------------------- MODULE Cypher --------------------------------
(***************************************************************************)
(* What cypher.py reads in the text of a statement and writes into one, as *)
(* operators over sequences of symbols (see ServerText).                   *)
(***************************************************************************)
EXTENDS ServerText

(* The place after a quoted run; a doubled quote does not end it, nor does *)
(* one behind an odd run of backslashes where the run escapes.             *)
Odd(t, f) == (f - 1 - LeastOf({p \in 1..f : \A j \in p..(f - 1) : t[j] = "b"}, f)) % 2 = 0
             /\ Sym(t, f - 1) = "b"
EscapesAfterE(t, i, escaping) == t[i] = "q" /\ (escaping \/ Sym(t, i - 1) = "E")
Escapes(t, i, escaping) ==
    t[i] = "q" /\ \/ escaping
                  \/ Sym(t, i - 1) = "E" /\ ~IsNameChar(Sym(t, i - 2))

QuotesEnd(t, quote, escapes) ==
    LET From[p \in 1..(Len(t) + 1)] ==
            LET f == LeastOf({j \in p..Len(t) : t[j] = quote}, 0)
            IN IF f = 0 THEN Len(t) + 1
               ELSE IF escapes /\ Odd(t, f) THEN From[f + 1]
               ELSE IF Sym(t, f + 1) = quote THEN From[f + 2]
               ELSE f + 1
    IN From
EndOfQuoted(t, i, escaping) == QuotesEnd(t, t[i], Escapes(t, i, escaping))[i + 1]

DollarTagEnd(t, i) ==
    LET p == LeastOf({j \in (i + 1)..Len(t) : ~IsNameChar(t[j])}, Len(t) + 1)
    IN IF Sym(t, i + 1) \notin Digits /\ Sym(t, p) = "$" THEN p + 1 ELSE 0

BlockCommentsEnd(t) ==
    LET From[p \in 1..(Len(t) + 1)] ==
            [depth \in Int |->
                IF p > Len(t) THEN Len(t) + 1
                ELSE IF Holds(t, p, <<"/", "*">>) THEN From[p + 2][depth + 1]
                ELSE IF Holds(t, p, <<"*", "/">>) THEN IF depth = 1 THEN p + 2 ELSE From[p + 2][depth - 1]
                ELSE From[p + 1][depth]]
    IN From

(* The place after the literal that starts at i, or 0 where none does.     *)
EndOfBody(t, i, n) ==
    LeastOf({p + n : p \in {p \in (i + n)..Len(t) : Holds(t, p, SubSeq(t, i, i + n - 1))}}, Len(t) + 1)
LiteralEnd(t, i, escaping) ==
    IF t[i] \in {"q", "Q"} THEN EndOfQuoted(t, i, escaping)
    ELSE IF t[i] = "$" THEN IF DollarTagEnd(t, i) = 0 THEN 0 ELSE EndOfBody(t, i, DollarTagEnd(t, i) - i)
    ELSE IF Holds(t, i, <<"-", "-">>) THEN LeastOf({p \in i..Len(t) : t[p] = "nl"}, Len(t) + 1)
    ELSE IF Holds(t, i, <<"/", "*">>) THEN BlockCommentsEnd(t)[i][0]
    ELSE 0

(* The positions without_literals blanks.                                  *)
BlankedFrom(t, escaping) ==
    LET From[p \in 1..(Len(t) + 1)] ==
            IF p > Len(t) THEN {}
            ELSE LET Past(end) == IF end = 0 THEN From[p + 1] ELSE (p..(end - 1)) \cup From[end]
                 IN Past(LiteralEnd(t, p, escaping))
    IN From
Blanked(t, escaping) == BlankedFrom(t, escaping)[1]

WithoutLiterals(t, escaping) ==
    LET gone == Blanked(t, escaping)
    IN [i \in DOMAIN t |-> IF i \in gone /\ t[i] # "nl" THEN " " ELSE t[i]]

-----------------------------------------------------------------------------
Space == {" ", "nl"}
LastSaid(t) == IF \A i \in DOMAIN t : t[i] \in Space THEN 0
               ELSE CHOOSE i \in DOMAIN t : t[i] \notin Space /\ \A j \in (i + 1)..Len(t) : t[j] \in Space

(* A semicolon that ends the text starts no second statement.              *)
SecondStatement(bare) ==
    \E i \in 1..(LastSaid(bare) - 1) : bare[i] = ";"

(* Refused where either reading finds one; the second is taken only where  *)
(* a backslash could make it differ.                                       *)
RefusesMany(t) ==
    /\ \E i \in DOMAIN t : t[i] = ";"
    /\ \/ SecondStatement(WithoutLiterals(t, FALSE))
       \/ /\ \E i \in DOMAIN t : t[i] = "b"
          /\ SecondStatement(WithoutLiterals(t, TRUE))

(* The regular expression of check_transaction_kept, over the blanked text. *)
SkipSpace(t, i) == LeastOf({p \in i..Len(t) : t[p] \notin Space}, Len(t) + 1)
WordAt(bare, i, words) == Sym(bare, i) \in words /\ ~IsNameChar(Sym(bare, i + 1))
PastParenthesis(bare, i) == IF Sym(bare, i) = "(" THEN SkipSpace(bare, i + 1) ELSE i
ControlsTransaction(bare) == WordAt(bare, PastParenthesis(bare, SkipSpace(bare, 1)), {"begin", "commit"})
EndsTransaction(t) == ControlsTransaction(WithoutLiterals(t, FALSE))
IsSessionCommand(t) ==
    LET First(bare) == WordAt(bare, SkipSpace(bare, 1), {"set"})
    IN First(WithoutLiterals(t, FALSE))

(* A trailing semicolon off, and whatever space and comment follow it.     *)
WithoutTerminator(t) ==
    LET UpTo(n) == IF n = 0 THEN t
                   ELSE IF t[n] # ";" THEN t
                   ELSE SubSeq(t, 1, LastSaid(SubSeq(t, 1, n - 1)))
    IN UpTo(LastSaid(WithoutLiterals(t, FALSE)))

-----------------------------------------------------------------------------
(* A parameter where a walk's length belongs: between a dash, a bracket, at *)
(* most a variable and a label, a star and at most a lower bound.          *)
PastName(bare, i) == IF IsNameStart(Sym(bare, i)) THEN SkipSpace(bare, NameRunEnd(bare, i)) ELSE i
PastLabel(bare, i) ==
    IF Sym(bare, i) # ":" THEN i
    ELSE LeastOf({p \in (i + 1)..Len(bare) : ~IsNameChar(bare[p]) /\ bare[p] \notin Space}, Len(bare) + 1)
PastDigit(bare, i) == IF Sym(bare, i) \in Digits THEN SkipSpace(bare, i + 1) ELSE i
PastDots(bare, i) == IF Holds(bare, i, <<".", ".">>) THEN SkipSpace(bare, i + 2) ELSE i
IsParameter(bare, i) == Sym(bare, i) = "%s" \/ (Sym(bare, i) = "$" /\ Sym(bare, i + 1) \in Digits)
BoundByParameter(bare, star) ==
    /\ Sym(bare, star) = "*"
    /\ IsParameter(bare, PastDots(bare, PastDigit(bare, SkipSpace(bare, star + 1))))
WalksAt(bare, open) ==
    /\ Sym(bare, open) = "["
    /\ BoundByParameter(bare, PastLabel(bare, PastName(bare, SkipSpace(bare, open + 1))))
BindsALength(bare) == \E i \in DOMAIN bare : bare[i] = "-" /\ WalksAt(bare, SkipSpace(bare, i + 1))
RefusesLength(t) == BindsALength(WithoutLiterals(t, FALSE))

(* A word that writes, where a clause could stand; a name given by AS is   *)
(* none.                                                                   *)
WriteGroups ==
    [create |-> {1, 2}, insert |-> {1, 2}, merge |-> {1, 2, 5}, delete |-> {3, 4},
     detach |-> {3, 4}, set |-> {5}, remove |-> {5}]
CouldBeAClause(bare, i) ==
    /\ bare[i] \in DOMAIN WriteGroups
    /\ Sym(bare, i - 1) \notin {".", ":"} /\ ~IsNameChar(Sym(bare, i - 1))
    /\ ~IsNameChar(Sym(bare, i + 1)) /\ Sym(bare, SkipSpace(bare, i + 1)) # ":"
NamesNothing(bare, i) == FALSE
AliasEndsAt(bare, said, i) == said < i - 1 /\ Sym(bare, said) = "as" /\ ~IsNameChar(Sym(bare, said - 1))
NamesAColumn(bare, i) == AliasEndsAt(bare, LastSaid(SubSeq(bare, 1, i - 1)), i)
FirstWriteClause(t) ==
    LET Word(bare, at) == IF at = 0 THEN "" ELSE bare[at]
        FirstOf(bare) ==
            Word(bare, LeastOf({i \in DOMAIN bare : CouldBeAClause(bare, i) /\ ~NamesAColumn(bare, i)}, 0))
    IN FirstOf(WithoutLiterals(t, FALSE))

WritableIn(bare) == UNION {WriteGroups[bare[i]] : i \in {i \in DOMAIN bare : CouldBeAClause(bare, i)}}
WritableCounters(t) == WritableIn(WithoutLiterals(t, FALSE))
NeedsAReadingFirst(t) ==
    (\E i \in DOMAIN t : t[i] = "return") \/ WritableCounters(t) = {}

Unknown == 10
(* What is reported of counter i, read as b before and a after: unknown     *)
(* where a number left from before and a new one would look alike.         *)
CountsFor(t, i, b, a) ==
    IF NeedsAReadingFirst(t) /\ (a # b \/ b = 0) THEN a
    ELSE IF i \notin WritableCounters(t) THEN 0
    ELSE IF NeedsAReadingFirst(t) THEN Unknown ELSE a

-----------------------------------------------------------------------------
(* A name as it is put into a statement; "match" stands for the reserved.  *)
Plain(name) == name[1] = "w" /\ \A i \in DOMAIN name : name[i] \in {"w", "1"}
QuoteIdentifier(name) ==
    IF Plain(name) THEN name
    ELSE LET Doubled[i \in 0..Len(name)] ==
                 IF i = 0 THEN <<>>
                 ELSE Doubled[i - 1] \o IF name[i] = "Q" THEN <<"Q", "Q">> ELSE <<name[i]>>
         IN <<"Q">> \o Doubled[Len(name)] \o <<"Q">>
===============================================================================
