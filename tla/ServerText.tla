------------------------------ MODULE ServerText ------------------------------
(***************************************************************************)
(* How the server reads the text of a statement: its scanner's rules for   *)
(* what is a string, a quoted name, a dollar-quoted body or a comment, and  *)
(* so no syntax.  External: what cypher.py and untrusted.py are held to.   *)
(*                                                                         *)
(* A text is a sequence of symbols: "q" and "Q" are the two quotes, "b" a  *)
(* backslash, "nl" a newline, "E" the letter, "1" a digit, "w" and "W" a   *)
(* small and a large letter of a name; a longer word is a symbol of its    *)
(* own.  Names here hold no dollar, a string goes on no second line, and   *)
(* no digit stands before an E.                                            *)
(***************************************************************************)
EXTENDS Integers, Sequences, FiniteSets

Marks == {"q", "Q", "b", "$", "-", "/", "*", ";", "(", ")", "[", "]", "{", "}", ":", ",",
          ".", "<", ">", "=", " ", "nl", "%s", "end"}
Digits == {"1", "3", "9"}
IsNameChar(s) == s \notin Marks
IsNameStart(s) == s \notin Marks \cup Digits

Sym(t, i) == IF i \in DOMAIN t THEN t[i] ELSE "end"
Holds(t, i, s) == \A j \in DOMAIN s : Sym(t, i + j - 1) = s[j]

LeastOf(S, none) == IF S = {} THEN none ELSE CHOOSE x \in S : \A y \in S : x <= y

(* A token is [kind, to]: what starts at i and the place after it.         *)
(* A quote ends what is quoted unless it is doubled; in an escaping string  *)
(* a backslash takes the symbol after it along.                            *)
QuotedEnds(t, quote, escaping) ==
    LET In[p \in 1..(Len(t) + 1)] ==
            IF p > Len(t) THEN p
            ELSE IF t[p] = "b" /\ escaping THEN IF p = Len(t) THEN p + 1 ELSE In[p + 2]
            ELSE IF t[p] # quote THEN In[p + 1]
            ELSE IF Sym(t, p + 1) = quote THEN In[p + 2] ELSE p + 1
    IN In

NameRunEnd(t, i) == LeastOf({p \in i..Len(t) : ~IsNameChar(t[p])}, Len(t) + 1)
LineEnd(t, i) == LeastOf({p \in i..Len(t) : t[p] = "nl"}, Len(t) + 1)

(* $tag$ up to the same again; its tag is a name or nothing.               *)
TagEnd(t, i) ==
    LET p == NameRunEnd(t, i + 1)
    IN IF Sym(t, p) = "$" /\ Sym(t, i + 1) \notin Digits THEN p + 1 ELSE 0
BodyEnd(t, i, n) ==
    LeastOf({p + n : p \in {p \in (i + n)..Len(t) : Holds(t, p, SubSeq(t, i, i + n - 1))}}, Len(t) + 1)

CommentEnds(t) ==
    LET In[p \in 1..(Len(t) + 1)] ==
            [depth \in Int |->
                IF p > Len(t) THEN Len(t) + 1
                ELSE IF Holds(t, p, <<"/", "*">>) THEN In[p + 2][depth + 1]
                ELSE IF Holds(t, p, <<"*", "/">>) THEN IF depth = 1 THEN p + 2 ELSE In[p + 2][depth - 1]
                ELSE In[p + 1][depth]]
    IN In

BeginsEscaping(t, i) == t[i] = "E" /\ Sym(t, i + 1) = "q"
Token(t, i, escaping) ==
    LET Tok(kind, to) == [kind |-> kind, to |-> to]
    IN IF BeginsEscaping(t, i) THEN Tok("string", QuotedEnds(t, "q", TRUE)[i + 2])
       ELSE IF t[i] = "q" THEN Tok("string", QuotedEnds(t, "q", escaping)[i + 1])
       ELSE IF t[i] = "Q" THEN Tok("quoted", QuotedEnds(t, "Q", FALSE)[i + 1])
       ELSE IF t[i] = "$" /\ TagEnd(t, i) > 0 THEN Tok("string", BodyEnd(t, i, TagEnd(t, i) - i))
       ELSE IF Holds(t, i, <<"-", "-">>) THEN Tok("comment", LineEnd(t, i))
       ELSE IF Holds(t, i, <<"/", "*">>) THEN Tok("comment", CommentEnds(t)[i][0])
       ELSE IF t[i] \in {" ", "nl"} THEN Tok("space", i + 1)
       ELSE IF IsNameStart(t[i]) THEN Tok("word", NameRunEnd(t, i))
       ELSE IF t[i] \in Digits THEN Tok("number", NameRunEnd(t, i))
       ELSE Tok("punct", i + 1)

(* The tokens from a place on, each with where it starts, but for some.    *)
Lexed(t, escaping, but) ==
    LET From[i \in 1..(Len(t) + 1)] ==
            IF i > Len(t) THEN <<>>
            ELSE LET Then(k) ==
                         IF k.kind \in but THEN From[k.to]
                         ELSE <<[kind |-> k.kind, from |-> i, to |-> k.to]>> \o From[k.to]
                 IN Then(Token(t, i, escaping))
    IN From
Scan(t, escaping) == Lexed(t, escaping, {})[1]

(* Where the text is no syntax.  The E before a string is left aside.      *)
Literals == {"string", "quoted", "comment"}
Opens(t, i) == IF BeginsEscaping(t, i) THEN i + 1 ELSE i
NoSyntaxFrom(t, escaping) ==
    LET From[i \in 1..(Len(t) + 1)] ==
            IF i > Len(t) THEN {}
            ELSE LET Then(k) == (IF k.kind \in Literals THEN Opens(t, i)..(k.to - 1) ELSE {}) \cup From[k.to]
                 IN Then(Token(t, i, escaping))
    IN From
NoSyntax(t, escaping) == NoSyntaxFrom(t, escaping)[1]

(* The tokens that count; whether anything follows a semicolon, and whether *)
(* a statement does: a string or a quoted name begins none, and fails.      *)
Said(t, escaping) == Lexed(t, escaping, {"space", "comment"})[1]
IsSemicolon(t, k) == k.kind = "punct" /\ t[k.from] = ";"
FollowedBy(t, escaping, kinds) ==
    LET Has(said) == \E n, m \in DOMAIN said : n < m /\ IsSemicolon(t, said[n]) /\ said[m].kind \in kinds
    IN Has(Said(t, escaping))
TwoStatements(t, escaping) == FollowedBy(t, escaping, {"word", "number", "punct"})
SomethingFollows(t, escaping) ==
    FollowedBy(t, escaping, {"word", "number", "punct", "string", "quoted"})

(* A transaction command is one by its first word.                         *)
IsTheWord(t, k, words) == k.kind = "word" /\ k.to = k.from + 1 /\ t[k.from] \in words
Controls(t) ==
    LET CommandAt(said, n) == n <= Len(said) /\ IsTheWord(t, said[n], {"begin", "commit"})
        Command(said) == CommandAt(said, IF said # <<>> /\ t[said[1].from] = "(" THEN 2 ELSE 1)
    IN Command(Said(t, FALSE))
===============================================================================
