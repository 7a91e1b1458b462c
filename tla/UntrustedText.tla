----------------------------- MODULE UntrustedText -----------------------------
(***************************************************************************)
(* How untrusted.py reads a statement nobody here wrote: its tokens, and    *)
(* what it refuses or notes of them.  Whether a refused text would have    *)
(* done harm is the server's to say; here is what the reading decides.     *)
(***************************************************************************)
EXTENDS ServerText

CONSTANTS MaxHops, MaxPatternParts

Opening == {"(", "[", "{"}
Closing == {")", "]", "}"}

Refusal == [kind |-> "refused", to |-> 0, value |-> ""]
IsPunct(k, S) == k.kind = "punct" /\ k.value \in S
IsWord(k, S) == k.kind = "word" /\ k.value \in S

(* One token at i, or a refusal: of a comment, a dollar, a string or a     *)
(* quoted name that is never closed.                                       *)
ClosingEnds(t, quote, escaping) ==
    LET In[p \in 1..(Len(t) + 2)] ==
            IF p > Len(t) THEN 0
            ELSE IF t[p] = "b" /\ escaping THEN In[p + 2]
            ELSE IF t[p] # quote THEN In[p + 1]
            ELSE IF Sym(t, p + 1) = quote THEN In[p + 2] ELSE p + 1
    IN In

OneOf(t, i, to) == IF to = i + 1 THEN t[i] ELSE "name"
TokenAt(t, i, escaping) ==
    LET Tok(kind, value, to) ==
            IF to = 0 THEN Refusal ELSE [kind |-> kind, to |-> to, value |-> value]
    IN IF t[i] \in {" ", "nl"} THEN Tok("space", "", i + 1)
       ELSE IF Holds(t, i, <<"-", "-">>) \/ Holds(t, i, <<"/", "*">>) \/ t[i] = "$" THEN Refusal
       ELSE IF t[i] = "q" THEN Tok("string", "", ClosingEnds(t, "q", escaping)[i + 1])
       ELSE IF BeginsEscaping(t, i) THEN Tok("string", "", ClosingEnds(t, "q", TRUE)[i + 2])
       ELSE IF t[i] = "Q" THEN LET to == ClosingEnds(t, "Q", FALSE)[i + 1]
                               IN Tok("quoted", OneOf(t, i + 1, to - 1), to)
       ELSE IF IsNameStart(t[i]) THEN Tok("word", OneOf(t, i, NameRunEnd(t, i)), NameRunEnd(t, i))
       ELSE IF t[i] \in Digits THEN Tok("number", t[i], NameRunEnd(t, i))
       ELSE Tok("punct", t[i], i + 1)

TokensFrom(t, escaping) ==
    LET From[i \in 1..(Len(t) + 1)] ==
            IF i > Len(t) THEN <<>>
            ELSE LET Then(k) ==
                         IF k.kind = "refused" THEN <<k>>
                         ELSE IF k.kind = "space" THEN From[k.to]
                         ELSE <<[from |-> i, kind |-> k.kind, to |-> k.to, value |-> k.value]>> \o From[k.to]
                 IN Then(TokenAt(t, i, escaping))
    IN From
Tokens(t, escaping) == TokensFrom(t, escaping)[1]
Unreadable(toks) == \E n \in DOMAIN toks : toks[n].kind = "refused"

-----------------------------------------------------------------------------
Clauses == {"match", "optional", "with", "unwind", "return"}
FirstWrites == {"create", "merge"}
WriteWords == {"create", "merge", "set", "delete", "detach", "remove"}
RefusedWords == {"explain", "select", "load", "call", "union", "from"}
Limits == {"order", "skip", "limit"}
Keywords == Clauses \cup WriteWords \cup Limits \cup {"where", "as", "distinct", "in", "and", "on", "by"}
AllowedFunctions == {"count"}

(* A word after a dot, a colon or AS, or before a colon, is a name.        *)
IsName(toks, n) ==
    \/ n > 1 /\ (IsPunct(toks[n - 1], {".", ":"}) \/ IsWord(toks[n - 1], {"as"}))
    \/ n < Len(toks) /\ IsPunct(toks[n + 1], {":"})
BareWords(toks) ==
    {toks[n].value : n \in {n \in DOMAIN toks : toks[n].kind = "word" /\ ~IsName(toks, n)}}

(* The brackets a token stands in: its own, where it closes one, left out.  *)
Nesting(toks, n) ==
    Cardinality({m \in 1..(n - 1) : IsPunct(toks[m], Opening)})
        - Cardinality({m \in 1..n : IsPunct(toks[m], Closing)})
Balanced(toks) ==
    /\ \A n \in DOMAIN toks :
          Cardinality({m \in 1..n : IsPunct(toks[m], Opening)})
              >= Cardinality({m \in 1..n : IsPunct(toks[m], Closing)})
    /\ Cardinality({n \in DOMAIN toks : IsPunct(toks[n], Opening)})
           = Cardinality({n \in DOMAIN toks : IsPunct(toks[n], Closing)})

(* A name before a bracket is a call, of one of Cypher's own functions.    *)
FunctionsAllowed(toks) ==
    \A n \in 1..(Len(toks) - 1) :
        IsPunct(toks[n + 1], {"("}) /\ toks[n].kind \in {"word", "quoted"} =>
            /\ n > 1 => ~IsPunct(toks[n - 1], {"."})
            /\ IsWord(toks[n], Keywords) \/ toks[n].value \in AllowedFunctions

(* Patterns are counted, and the bound of every walk held to the limit.    *)
Number(d) == CASE d = "1" -> 1 [] d = "3" -> 3 [] d = "9" -> 9
OpensANode(toks, n) ==
    /\ n > 1 /\ IsPunct(toks[n], {"("})
    /\ \/ IsPunct(toks[n - 1], {"-", "<", ">", ",", "="})
       \/ IsWord(toks[n - 1], {"match", "merge", "create"})
WalkBounded(t, toks, n) ==
    LET After(detail, i) == LeastOf({j \in i..Len(detail) : detail[j] # " "}, Len(detail) + 1)
        Small(detail, bound) == Sym(detail, bound) \in Digits /\ Number(detail[bound]) <= MaxHops
        Upper(detail, low, dots) == IF Holds(detail, dots, <<".", ".">>) THEN After(detail, dots + 2) ELSE low
        Ranged(detail, low) ==
            Small(detail, Upper(detail, low, IF Sym(detail, low) \in Digits THEN After(detail, low + 1) ELSE low))
        Starred(detail, star) == star = 0 \/ Ranged(detail, After(detail, star + 1))
        Detail(detail) == Starred(detail, LeastOf({i \in DOMAIN detail : detail[i] = "*"}, 0))
        close == LeastOf({m \in (n + 1)..Len(toks) : IsPunct(toks[m], {"]"})}, n)
    IN Detail(SubSeq(t, toks[n].from + 1, toks[close].from - 1))
WalksBounded(t, toks) ==
    /\ Cardinality({n \in DOMAIN toks : OpensANode(toks, n)}) <= MaxPatternParts
    /\ \A n \in 2..Len(toks) :
          IsPunct(toks[n], {"["}) /\ IsPunct(toks[n - 1], {"-", "<"}) => WalkBounded(t, toks, n)

-----------------------------------------------------------------------------
(* The alias of each item of the final RETURN, "" for one without, or "*".  *)
Top(toks, n, S) == Nesting(toks, n) = 0 /\ IsWord(toks[n], S)
Alias(toks, first, last) ==
    IF last > first /\ IsWord(toks[last - 1], {"as"}) /\ toks[last].kind \in {"word", "quoted"}
    THEN toks[last].value ELSE ""

ReturnColumns(toks) ==
    LET returns == {n \in DOMAIN toks : Top(toks, n, {"return"})}
        at == CHOOSE n \in returns : \A m \in returns : m <= n
        end == LeastOf({n \in (at + 1)..Len(toks) : Top(toks, n, Limits)}, Len(toks) + 1)
        star == LeastOf({n \in (at + 1)..Len(toks) : ~IsWord(toks[n], {"distinct"})}, 0)
        Items[n \in 0..Len(toks)] ==
            LET comma == LeastOf({m \in n..(end - 1) : Nesting(toks, m) = 0 /\ IsPunct(toks[m], {","})}, end)
                item == IF n < comma THEN <<Alias(toks, n, comma - 1)>> ELSE <<>>
            IN IF n >= end THEN <<>>
               ELSE IF comma = end THEN item
               ELSE <<Alias(toks, n, comma - 1)>> \o Items[comma + 1]
    IN IF returns = {} THEN <<>>
       ELSE IF Len(Items[at + 1]) = 1 /\ star # 0 /\ IsPunct(toks[star], {"*"}) THEN <<"*">>
       ELSE Items[at + 1]

LimitsMidStatement(toks) ==
    \E n, m \in DOMAIN toks : n < m /\ Top(toks, n, Limits) /\ Top(toks, m, Clauses)

(* The whole reading: both ways where a backslash could make them differ.   *)
Fit(t, toks, allowWrites) ==
    /\ ~Unreadable(toks) /\ toks # <<>>
    /\ \A n \in DOMAIN toks : ~IsPunct(toks[n], {";"})
    /\ IsWord(toks[1], Clauses \cup IF allowWrites THEN FirstWrites ELSE {})
    /\ BareWords(toks) \cap RefusedWords = {}
    /\ allowWrites \/ BareWords(toks) \cap WriteWords = {}
    /\ Balanced(toks) /\ FunctionsAllowed(toks) /\ WalksBounded(t, toks)

Blank == {" ", "nl"}
SaidUpTo(t) == LeastOf({n \in 0..Len(t) : \A i \in (n + 1)..Len(t) : t[i] \in Blank}, 0)
Stripped(t) == SubSeq(t, LeastOf({i \in 1..SaidUpTo(t) : t[i] \notin Blank}, 1), SaidUpTo(t))
Body(t) ==
    LET s == Stripped(t)
    IN IF s # <<>> /\ s[Len(s)] = ";" THEN SubSeq(s, 1, SaidUpTo(SubSeq(s, 1, Len(s) - 1))) ELSE s

Check(t, allowWrites) ==
    LET Readings(body) == IF \E i \in DOMAIN body : body[i] = "b" THEN BOOLEAN ELSE {FALSE}
        Checked(body) == \A escaping \in Readings(body) : Fit(body, Tokens(body, escaping), allowWrites)
    IN Checked(Body(t))

Writes(toks) == BareWords(toks) \cap WriteWords # {}
Wrappable(toks) == toks[1].value # "with" /\ ~Writes(toks)
===============================================================================
