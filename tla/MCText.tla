-------------------------------- MODULE MCText --------------------------------
(***************************************************************************)
(* Texts grown a symbol at a time and statements a clause at a time, to    *)
(* hold what cypher.py and untrusted.py read in them against what they are.*)
(* A text is over a few symbols that bear on each other; a clause comes     *)
(* with what it means.                                                     *)
(***************************************************************************)
EXTENDS Cypher, UntrustedText

CONSTANTS MaxText, MaxName, MaxClauses

VARIABLES what,         \* what is given: a text, a name, a statement, ...
          setting,      \* what bears on it and stays as it is
          given         \* a sequence, grown by one at a time
text == given
clauses == given

Alphabets ==
    {{"q", "b", "E", "w", ";"}, {"q", "b", "Q", ";", " "}, {"$", "w", "1", "q", ";"},
     {"-", "/", "*", "nl", ";"}, {"Q", "q", "$", "-", ";"}, {"commit", "(", "-", "nl", "w"},
     {"set", "q", "/", "*", " "}}
NameSymbols == {"w", "W", "Q", "1", "match", " "}

Base == [bad |-> FALSE, columns |-> <<>>, groups |-> {}, limit |-> FALSE, opens |-> "none",
         param |-> FALSE, parts |-> 0, returns |-> FALSE, text |-> <<>>, word |-> ""]
Reads(t, parts) == [Base EXCEPT !.opens = "read", !.parts = parts, !.text = t]
Refused(t) == [Base EXCEPT !.bad = TRUE, !.opens = "read", !.text = t]
Walk(length) == <<"match", " ", "(", "w", ")", "-", "[", ":", "w", " ", "*">> \o length \o <<"]", "-", "(", "w", ")">>
Writing(t, word, groups) == [Base EXCEPT !.groups = groups, !.text = t, !.word = word]
Returns(t, columns) == [Base EXCEPT !.columns = columns, !.opens = "read", !.returns = TRUE, !.text = t]

Clause ==
    {Reads(<<"match", " ", "(", "w", ":", "create", ")">>, 1),
     Reads(<<"match", " ", "(", "w", " ", "{", "set", " ", ":", "1", "}", ")", ",", "(", "w", ")">>, 2),
     Reads(Walk(<<"1", ".", ".", "3">>), 2),
     [Reads(Walk(<<"9", " ", ".", ".", " ", "3">>), 2) EXCEPT !.opens = "read"],
     [Reads(Walk(<<"1", ".", ".", "9">>), 2) EXCEPT !.bad = TRUE],
     [Reads(Walk(<<"3", ".", ".">>), 2) EXCEPT !.bad = TRUE],
     [Reads(Walk(<<" ", ".", ".", "$", "1">>), 2) EXCEPT !.bad = TRUE, !.param = TRUE],
     [Reads(Walk(<<"3", ".", ".", " ", "%s">>), 2) EXCEPT !.bad = TRUE, !.param = TRUE],
     [Base EXCEPT !.text = <<"where", " ", "w", ".", "delete", "=", "q", "(", "q">>],
     Reads(<<"with", " ", "w", " ", "as", " ", "create">>, 0),
     [Reads(<<"with", " ", "w", " ", "limit", " ", "1">>, 0) EXCEPT !.limit = TRUE],
     [Writing(<<"create", " ", "(", "w", ")">>, "create", {1, 2}) EXCEPT !.opens = "write", !.parts = 1],
     Writing(<<"set", " ", "w", ".", "w", "=", "1">>, "set", {5}),
     Writing(<<"detach", " ", "delete", " ", "w">>, "detach", {3, 4}),
     Returns(<<"return", " ", "w", ".", "set", " ", "as", " ", "y", ",", "count", "(", "w", ")">>, <<"y", "">>),
     Returns(<<"return", " ", "count", "(", "w", ")", " ", "as", " ", "Q", "set", "Q", ",", "w">>, <<"set", "">>),
     Returns(<<"return", " ", "distinct", " ", "*">>, <<"*">>),
     [Returns(<<"return", " ", "[", "w", ",", "1", "]", " ", "limit", " ", "1">>, <<"">>) EXCEPT !.limit = TRUE],
     [Returns(<<"return", " ", "now", "(", ")">>, <<"">>) EXCEPT !.bad = TRUE],
     [Returns(<<"return", " ", "w", ".", "count", "(", "w", ")">>, <<"">>) EXCEPT !.bad = TRUE],
     Refused(<<"with", " ", "w", ")", "(", "w">>), Refused(<<"load", " ", "w">>)}

Statement ==
    LET Joined[i \in 0..Len(clauses)] ==
            IF i = 0 THEN <<>> ELSE Joined[i - 1] \o <<" ">> \o clauses[i].text
    IN Joined[Len(clauses)]

TextInit ==
    /\ what \in {"text", "name", "statement"}
    /\ setting \in IF what = "text" THEN Alphabets ELSE {NameSymbols}
Grows(limit, items) == Len(given) < limit /\ \E x \in items : given' = Append(given, x)
GrowText == what = "text" /\ Grows(MaxText, setting)
GrowName == what = "name" /\ Grows(MaxName, setting)
Continue ==
    /\ what = "statement" /\ \A i \in DOMAIN clauses : ~clauses[i].returns
    /\ Grows(MaxClauses, Clause)

-----------------------------------------------------------------------------
(* Properties.                                                             *)

Texts(t, toks) == [n \in DOMAIN toks |-> SubSeq(t, toks[n].from, toks[n].to - 1)]

(* without_literals leaves the syntax the server reads and nothing else,   *)
(* whichever way it reads a backslash; so two statements are refused, and  *)
(* one is not, and a command that ends the transaction is known by its     *)
(* first word; and a terminator taken off leaves the rest as it was.       *)
LexedAsTheServer ==
    what = "text" =>
        /\ \A escaping \in BOOLEAN : Blanked(text, escaping) = NoSyntax(text, escaping)
        /\ (\E escaping \in BOOLEAN : TwoStatements(text, escaping)) => RefusesMany(text)
        /\ RefusesMany(text) => \E escaping \in BOOLEAN : SomethingFollows(text, escaping)
        /\ EndsTransaction(text) <=> Controls(text)
        /\ \A said \in {Said(text, FALSE)} : said # <<>> =>
              /\ said[1].kind \notin {"string", "quoted"} =>
                    (IsSessionCommand(text) <=> IsTheWord(text, said[1], {"set"}))
              /\ said[Len(said)].kind \in {"word", "number", "punct"} =>
                    Texts(WithoutTerminator(text), Said(WithoutTerminator(text), FALSE)) =
                        Texts(text, IF IsSemicolon(text, said[Len(said)])
                                    THEN SubSeq(said, 1, Len(said) - 1) ELSE said)

(* Text that the reading of others' text can split, it splits as the server     *)
(* does: every word, mark, string and name begins and ends where the       *)
(* server's does.                                                          *)
SplitAsTheServer ==
    what = "text" =>
        \A escaping \in BOOLEAN :
            \A mine \in {Tokens(text, escaping)}, theirs \in {Said(text, escaping)} :
               Unreadable(mine) \/
               /\ Len(mine) = Len(theirs)
               /\ \A n \in DOMAIN mine : mine[n].from = theirs[n].from /\ mine[n].to = theirs[n].to

(* A name put into a statement is one name there, and the one it was.      *)
NameComesBack ==
    what = "name" /\ text # <<>> =>
        \A t \in {QuoteIdentifier(text)} : \A said \in {Scan(t, FALSE)} :
            LET Inside == SubSeq(t, 2, Len(t) - 1)
                Undoubled[i \in 1..(Len(t) + 1)] ==
                    IF i > Len(Inside) THEN <<>>
                    ELSE <<Inside[i]>> \o Undoubled[IF Inside[i] = "Q" THEN i + 2 ELSE i + 1]
            IN /\ Len(said) = 1
               /\ IF said[1].kind = "quoted" THEN Undoubled[1] = text
                  ELSE said[1].kind = "word" /\ t = text
                       /\ \A i \in DOMAIN t : t[i] \notin {"W", "match"}

(* Both readings of a text, the one that leaves out what is no syntax and   *)
(* the one into tokens, are the server's; and so is the name written into  *)
(* one.                                                                    *)
ReadAsTheServer == LexedAsTheServer /\ SplitAsTheServer /\ NameComesBack

Groups == UNION {clauses[i].groups : i \in DOMAIN clauses}
Returning == {i \in DOMAIN clauses : clauses[i].returns}
Passes(allow) ==
    /\ \A i \in DOMAIN clauses : ~clauses[i].bad
    /\ clauses[1].opens \in {"read"} \cup IF allow THEN {"write"} ELSE {}
    /\ allow \/ Groups = {}
    /\ LET Parts[i \in 0..Len(clauses)] == IF i = 0 THEN 0 ELSE Parts[i - 1] + clauses[i].parts
       IN Parts[Len(clauses)] <= MaxPatternParts

(* A statement is read for what it is: its first write, the counters it can *)
(* move, a parameter for a walk's length; and as others' text it is passed  *)
(* exactly where nothing in it is refused, with the columns its RETURN     *)
(* names.                                                                  *)
StatementReadForWhatItIs ==
    what = "statement" /\ clauses # <<>> =>
        \A t \in {Statement} : \A toks \in {Tokens(Body(t), FALSE)} :
           /\ FirstWriteClause(t) =
                LET at == LeastOf({i \in DOMAIN clauses : clauses[i].word # ""}, 0)
                IN IF at = 0 THEN "" ELSE clauses[at].word
           /\ RefusesLength(t) <=> \E i \in DOMAIN clauses : clauses[i].param
           /\ \A allow \in BOOLEAN : Check(t, allow) <=> Passes(allow)
           /\ Passes(TRUE) =>
                 /\ Writes(toks) <=> Groups # {}
                 /\ Wrappable(toks) <=> Groups = {} /\ clauses[1].text[1] # "with"
                 /\ LimitsMidStatement(toks) <=>
                       \E i, j \in DOMAIN clauses : i < j /\ clauses[i].limit /\ clauses[j].opens = "read"
                 /\ ReturnColumns(toks) =
                       IF Returning = {} THEN <<>>
                       ELSE clauses[CHOOSE i \in Returning : \A j \in Returning : j <= i].columns

(* The counters: a write without RETURN zeroes them all as it starts, one   *)
(* with it those of its clauses, and a read none.                          *)
CountedTruly ==
    what = "statement" /\ Returning \cup Groups # {} =>
        LET t == Statement
            zeroed == IF Returning = {} /\ Groups # {} THEN 1..5 ELSE Groups
        IN \A i \in 1..5, before, did \in 0..2 :
               (i \notin Groups => did = 0) =>
                   LET after == IF i \in zeroed THEN did ELSE before
                   IN /\ CountsFor(t, i, before, after) \in {did, Unknown}
                      /\ Returning = {} => CountsFor(t, i, before, after) = did

(* The driver knows of a statement what the server does with it: whether   *)
(* it writes and what, its columns, and which counters are its own.        *)
ReadForWhatItIs == StatementReadForWhatItIs /\ CountedTruly
===============================================================================
