---------------------------- MODULE SessionProofs ----------------------------
(***************************************************************************)
(* Proofs about what a connection remembers of its session, for any        *)
(* limits, any graphs and blocks nested to any depth.                      *)
(***************************************************************************)
EXTENDS Session, SequenceTheorems, TLAPS

IsTransaction(block) == block.kind = "transaction"

(* Each open transaction block has a savepoint of its own, one deeper than *)
(* that of the transaction block around it, among the n there are.         *)
Shape(b, n) ==
    /\ \A i \in 1..Len(b) : b[i].depth <= n
    /\ \A i \in 1..Len(b) :
          IF IsTransaction(b[i]) THEN b[i].depth \in 1..(i + 1) ELSE b[i].depth = 0
    /\ \A i, j \in 1..Len(b) :
          i < j /\ IsTransaction(b[i]) /\ IsTransaction(b[j]) => b[i].depth < b[j].depth
    /\ \A j \in 1..Len(b) :
          IsTransaction(b[j]) /\ b[j].depth > 2 =>
             \E i \in 1..(j - 1) : IsTransaction(b[i]) /\ b[i].depth = b[j].depth - 1

(* The server has no others but the transaction psycopg opened by itself.  *)
Tight(b, n) == n > 1 => \E i \in 1..Len(b) : IsTransaction(b[i]) /\ b[i].depth = n

(* A refused release leaves a savepoint behind, in a failed transaction.   *)
Nested == Shape(blocks, Len(saved)) /\ (~failed => Tight(blocks, Len(saved)))

(* What the note will be put back to is what the server will go back to.   *)
(* NoteIsTheServers is not inductive without it.                           *)
NoteInv ==
    /\ NoteIsTheServers
    /\ "timeout" \notin lapses /\ saved # <<>> =>
          saved[1].timeout = IF setInside THEN before ELSE note
    /\ "timeout" \notin lapses /\ setInside => saved # <<>>
    /\ "pending" \in lapses => saved # <<>>

(* A path the client has not seen move inside the transaction is the one   *)
(* every savepoint goes back to.                                           *)
LabelInv ==
    /\ LabelsAreTheGraphs
    /\ reports => table \in {NoGraph, seen} /\ ("unread" \notin lapses => seen = settings.path)
    /\ "path" \notin lapses /\ ~reports /\ ~autocommit /\ ~pathInside =>
          \A i \in 1..Len(saved) : saved[i].path = settings.path

IInv == TypeOK /\ Nested /\ NoteInv /\ LabelInv

-----------------------------------------------------------------------------
(* A sequence cut short keeps its first elements.                          *)
LEMMA Shorter ==
  ASSUME NEW S, NEW s \in Seq(S), NEW n \in 0..Len(s)
  PROVE  /\ SubSeq(s, 1, n) \in Seq(S)
         /\ Len(SubSeq(s, 1, n)) = n
         /\ \A i \in 1..n : SubSeq(s, 1, n)[i] = s[i]
<1>1. \A i \in 1..n : s[i] \in S
  BY ElementOfSeq
<1> QED BY <1>1, SubSeqProperties, LenProperties

(* A sequence with one element more.                                       *)
LEMMA Longer ==
  ASSUME NEW S, NEW s \in Seq(S), NEW e \in S
  PROVE  /\ Append(s, e) \in Seq(S)
         /\ Len(Append(s, e)) = Len(s) + 1
         /\ \A i \in 1..Len(s) : Append(s, e)[i] = s[i]
         /\ Append(s, e)[Len(s) + 1] = e
         /\ Append(s, e) # <<>>
OBVIOUS

(* The implicit transaction: there is one already, none is wanted, or it   *)
(* begins from the settings as they are.                                   *)
LEMMA BegunIs ==
  ASSUME TypeOK
  PROVE  /\ Begun \in Seq(Settings) /\ Len(Begun) <= MaxBlocks + 1
         /\ Len(Begun) >= Len(saved) /\ Len(saved) \in Nat
         /\ \/ Begun = saved
            \/ saved = <<>> /\ ~autocommit /\ Begun = <<settings>>
<1>1. <<settings>> \in Seq(Settings) /\ Len(<<settings>>) = 1
  BY DEF TypeOK
<1>2. Len(saved) \in Nat /\ Len(<<>>) = 0
  BY LenProperties, EmptySeq DEF TypeOK
<1> QED BY <1>1, <1>2, SessionAssumption DEF TypeOK, Begun, Idle

(* The innermost block, and what is left when it closes.                   *)
LEMMA ClosedIs ==
  ASSUME TypeOK, blocks # <<>>, Close
  PROVE  /\ Len(blocks) \in 1..MaxBlocks
         /\ Innermost \in Blocks /\ Innermost = blocks[Len(blocks)]
         /\ Innermost.depth \in 0..Len(saved)
         /\ blocks' \in Seq(Blocks) /\ Len(blocks') = Len(blocks) - 1
         /\ \A i \in 1..Len(blocks') : blocks'[i] = blocks[i]
<1>1. Len(blocks) \in 1..MaxBlocks
  BY EmptySeq, LenProperties, SessionAssumption DEF TypeOK
<1>2. Innermost \in Blocks /\ Innermost = blocks[Len(blocks)]
  BY <1>1, ElementOfSeq DEF TypeOK, Innermost
<1>3. Innermost.depth \in 0..Len(saved)
  BY <1>1, <1>2, LenProperties DEF TypeOK, Blocks
<1>4. Len(blocks) - 1 \in 0..Len(blocks)
  BY <1>1
<1>5. /\ blocks' \in Seq(Blocks) /\ Len(blocks') = Len(blocks) - 1
      /\ \A i \in 1..Len(blocks') : blocks'[i] = blocks[i]
  BY <1>4, Shorter DEF Close, TypeOK
<1> QED BY <1>1, <1>2, <1>3, <1>5

-----------------------------------------------------------------------------
(* What opening and closing a block do to the nesting.                     *)
LEMMA ElementIs ==
  ASSUME NEW b \in Seq(Blocks), NEW i \in 1..Len(b)
  PROVE  /\ b[i].depth \in Nat /\ b[i].kind \in {"deadline", "transaction"}
         /\ Len(b) \in Nat /\ i \in Nat /\ i > 0
<1>1. b[i] \in Blocks /\ Len(b) \in Nat
  BY ElementOfSeq, LenProperties
<1> QED BY <1>1, SessionAssumption DEF Blocks

(* More savepoints than the blocks need do no harm.                        *)
LEMMA ShapeGrows ==
  ASSUME NEW b \in Seq(Blocks), NEW n \in Nat, NEW m \in Nat, n <= m, Shape(b, n)
  PROVE  Shape(b, m)
<1>1. \A i \in 1..Len(b) : b[i].depth <= m
  <2> SUFFICES ASSUME NEW i \in 1..Len(b) PROVE b[i].depth <= m
    OBVIOUS
  <2>1. b[i].depth \in Nat /\ b[i].depth <= n
    BY ElementIs DEF Shape
  <2> QED BY <2>1
<1> QED BY <1>1 DEF Shape

(* Deadlines alone need no savepoint.                                      *)
LEMMA ShapeEmpty ==
  ASSUME NEW b \in Seq(Blocks), NEW n \in Nat, Shape(b, n),
         \A i \in 1..Len(b) : ~IsTransaction(b[i])
  PROVE  Shape(b, 0) /\ Tight(b, 0)
<1>1. \A i \in 1..Len(b) : b[i].depth = 0
  BY DEF Shape
<1> QED BY <1>1 DEF Shape, Tight

(* A block entered on top keeps the nesting.                               *)
LEMMA ShapeLonger ==
  ASSUME NEW b \in Seq(Blocks), NEW n \in Nat, NEW e \in Blocks,
         Shape(b, n), Tight(b, n),
         \/ e.kind = "deadline" /\ e.depth = 0
         \/ e.kind = "transaction" /\ e.depth = n + 1
  PROVE  /\ IsTransaction(e) => Shape(Append(b, e), n + 1) /\ Tight(Append(b, e), n + 1)
         /\ ~IsTransaction(e) => Shape(Append(b, e), n) /\ Tight(Append(b, e), n)
<1> DEFINE c == Append(b, e)
           l == Len(b)
           m == IF IsTransaction(e) THEN n + 1 ELSE n
<1>1. /\ l \in Nat /\ Len(c) = l + 1 /\ c[l + 1] = e
      /\ \A i \in 1..(l + 1) : i = l + 1 \/ (i \in 1..l /\ c[i] = b[i])
      /\ m \in Nat /\ n <= m
  BY Longer, LenProperties
<1>2. IsTransaction(e) => e.depth = n + 1 /\ m = n + 1
  BY DEF IsTransaction
<1>3. ~IsTransaction(e) => e.depth = 0 /\ m = n
  BY DEF IsTransaction
<1>4. \A i \in 1..l : b[i].depth \in Nat /\ b[i].depth <= n
  BY ElementIs DEF Shape
<1>5. n <= l + 1
  <2>1. CASE n <= 1
    BY <1>1, <2>1
  <2>2. CASE n > 1
    <3>1. PICK i \in 1..l : IsTransaction(b[i]) /\ b[i].depth = n
      BY <2>2 DEF Tight
    <3>2. n \in 1..(i + 1)
      BY <3>1 DEF Shape
    <3> QED BY <1>1, <3>1, <3>2
  <2> QED BY <2>1, <2>2
<1> HIDE DEF c, l, m
<1>6. \A i \in 1..(l + 1) : c[i].depth <= m
  <2> SUFFICES ASSUME NEW i \in 1..(l + 1) PROVE c[i].depth <= m
    OBVIOUS
  <2>1. CASE i = l + 1
    BY <1>1, <1>2, <1>3, <2>1
  <2>2. CASE i \in 1..l /\ c[i] = b[i]
    BY <1>1, <1>4, <2>2
  <2> QED BY <1>1, <2>1, <2>2
<1>7. \A i \in 1..(l + 1) :
        IF IsTransaction(c[i]) THEN c[i].depth \in 1..(i + 1) ELSE c[i].depth = 0
  <2> SUFFICES ASSUME NEW i \in 1..(l + 1)
               PROVE  IF IsTransaction(c[i]) THEN c[i].depth \in 1..(i + 1) ELSE c[i].depth = 0
    OBVIOUS
  <2>1. CASE i = l + 1
    BY <1>1, <1>2, <1>3, <1>5, <2>1
  <2>2. CASE i \in 1..l /\ c[i] = b[i]
    BY <2>2 DEF Shape, l
  <2> QED BY <1>1, <2>1, <2>2
<1>8. \A i, j \in 1..(l + 1) :
        i < j /\ IsTransaction(c[i]) /\ IsTransaction(c[j]) => c[i].depth < c[j].depth
  <2> SUFFICES ASSUME NEW i \in 1..(l + 1), NEW j \in 1..(l + 1), i < j,
                      IsTransaction(c[i]), IsTransaction(c[j])
               PROVE  c[i].depth < c[j].depth
    OBVIOUS
  <2>1. i \in 1..l /\ c[i] = b[i]
    BY <1>1
  <2>2. CASE j = l + 1
    BY <1>1, <1>2, <1>4, <2>1, <2>2
  <2>3. CASE j \in 1..l /\ c[j] = b[j]
    BY <2>1, <2>3 DEF Shape, l
  <2> QED BY <1>1, <2>2, <2>3
<1>9. \A j \in 1..(l + 1) :
        IsTransaction(c[j]) /\ c[j].depth > 2 =>
           \E i \in 1..(j - 1) : IsTransaction(c[i]) /\ c[i].depth = c[j].depth - 1
  <2> SUFFICES ASSUME NEW j \in 1..(l + 1), IsTransaction(c[j]), c[j].depth > 2
               PROVE  \E i \in 1..(j - 1) : IsTransaction(c[i]) /\ c[i].depth = c[j].depth - 1
    OBVIOUS
  <2>1. CASE j = l + 1
    <3>1. n > 1 /\ c[j].depth - 1 = n
      BY <1>1, <1>2, <2>1
    <3>2. PICK i \in 1..l : IsTransaction(b[i]) /\ b[i].depth = n
      BY <3>1 DEF Tight, l
    <3>3. i \in 1..(j - 1) /\ c[i] = b[i]
      BY <1>1, <2>1, <3>2
    <3> QED BY <3>1, <3>2, <3>3
  <2>2. CASE j \in 1..l /\ c[j] = b[j]
    <3>1. PICK i \in 1..(j - 1) : IsTransaction(b[i]) /\ b[i].depth = b[j].depth - 1
      BY <2>2 DEF Shape, l
    <3>2. c[i] = b[i]
      BY <1>1, <2>2, <3>1
    <3> QED BY <2>2, <3>1, <3>2
  <2> QED BY <1>1, <2>1, <2>2
<1>10. Tight(c, m)
  <2>1. CASE IsTransaction(e)
    <3>1. l + 1 \in 1..Len(c)
      BY <1>1
    <3> QED BY <1>1, <1>2, <2>1, <3>1 DEF Tight
  <2>2. CASE ~IsTransaction(e) /\ n > 1
    <3>1. PICK i \in 1..l : IsTransaction(b[i]) /\ b[i].depth = n
      BY <2>2 DEF Tight, l
    <3>2. i \in 1..Len(c) /\ c[i] = b[i]
      BY <1>1, <3>1
    <3> QED BY <1>3, <2>2, <3>1, <3>2 DEF Tight
  <2>3. CASE ~IsTransaction(e) /\ ~(n > 1)
    BY <1>3, <2>3 DEF Tight
  <2> QED BY <2>1, <2>2, <2>3
<1>11. Shape(c, m)
  BY <1>1, <1>6, <1>7, <1>8, <1>9 DEF Shape
<1> QED BY <1>2, <1>3, <1>10, <1>11 DEF c

(* The innermost block left, what remains is nested in what remains.       *)
LEMMA ShapeShorter ==
  ASSUME NEW b \in Seq(Blocks), NEW n \in Nat, Shape(b, n), Len(b) > 0
  PROVE  LET c == SubSeq(b, 1, Len(b) - 1)
             e == b[Len(b)]
         IN /\ Shape(c, n)
            /\ ~IsTransaction(e) /\ Tight(b, n) => Tight(c, n)
            /\ IsTransaction(e) =>
                  /\ e.depth \in 1..n
                  /\ Shape(c, e.depth - 1) /\ Tight(c, e.depth - 1)
<1> DEFINE l == Len(b) - 1
           c == SubSeq(b, 1, l)
           e == b[Len(b)]
<1>1. /\ l \in Nat /\ Len(b) = l + 1 /\ Len(c) = l
      /\ \A i \in 1..l : c[i] = b[i] /\ i \in 1..(l + 1) /\ i < l + 1
      /\ l + 1 \in 1..(l + 1)
  <2>1. Len(b) \in Nat
    BY LenProperties
  <2>2. l \in 0..Len(b) /\ l \in Nat /\ Len(b) = l + 1
    BY <2>1
  <2>3. Len(c) = l /\ \A i \in 1..l : c[i] = b[i]
    BY <2>2, Shorter
  <2> HIDE DEF c, l
  <2> QED BY <2>2, <2>3
<1> HIDE DEF l, c
<1>2. \A i \in 1..(l + 1) : b[i].depth \in Nat
  BY <1>1, ElementIs
<1>3. \A i \in 1..l : IF IsTransaction(c[i]) THEN c[i].depth \in 1..(i + 1) ELSE c[i].depth = 0
  BY <1>1 DEF Shape
<1>4. \A i, j \in 1..l :
        i < j /\ IsTransaction(c[i]) /\ IsTransaction(c[j]) => c[i].depth < c[j].depth
  BY <1>1 DEF Shape
<1>5. \A j \in 1..l :
        IsTransaction(c[j]) /\ c[j].depth > 2 =>
           \E i \in 1..(j - 1) : IsTransaction(c[i]) /\ c[i].depth = c[j].depth - 1
  <2> SUFFICES ASSUME NEW j \in 1..l, IsTransaction(c[j]), c[j].depth > 2
               PROVE  \E i \in 1..(j - 1) : IsTransaction(c[i]) /\ c[i].depth = c[j].depth - 1
    OBVIOUS
  <2>1. c[j] = b[j] /\ j \in 1..(l + 1)
    BY <1>1
  <2>2. PICK i \in 1..(j - 1) : IsTransaction(b[i]) /\ b[i].depth = b[j].depth - 1
    BY <1>1, <2>1 DEF Shape
  <2>3. i \in 1..l
    BY <1>1
  <2> QED BY <1>1, <2>1, <2>2, <2>3
<1>6. \A m \in Nat : (\A i \in 1..l : c[i].depth <= m) => Shape(c, m)
  BY <1>1, <1>3, <1>4, <1>5 DEF Shape
<1>7. Shape(c, n)
  BY <1>1, <1>6 DEF Shape
<1>8. ASSUME ~IsTransaction(e), Tight(b, n) PROVE Tight(c, n)
  <2> SUFFICES ASSUME n > 1 PROVE \E i \in 1..l : IsTransaction(c[i]) /\ c[i].depth = n
    BY <1>1 DEF Tight
  <2>1. PICK i \in 1..(l + 1) : IsTransaction(b[i]) /\ b[i].depth = n
    BY <1>1, <1>8 DEF Tight
  <2>2. i # l + 1
    BY <1>1, <1>8, <2>1
  <2>3. i \in 1..l /\ c[i] = b[i]
    BY <1>1, <2>2
  <2> QED BY <2>1, <2>3
<1>9. ASSUME IsTransaction(e)
      PROVE  /\ e.depth \in 1..n
             /\ Shape(c, e.depth - 1) /\ Tight(c, e.depth - 1)
  <2>1. e = b[l + 1] /\ e.depth \in 1..n
    <3>1. e = b[l + 1]
      BY <1>1
    <3>2. e.depth <= n /\ e.depth \in 1..(l + 2)
      BY <1>1, <1>9, <3>1 DEF Shape
    <3> QED BY <3>1, <3>2
  <2>2. \A i \in 1..l : c[i].depth <= e.depth - 1
    <3> SUFFICES ASSUME NEW i \in 1..l PROVE c[i].depth <= e.depth - 1
      OBVIOUS
    <3>1. c[i] = b[i] /\ b[i].depth \in Nat
      BY <1>1, <1>2
    <3>2. CASE IsTransaction(b[i])
      <4>1. b[i].depth < b[l + 1].depth
        BY <1>1, <1>9, <2>1, <3>2 DEF Shape
      <4> QED BY <2>1, <3>1, <4>1
    <3>3. CASE ~IsTransaction(b[i])
      <4>1. c[i].depth = 0
        BY <1>3, <3>1, <3>3
      <4> QED BY <2>1, <4>1
    <3> QED BY <3>2, <3>3
  <2>3. Shape(c, e.depth - 1)
    BY <1>6, <2>1, <2>2
  <2>4. Tight(c, e.depth - 1)
    <3> SUFFICES ASSUME e.depth - 1 > 1
                 PROVE  \E i \in 1..l : IsTransaction(c[i]) /\ c[i].depth = e.depth - 1
      BY <1>1 DEF Tight
    <3>1. PICK i \in 1..l : IsTransaction(b[i]) /\ b[i].depth = e.depth - 1
      <4>1. e.depth > 2 /\ (l + 1) - 1 = l
        BY <1>1, <2>1
      <4> QED BY <1>1, <1>9, <2>1, <4>1 DEF Shape
    <3> QED BY <1>1, <3>1
  <2> QED BY <2>1, <2>3, <2>4
<1> QED BY <1>7, <1>8, <1>9 DEF c, l

-----------------------------------------------------------------------------
(* The part of TypeOK that is about blocks and savepoints, with Nested.    *)
Fits ==
    /\ saved \in Seq(Settings) /\ Len(saved) <= MaxBlocks + 1
    /\ blocks \in Seq(Blocks) /\ Len(blocks) <= MaxBlocks
    /\ Nested

(* A statement may begin a transaction, which no block is then inside.     *)
LEMMA BegunFits ==
  ASSUME TypeOK, Nested, NEW s \in {saved, Begun}
  PROVE  /\ s \in Seq(Settings) /\ Len(s) \in Nat /\ Len(s) <= MaxBlocks + 1
         /\ Shape(blocks, Len(s)) /\ (~failed => Tight(blocks, Len(s)))
<1>1. Len(saved) \in Nat /\ saved \in Seq(Settings) /\ Len(saved) <= MaxBlocks + 1
  BY LenProperties DEF TypeOK
<1>2. CASE s = saved
  BY <1>1, <1>2 DEF Nested
<1>3. CASE saved = <<>> /\ s = <<settings>>
  <2>1. Len(s) = 1 /\ Len(saved) = 0 /\ s \in Seq(Settings)
    BY <1>3 DEF TypeOK
  <2>2. Shape(blocks, 1)
    <3>1. blocks \in Seq(Blocks) /\ Shape(blocks, 0)
      BY <2>1 DEF Nested, TypeOK
    <3> QED BY <3>1, ShapeGrows
  <2> QED BY <2>1, <2>2, SessionAssumption DEF Tight
<1> QED BY <1>1, <1>2, <1>3, BegunIs

(* A statement that may begin a transaction keeps the nesting.             *)
LEMMA StatementFits ==
  ASSUME TypeOK, Nested, blocks' = blocks, saved' \in {saved, Begun}, ~failed' => ~failed
  PROVE  Fits'
<1>1. /\ saved' \in Seq(Settings) /\ Len(saved') <= MaxBlocks + 1
      /\ Shape(blocks, Len(saved')) /\ (~failed => Tight(blocks, Len(saved')))
  BY BegunFits
<1>2. Nested'
  BY <1>1 DEF Nested
<1> QED BY <1>1, <1>2 DEF Fits, TypeOK

(* A transaction ends that no transaction block is open around.            *)
LEMMA EndFits ==
  ASSUME TypeOK, Nested, ~InTransactionBlock, blocks' = blocks, saved' = <<>>
  PROVE  Fits'
<1>1. Len(saved) \in Nat /\ blocks \in Seq(Blocks) /\ Shape(blocks, Len(saved))
  BY LenProperties DEF TypeOK, Nested
<1>2. Shape(blocks, 0) /\ Tight(blocks, 0)
  BY <1>1, ShapeEmpty DEF InTransactionBlock, IsTransaction
<1>3. saved' \in Seq(Settings) /\ Len(saved') = 0
  BY EmptySeq
<1>4. Nested'
  BY <1>2, <1>3 DEF Nested
<1> QED BY <1>3, <1>4, SessionAssumption DEF Fits, TypeOK

(* Entering deadline() keeps the nesting.                                  *)
LEMMA DeadlineOpens ==
  ASSUME TypeOK, Nested, NEW n \in Limits, EnterDeadline(n)
  PROVE  Fits'
<1> DEFINE e == [kind |-> "deadline", depth |-> 0]
<1>1. e \in Blocks /\ e.kind = "deadline" /\ e.depth = 0 /\ ~IsTransaction(e)
  BY SessionAssumption DEF Blocks, IsTransaction
<1>2. ~failed /\ saved' = Begun /\ blocks' = Append(blocks, e) /\ ~failed' /\ Len(blocks) < MaxBlocks
  BY DEF EnterDeadline, SetTimeout, Open, Room, TypeOK
<1>3. /\ saved' \in Seq(Settings) /\ Len(saved') \in Nat /\ Len(saved') <= MaxBlocks + 1
      /\ Shape(blocks, Len(saved')) /\ Tight(blocks, Len(saved'))
  BY <1>2, BegunFits
<1>4. blocks \in Seq(Blocks) /\ Len(blocks) \in Nat
  BY LenProperties DEF TypeOK
<1> HIDE DEF e
<1>5. Shape(blocks', Len(saved')) /\ Tight(blocks', Len(saved'))
  BY <1>1, <1>2, <1>3, <1>4, ShapeLonger
<1>6. blocks' \in Seq(Blocks) /\ Len(blocks') <= MaxBlocks
  BY <1>1, <1>2, <1>4, Longer, SessionAssumption
<1> QED BY <1>3, <1>5, <1>6 DEF Fits, Nested

(* Entering transaction() keeps the nesting: one more block, one more      *)
(* savepoint.                                                              *)
LEMMA TransactionOpens ==
  ASSUME TypeOK, Nested, EnterTransaction
  PROVE  Fits'
<1> DEFINE e == [kind |-> "transaction", depth |-> Len(saved) + 1]
<1>1. /\ ~failed /\ ~failed' /\ saved' = Append(saved, settings)
      /\ blocks' = Append(blocks, e) /\ Len(blocks) < MaxBlocks
  BY DEF EnterTransaction, Open, Room
<1>2. /\ blocks \in Seq(Blocks) /\ Len(blocks) \in Nat /\ Len(saved) \in Nat
      /\ Shape(blocks, Len(saved)) /\ Tight(blocks, Len(saved))
  BY <1>1, LenProperties DEF TypeOK, Nested
<1>3. Len(saved) <= Len(blocks) + 1
  <2>1. CASE Len(saved) > 1
    <3>1. PICK i \in 1..Len(blocks) : IsTransaction(blocks[i]) /\ blocks[i].depth = Len(saved)
      BY <1>2, <2>1 DEF Tight
    <3>2. Len(saved) \in 1..(i + 1)
      BY <1>2, <3>1 DEF Shape
    <3> QED BY <1>2, <3>1, <3>2
  <2>2. CASE ~(Len(saved) > 1)
    BY <1>2, <2>2
  <2> QED BY <2>1, <2>2
<1>4. e \in Blocks /\ e.kind = "transaction" /\ e.depth = Len(saved) + 1 /\ IsTransaction(e)
  BY <1>1, <1>2, <1>3, SessionAssumption DEF Blocks, IsTransaction
<1>5. saved' \in Seq(Settings) /\ Len(saved') = Len(saved) + 1
  BY <1>1, Longer DEF TypeOK
<1> HIDE DEF e
<1>6. Shape(blocks', Len(saved')) /\ Tight(blocks', Len(saved'))
  BY <1>1, <1>2, <1>4, <1>5, ShapeLonger
<1>7. /\ blocks' \in Seq(Blocks) /\ Len(blocks') <= MaxBlocks
      /\ Len(saved') <= MaxBlocks + 1
  BY <1>1, <1>2, <1>3, <1>4, <1>5, Longer, SessionAssumption
<1> QED BY <1>5, <1>6, <1>7 DEF Fits, Nested

(* Leaving deadline() keeps the nesting.                                   *)
LEMMA DeadlineCloses ==
  ASSUME TypeOK, Nested, Inside("deadline"), Close, saved' \in {saved, Begun}, ~failed' => ~failed
  PROVE  Fits'
<1>1. /\ blocks # <<>> /\ ~IsTransaction(blocks[Len(blocks)])
      /\ blocks' = SubSeq(blocks, 1, Len(blocks) - 1)
  BY DEF Inside, Innermost, IsTransaction, Close
<1>2. /\ blocks \in Seq(Blocks) /\ Len(blocks) > 0
      /\ blocks' \in Seq(Blocks) /\ Len(blocks') <= MaxBlocks
  BY <1>1, ClosedIs, SessionAssumption DEF TypeOK
<1>3. /\ saved' \in Seq(Settings) /\ Len(saved') \in Nat /\ Len(saved') <= MaxBlocks + 1
      /\ Shape(blocks, Len(saved')) /\ (~failed => Tight(blocks, Len(saved')))
  BY BegunFits
<1>4. Shape(blocks', Len(saved')) /\ (~failed => Tight(blocks', Len(saved')))
  BY <1>1, <1>2, <1>3, ShapeShorter
<1> QED BY <1>2, <1>3, <1>4 DEF Fits, Nested

(* A transaction block closes: with its savepoint, or without it in a      *)
(* transaction that has failed.                                            *)
LEMMA TransactionCloses ==
  ASSUME TypeOK, Nested, Inside("transaction"), Close,
         \/ saved' = SubSeq(saved, 1, Innermost.depth - 1)
         \/ saved' = saved /\ failed'
  PROVE  Fits' /\ Innermost.depth \in 1..Len(saved)
<1>1. /\ blocks # <<>> /\ IsTransaction(blocks[Len(blocks)])
      /\ blocks' = SubSeq(blocks, 1, Len(blocks) - 1)
      /\ Innermost = blocks[Len(blocks)]
  BY DEF Inside, Innermost, IsTransaction, Close
<1>2. /\ blocks \in Seq(Blocks) /\ Len(blocks) > 0
      /\ blocks' \in Seq(Blocks) /\ Len(blocks') <= MaxBlocks
  BY <1>1, ClosedIs, SessionAssumption DEF TypeOK
<1>3. /\ saved \in Seq(Settings) /\ Len(saved) \in Nat /\ Len(saved) <= MaxBlocks + 1
      /\ Shape(blocks, Len(saved))
  BY LenProperties DEF Nested, TypeOK
<1> DEFINE d == Innermost.depth
<1>4. /\ Shape(blocks', Len(saved)) /\ d \in 1..Len(saved)
      /\ Shape(blocks', d - 1) /\ Tight(blocks', d - 1)
  BY <1>1, <1>2, <1>3, ShapeShorter
<1> HIDE DEF d
<1>5. CASE saved' = SubSeq(saved, 1, d - 1)
  <2>1. d - 1 \in 0..Len(saved)
    BY <1>3, <1>4
  <2>2. saved' \in Seq(Settings) /\ Len(saved') = d - 1
    BY <1>3, <1>5, <2>1, Shorter
  <2>3. Nested'
    BY <1>4, <2>2 DEF Nested
  <2> QED BY <1>2, <1>3, <1>4, <2>1, <2>2, <2>3, SessionAssumption DEF Fits, d
<1>6. CASE saved' = saved /\ failed'
  BY <1>2, <1>3, <1>4, <1>6 DEF Fits, Nested, d
<1> QED BY <1>5, <1>6 DEF d

-----------------------------------------------------------------------------
(* The rest of TypeOK.                                                     *)
Values ==
    /\ autocommit \in BOOLEAN /\ reports \in BOOLEAN
    /\ settings \in Settings
    /\ failed \in BOOLEAN /\ (failed => saved # <<>>)
    /\ note \in Limits \cup {NoLimit} /\ before \in Limits \cup {NoLimit}
    /\ setInside \in BOOLEAN /\ pathInside \in BOOLEAN
    /\ table \in Graphs \cup {NoGraph} /\ seen \in Graphs \cup {NoGraph}
    /\ pc \in {"pool", "lent"} /\ limit \in Limits \cup {NoLimit}
    /\ lapses \subseteq {"pending", "timeout", "path", "unread"}

(* The type invariant in two halves, what the values are and how they      *)
(* nest.                                                                   *)
LEMMA TypeIs == TypeOK /\ Nested <=> Values /\ Fits
  <1>1. TypeOK /\ Nested => Values /\ Fits
    BY DEF TypeOK, Values, Fits
  <1>2. Values /\ Fits => TypeOK /\ Nested
    <2> SUFFICES ASSUME Values, Fits PROVE TypeOK /\ Nested
      OBVIOUS
    <2>1. \A i \in 1..Len(blocks) : blocks[i].depth <= Len(saved)
      BY DEF Fits, Nested, Shape
    <2> QED BY <2>1 DEF TypeOK, Values, Fits
  <1> QED BY <1>1, <1>2

(* _set_statement_timeout keeps the types.                                 *)
LEMMA SetTimeoutTypes ==
  ASSUME TypeOK, NEW n \in Limits \cup {NoLimit}, SetTimeout(n), UNCHANGED kept,
         pc' \in {"pool", "lent"}, limit' \in Limits \cup {NoLimit}
  PROVE  Values' /\ saved' = Begun /\ ~failed /\ ~failed'
<1>1. settings' \in Settings
  BY DEF SetTimeout, TypeOK, Settings
<1>2. settings'.path \in Graphs \cup {NoGraph}
  BY <1>1 DEF Settings
<1> QED BY <1>1, <1>2 DEF SetTimeout, Watch, TypeOK, Values, HeldBefore, kept

(* The end of a transaction, or of a savepoint, keeps the types.           *)
LEMMA EndedTypes ==
  ASSUME TypeOK, settings' \in Settings, NEW r \in BOOLEAN, Ended(r),
         UNCHANGED kept, pc' \in {"pool", "lent"}, limit' = limit,
         Lapsed(r) \/ lapses' = lapses \ {"unread"},
         failed' \in BOOLEAN, failed' => saved' # <<>>
  PROVE  Values'
<1>1. note' \in Limits \cup {NoLimit} /\ setInside' \in BOOLEAN /\ before' = before
  BY DEF Ended, NoteAfter, TypeOK
<1>2. seen' \in Graphs \cup {NoGraph} /\ table' \in Graphs \cup {NoGraph}
  BY DEF Ended, TableAfter, TypeOK, Settings
<1>3. pathInside' \in BOOLEAN
  BY DEF Ended, TypeOK
<1>4. lapses' \subseteq {"pending", "timeout", "path", "unread"}
  BY DEF Lapsed, TypeOK
<1> QED BY <1>1, <1>2, <1>3, <1>4 DEF Values, TypeOK, kept

(* A transaction that ends and is taken for ended, rolled back or not; and *)
(* a COMMIT whose refusal is raised from commit.                           *)
Closes(undone, r) ==
    /\ ServerEnds(undone) /\ (undone => saved # <<>>) /\ (r /\ saved # <<>> => undone)
    /\ Ended(r) /\ Lapsed(r)

LEMMA ClosesIs ==
  /\ \A r \in BOOLEAN : EndTransaction(r) => \E u \in BOOLEAN : Closes(u, r)
  /\ Refuse /\ Ended(FALSE) /\ Lapsed(FALSE) => Closes(TRUE, FALSE)
<1>1. ASSUME NEW r \in BOOLEAN, EndTransaction(r)
      PROVE  \E u \in BOOLEAN : Closes(u, r)
  <2>1. CASE saved # <<>> /\ (r \/ failed)
    <3>1. Closes(TRUE, r)
      BY <1>1, <2>1 DEF EndTransaction, Closes, ServerEnds, Idle
    <3> QED BY <3>1
  <2>2. CASE saved = <<>> \/ ~(r \/ failed)
    <3>1. Closes(FALSE, r)
      BY <1>1, <2>2 DEF EndTransaction, Closes, ServerEnds, Idle
    <3> QED BY <3>1
  <2> QED BY <2>1, <2>2
<1>2. Refuse /\ Ended(FALSE) /\ Lapsed(FALSE) => Closes(TRUE, FALSE)
  BY DEF Refuse, Closes, Idle
<1> QED BY <1>1, <1>2

LEMMA ServerEndsTypes ==
  ASSUME TypeOK, NEW u \in BOOLEAN, u => saved # <<>>, ServerEnds(u)
  PROVE  /\ settings' \in Settings /\ saved' = <<>> /\ failed' = FALSE
         /\ settings' = settings \/ \E i \in 1..Len(saved) : settings' = saved[i]
<1>1. CASE u
  <2>1. 1 \in 1..Len(saved)
    BY <1>1, EmptySeq, LenProperties DEF TypeOK
  <2>2. saved[1] \in Settings
    BY <2>1, ElementOfSeq DEF TypeOK
  <2> QED BY <1>1, <2>1, <2>2 DEF ServerEnds
<1>2. CASE ~u
  BY <1>2 DEF ServerEnds, TypeOK
<1> QED BY <1>1, <1>2

(* The end of a whole transaction keeps the types, a COMMIT that is        *)
(* refused included.                                                       *)
LEMMA ClosesTypes ==
  ASSUME TypeOK, NEW u \in BOOLEAN, NEW r \in BOOLEAN, Closes(u, r),
         UNCHANGED kept, pc' \in {"pool", "lent"}, limit' = limit
  PROVE  Values' /\ saved' = <<>>
<1>1. settings' \in Settings /\ saved' = <<>> /\ failed' = FALSE
  BY ServerEndsTypes DEF Closes
<1> QED BY <1>1, EndedTypes DEF Closes

LEMMA RaisesTypes ==
  ASSUME TypeOK, CommitRaises, UNCHANGED kept, pc' \in {"pool", "lent"}, limit' = limit
  PROVE  Values' /\ saved' = <<>>
<1>1. settings' \in Settings /\ saved' = <<>> /\ failed' = FALSE
  BY ServerEndsTypes DEF CommitRaises, Refuse, Idle
<1>2. lapses' \subseteq {"pending", "timeout", "path", "unread"}
  BY DEF CommitRaises, TypeOK
<1>3. UNCHANGED <<noted, labels>>
  BY DEF CommitRaises
<1> QED BY <1>1, <1>2, <1>3 DEF Values, TypeOK, noted, labels, kept

(* Every step keeps the types and the nesting.                             *)
LEMMA TypeStep ==
  ASSUME TypeOK, Nested, [Next]_vars
  PROVE  TypeOK' /\ Nested'
<1> SUFFICES Values' /\ Fits'
  <2>1. (TypeOK /\ Nested)' <=> (Values /\ Fits)'
    BY TypeIs, PTL
  <2> QED BY <2>1
<1>0. /\ saved \in {saved, Begun} /\ Begun \in {saved, Begun}
      /\ pc \in {"pool", "lent"} /\ limit \in Limits \cup {NoLimit}
  BY DEF TypeOK
<1>1. ASSUME NEW n \in Limits \cup {NoLimit}, Borrow(n) PROVE Values' /\ Fits'
  <2>1. CASE SetTimeout(n)
    <3>1. Values' /\ saved' = Begun /\ ~failed
      BY <1>1, <2>1, SetTimeoutTypes DEF Borrow
    <3> QED BY <1>0, <1>1, <3>1, StatementFits DEF Borrow
  <2>2. CASE UNCHANGED <<server, noted, labels, lapses>>
    <3>1. Values'
      BY <1>1, <2>2 DEF Borrow, Values, TypeOK, server, noted, labels, kept
    <3>2. Fits'
      BY <1>0, <1>1, <2>2, StatementFits DEF Borrow, server
    <3> QED BY <3>1, <3>2
  <2> QED BY <1>1, <2>1, <2>2 DEF Borrow
<1>2. ASSUME CommitRefused \/ \E r \in BOOLEAN : CommitOrRollback(r) PROVE Values' /\ Fits'
  <2>1. Values' /\ saved' = <<>>
    <3>1. pc' = pc /\ limit' = limit /\ UNCHANGED kept
      BY <1>2 DEF CommitOrRollback, CommitRefused, borrow
    <3>2. CommitRaises \/ \E u, r \in BOOLEAN : Closes(u, r)
      BY <1>2, ClosesIs DEF CommitOrRollback, CommitRefused
    <3> QED BY <1>0, <3>1, <3>2, ClosesTypes, RaisesTypes
  <2>2. ~InTransactionBlock /\ blocks' = blocks
    BY <1>2 DEF CommitOrRollback, CommitRefused, borrow
  <2> QED BY <2>1, <2>2, EndFits
<1>3. ASSUME GiveBackRefused \/ \E r \in BOOLEAN : GiveBack(r) PROVE Values' /\ Fits'
  <2>1. Values' /\ saved' = <<>>
    <3>1. pc' = "pool" /\ limit' = limit /\ UNCHANGED kept
      BY <1>3 DEF GiveBack, GiveBackRefused
    <3>2. CommitRaises \/ \E u, r \in BOOLEAN : Closes(u, r)
      BY <1>3, ClosesIs DEF GiveBack, GiveBackRefused
    <3> QED BY <3>1, <3>2, ClosesTypes, RaisesTypes
  <2>2. ~InTransactionBlock /\ blocks' = blocks
    BY <1>3, EmptySeq DEF GiveBack, GiveBackRefused, InTransactionBlock
  <2> QED BY <2>1, <2>2, EndFits
<1>4. ASSUME NEW n \in Limits, EnterDeadline(n) PROVE Values' /\ Fits'
  <2>1. Values'
    BY <1>0, <1>4, SetTimeoutTypes DEF EnterDeadline
  <2> QED BY <1>4, <2>1, DeadlineOpens
<1>5. ASSUME ExitDeadline PROVE Values' /\ Fits'
  <2>1. CASE SetTimeout(NoLimit)
    <3>1. Values' /\ saved' = Begun /\ ~failed
      BY <1>0, <1>5, <2>1, SetTimeoutTypes DEF ExitDeadline
    <3> QED BY <1>0, <1>5, <3>1, DeadlineCloses DEF ExitDeadline
  <2>2. CASE failed /\ UNCHANGED <<server, noted, labels, lapses>>
    <3>1. Values'
      BY <1>5, <2>2 DEF ExitDeadline, Values, TypeOK, server, noted, labels, kept
    <3>2. Fits'
      BY <1>0, <1>5, <2>2, DeadlineCloses DEF ExitDeadline, server
    <3> QED BY <3>1, <3>2
  <2> QED BY <1>5, <2>1, <2>2 DEF ExitDeadline
<1>6. ASSUME EnterTransaction PROVE Values' /\ Fits'
  <2>1. Values'
    BY <1>6 DEF EnterTransaction, Values, TypeOK, noted, labels, kept
  <2> QED BY <1>6, <2>1, TransactionOpens
<1>7. ASSUME ExitRefused \/ \E r \in BOOLEAN : ExitOutermost(r) PROVE Values' /\ Fits'
  <2>1. Values' /\ saved' = <<>>
    <3>1. pc' = pc /\ limit' = limit /\ UNCHANGED kept
      BY <1>7 DEF ExitOutermost, ExitRefused
    <3>2. \E u, r \in BOOLEAN : Closes(u, r)
      BY <1>7, ClosesIs DEF ExitOutermost, ExitRefused
    <3> QED BY <1>0, <3>1, <3>2, ClosesTypes
  <2>2. saved' = SubSeq(saved, 1, Innermost.depth - 1)
    <3>1. Innermost.depth = 1
      BY <1>7 DEF ExitOutermost, ExitRefused
    <3>2. SubSeq(saved, 1, 0) = <<>>
      BY <1>0, SubSeqEmpty DEF TypeOK
    <3> QED BY <2>1, <3>1, <3>2
  <2> QED BY <1>7, <2>1, <2>2, TransactionCloses DEF ExitOutermost, ExitRefused
<1>8. ASSUME RollBackToSavepoint PROVE Values' /\ Fits'
  <2>1. Fits' /\ Innermost.depth \in 1..Len(saved)
    BY <1>8, TransactionCloses DEF RollBackToSavepoint
  <2>2. settings' \in Settings
    BY <1>8, <2>1, ElementOfSeq DEF RollBackToSavepoint, TypeOK
  <2>3. Values'
    BY <1>8, <2>2, <1>0, EndedTypes DEF RollBackToSavepoint
  <2> QED BY <2>1, <2>3
<1>9. ASSUME ReleaseSavepoint PROVE Values' /\ Fits'
  <2>1. Fits'
    BY <1>9, TransactionCloses DEF ReleaseSavepoint
  <2>2. Values'
    BY <1>9, <1>0, EndedTypes DEF ReleaseSavepoint, TypeOK
  <2> QED BY <2>1, <2>2
<1>10. ASSUME NEW g \in Graphs, NEW b \in BOOLEAN, Move(g, b) PROVE Values' /\ Fits'
  <2>1. settings' \in Settings /\ settings'.path = g
    BY <1>10 DEF Move, TypeOK, Settings
  <2>2. Values'
    BY <1>10, <2>1 DEF Move, Watch, Values, TypeOK, noted, borrow, kept, Settings
  <2>3. Fits'
    BY <1>0, <1>10, StatementFits DEF Move, borrow
  <2> QED BY <2>2, <2>3
<1>11. ASSUME NEW g \in Graphs, NEW b \in BOOLEAN, SelectGraph(g, b) PROVE Values' /\ Fits'
  <2>1. settings' \in Settings
    BY <1>11 DEF SelectGraph, TypeOK, Settings
  <2>2. Values'
    BY <1>11, <2>1 DEF SelectGraph, Values, TypeOK, noted, borrow, kept
  <2>3. Fits'
    BY <1>0, <1>11, StatementFits DEF SelectGraph, borrow
  <2> QED BY <2>2, <2>3
<1>12. ASSUME RefreshLabels PROVE Values' /\ Fits'
  <2>1. Values'
    <3>1. settings.path \in Graphs \cup {NoGraph}
      BY DEF TypeOK, Settings
    <3>2. table' \in Graphs \cup {NoGraph} /\ seen' \in Graphs \cup {NoGraph}
      BY <1>12, <3>1 DEF RefreshLabels, Followed, TypeOK
    <3>3. failed' => saved' # <<>>
      BY <1>12 DEF RefreshLabels
    <3> QED BY <1>12, <3>2, <3>3 DEF RefreshLabels, Values, TypeOK, noted, borrow, kept
  <2>2. Fits'
    BY <1>0, <1>12, StatementFits DEF RefreshLabels, borrow
  <2> QED BY <2>1, <2>2
<1>13. ASSUME Fail PROVE Values' /\ Fits'
  <2>1. Values'
    BY <1>13 DEF Fail, Values, TypeOK, noted, labels, borrow, kept
  <2>2. Fits'
    BY <1>0, <1>13, StatementFits DEF Fail, borrow
  <2> QED BY <2>1, <2>2
<1>14. ASSUME UNCHANGED vars PROVE Values' /\ Fits'
  <2>1. Values'
    BY <1>14 DEF vars, Values, TypeOK, server, noted, labels, borrow, kept
  <2>2. Fits'
    BY <1>0, <1>14, StatementFits DEF vars, server, borrow
  <2> QED BY <2>1, <2>2
<1> QED
  BY <1>1, <1>2, <1>3, <1>4, <1>5, <1>6, <1>7, <1>8, <1>9, <1>10, <1>11, <1>12, <1>13, <1>14 DEF Next

-----------------------------------------------------------------------------
(* Setting the limit: note and server agree, and what they are both put    *)
(* back to is what they agreed on when the transaction began.              *)
LEMMA SetTimeoutNote ==
  ASSUME TypeOK, NoteInv, NEW n, SetTimeout(n)
  PROVE  NoteInv'
<1>1. note' = n /\ settings'.timeout = n /\ lapses' = lapses \ {"unread"} /\ saved' = Begun
  BY DEF SetTimeout, Watch, TypeOK, Settings
<1>2. \/ Begun = saved
      \/ saved = <<>> /\ Begun = <<settings>> /\ Begun # <<>> /\ Begun[1] = settings
  BY BegunIs
<1>3. CASE Begun = saved
  <2>1. /\ setInside' = (setInside \/ saved # <<>>)
        /\ before' = IF saved # <<>> /\ ~setInside THEN note ELSE before
    BY <1>3 DEF SetTimeout, HeldBefore
  <2> QED BY <1>1, <1>3, <2>1 DEF NoteInv, NoteIsTheServers, TypeOK
<1>4. CASE saved = <<>> /\ Begun = <<settings>> /\ Begun # <<>> /\ Begun[1] = settings
  <2>1. "pending" \notin lapses /\ ("timeout" \notin lapses => ~setInside)
    BY <1>4 DEF NoteInv
  <2>2. setInside' /\ ("timeout" \notin lapses => before' = note)
    BY <1>4, <2>1 DEF SetTimeout, HeldBefore
  <2> QED BY <1>1, <1>4, <2>1, <2>2 DEF NoteInv, NoteIsTheServers
<1> QED BY <1>2, <1>3, <1>4

(* A statement that sets no limit, but may begin a transaction.            *)
LEMMA StatementNote ==
  ASSUME TypeOK, NoteInv, saved' \in {saved, Begun},
         settings'.timeout = settings.timeout, UNCHANGED noted,
         lapses' \in {lapses, lapses \ {"unread"}}
  PROVE  NoteInv'
<1>1. CASE saved' = saved
  BY <1>1 DEF NoteInv, NoteIsTheServers, noted
<1>2. CASE saved = <<>> /\ saved' = <<settings>>
  <2>1. "pending" \notin lapses /\ ("timeout" \notin lapses => ~setInside)
    BY <1>2 DEF NoteInv
  <2>2. saved'[1] = settings /\ saved' # <<>>
    BY <1>2
  <2> QED BY <1>2, <2>1, <2>2 DEF NoteInv, NoteIsTheServers, noted
<1> QED BY <1>1, <1>2, BegunIs

(* The end of a transaction: told of a rollback the note goes back with    *)
(* the server; told nothing, either nothing was undone or it has lapsed.   *)
LEMMA ClosesNote ==
  ASSUME TypeOK, NoteInv, NEW u \in BOOLEAN, NEW r \in BOOLEAN, Closes(u, r)
  PROVE  NoteInv'
<1>1. saved' = <<>> /\ before' = before /\ ~setInside'
  BY DEF Closes, ServerEnds, Ended, TypeOK
<1>2. note' = IF setInside /\ r THEN before ELSE note
  BY <1>1 DEF Closes, Ended, NoteAfter, TypeOK
<1>3. r => settings' = IF saved # <<>> THEN saved[1] ELSE settings
  BY DEF Closes, ServerEnds
<1>4. /\ "pending" \notin lapses'
      /\ "timeout" \notin lapses' =>
            /\ "timeout" \notin lapses
            /\ r \/ (settings'.timeout = settings.timeout /\ "pending" \notin lapses)
  BY <1>1 DEF Closes, Lapsed, Undone
<1>5. "timeout" \notin lapses' => note' = settings'.timeout
  <2> SUFFICES ASSUME "timeout" \notin lapses' PROVE note' = settings'.timeout
    OBVIOUS
  <2>1. CASE ~r
    <3>1. note' = note /\ note = settings.timeout
      BY <1>2, <1>4, <2>1 DEF NoteInv, NoteIsTheServers
    <3> QED BY <1>4, <2>1, <3>1
  <2>2. CASE r /\ saved = <<>>
    <3>1. ~setInside /\ note = settings.timeout
      BY <1>4, <2>2 DEF NoteInv, NoteIsTheServers
    <3> QED BY <1>2, <1>3, <2>2, <3>1
  <2>3. CASE r /\ saved # <<>>
    <3>1. saved[1].timeout = IF setInside THEN before ELSE note
      BY <1>4, <2>3 DEF NoteInv
    <3> QED BY <1>2, <1>3, <2>3, <3>1
  <2> QED BY <2>1, <2>2, <2>3
<1> QED BY <1>1, <1>4, <1>5 DEF NoteInv, NoteIsTheServers

(* Refused, and raised from commit: what was set inside has lapsed.        *)
LEMMA RaisesNote ==
  ASSUME TypeOK, NoteInv, CommitRaises
  PROVE  NoteInv'
<1>1. saved' = <<>> /\ UNCHANGED noted /\ "pending" \notin lapses'
  BY DEF CommitRaises, Refuse, ServerEnds
<1>2. "timeout" \notin lapses' =>
         /\ "timeout" \notin lapses /\ "pending" \notin lapses
         /\ ~setInside /\ settings'.timeout = settings.timeout
  BY DEF CommitRaises, Undone
<1> QED BY <1>1, <1>2 DEF NoteInv, NoteIsTheServers, noted

(* Every step keeps the note what the server holds, but for what has       *)
(* lapsed.                                                                 *)
LEMMA NoteStep ==
  ASSUME TypeOK, Nested, NoteInv, [Next]_vars
  PROVE  NoteInv'
<1>0. saved \in {saved, Begun} /\ Begun \in {saved, Begun}
  OBVIOUS
<1>1. ASSUME NEW n \in Limits \cup {NoLimit}, Borrow(n) PROVE NoteInv'
  <2>1. SetTimeout(n) \/ UNCHANGED <<server, noted, labels, lapses>>
    BY <1>1 DEF Borrow
  <2>2. CASE UNCHANGED <<server, noted, labels, lapses>>
    BY <1>0, <2>2, StatementNote DEF server
  <2> QED BY <2>1, <2>2, SetTimeoutNote
<1>2. ASSUME \/ \E r \in BOOLEAN : CommitOrRollback(r) \/ GiveBack(r) \/ ExitOutermost(r)
             \/ CommitRefused \/ GiveBackRefused \/ ExitRefused
      PROVE  NoteInv'
  <2>1. CommitRaises \/ \E u, r \in BOOLEAN : Closes(u, r)
    BY <1>2, ClosesIs
       DEF CommitOrRollback, GiveBack, ExitOutermost, CommitRefused, GiveBackRefused, ExitRefused
  <2> QED BY <2>1, ClosesNote, RaisesNote
<1>3. ASSUME NEW n \in Limits, EnterDeadline(n) PROVE NoteInv'
  BY <1>3, SetTimeoutNote DEF EnterDeadline
<1>4. ASSUME ExitDeadline PROVE NoteInv'
  <2>1. SetTimeout(NoLimit) \/ UNCHANGED <<server, noted, labels, lapses>>
    BY <1>4 DEF ExitDeadline
  <2>2. CASE UNCHANGED <<server, noted, labels, lapses>>
    BY <1>0, <2>2, StatementNote DEF server
  <2> QED BY <2>1, <2>2, SetTimeoutNote
<1>5. ASSUME EnterTransaction PROVE NoteInv'
  <2>1. /\ saved' = Append(saved, settings) /\ UNCHANGED <<settings, noted, lapses>>
        /\ saved' # <<>>
    BY <1>5, Longer DEF EnterTransaction, TypeOK
  <2>2. CASE saved = <<>>
    <3>1. saved'[1] = settings
      BY <2>1, <2>2
    <3>2. "pending" \notin lapses /\ ("timeout" \notin lapses => ~setInside)
      BY <2>2 DEF NoteInv
    <3> QED BY <2>1, <3>1, <3>2 DEF NoteInv, NoteIsTheServers, noted
  <2>3. CASE saved # <<>>
    <3>1. 1 \in 1..Len(saved)
      BY <2>3, EmptySeq, LenProperties DEF TypeOK
    <3>2. saved'[1] = saved[1]
      BY <2>1, <3>1, Longer DEF TypeOK
    <3> QED BY <2>1, <2>3, <3>2 DEF NoteInv, NoteIsTheServers, noted
  <2> QED BY <2>2, <2>3
<1>6. ASSUME RollBackToSavepoint PROVE NoteInv'
  <2>1. Innermost.depth \in 1..Len(saved)
    BY <1>6, TransactionCloses DEF RollBackToSavepoint
  <2>2. Innermost.depth - 1 \in 1..Len(saved) /\ Innermost.depth - 1 \in 0..Len(saved)
    BY <1>6, <2>1, LenProperties DEF RollBackToSavepoint, TypeOK
  <2>3. saved' # <<>> /\ saved'[1] = saved[1] /\ saved # <<>>
    <3>1. /\ Len(saved') = Innermost.depth - 1
          /\ \A i \in 1..(Innermost.depth - 1) : saved'[i] = saved[i]
      BY <1>6, <2>2, Shorter DEF RollBackToSavepoint, TypeOK
    <3>2. 1 \in 1..(Innermost.depth - 1) /\ Len(saved') # 0 /\ Len(saved) # 0
      BY <2>2, <3>1
    <3> QED BY <3>1, <3>2, EmptySeq
  <2>4. UNCHANGED noted
    BY <1>6, <2>3 DEF RollBackToSavepoint, Ended, noted
  <2>5. /\ \A x \in {"pending", "timeout"} : x \in lapses => x \in lapses'
        /\ "pending" \notin lapses' => settings'.timeout = settings.timeout
    BY <1>6, <2>3 DEF RollBackToSavepoint, Lapsed, Undone
  <2> QED BY <2>3, <2>4, <2>5 DEF NoteInv, NoteIsTheServers, noted
<1>7. ASSUME ReleaseSavepoint PROVE NoteInv'
  <2>1. Innermost.depth \in 1..Len(saved)
    <3>1. \/ saved' = SubSeq(saved, 1, Innermost.depth - 1)
          \/ saved' = saved /\ failed'
      BY <1>7 DEF ReleaseSavepoint
    <3>2. Inside("transaction") /\ Close
      BY <1>7 DEF ReleaseSavepoint
    <3> QED BY <3>1, <3>2, TransactionCloses
  <2>2. Innermost.depth - 1 \in 1..Len(saved) /\ Innermost.depth - 1 \in 0..Len(saved)
    BY <1>7, <2>1, LenProperties DEF ReleaseSavepoint, TypeOK
  <2>3. saved' # <<>> /\ saved'[1] = saved[1] /\ saved # <<>>
    <3>0. Len(saved) # 0 /\ saved # <<>>
      BY <2>2, EmptySeq
    <3>1. CASE saved' = saved
      BY <3>0, <3>1
    <3>2. CASE saved' = SubSeq(saved, 1, Innermost.depth - 1)
      <4>1. /\ Len(saved') = Innermost.depth - 1
            /\ \A i \in 1..(Innermost.depth - 1) : saved'[i] = saved[i]
        BY <3>2, <2>2, Shorter DEF TypeOK
      <4>2. 1 \in 1..(Innermost.depth - 1) /\ Len(saved') # 0
        BY <2>2, <4>1
      <4> QED BY <3>0, <4>1, <4>2, EmptySeq
    <3> QED BY <1>7, <3>1, <3>2 DEF ReleaseSavepoint
  <2>4. UNCHANGED <<settings, noted>> /\ lapses' = lapses \ {"unread"}
    BY <1>7, <2>3 DEF ReleaseSavepoint, Ended, noted
  <2> QED BY <2>3, <2>4 DEF NoteInv, NoteIsTheServers, noted
<1>8. ASSUME NEW g \in Graphs, NEW b \in BOOLEAN, Move(g, b) \/ SelectGraph(g, b) PROVE NoteInv'
  <2>1. settings'.timeout = settings.timeout
    BY <1>8 DEF Move, SelectGraph, TypeOK, Settings
  <2> QED BY <1>0, <1>8, <2>1, StatementNote DEF Move, Watch, SelectGraph
<1>9. ASSUME RefreshLabels \/ Fail PROVE NoteInv'
  BY <1>0, <1>9, StatementNote DEF RefreshLabels, Fail
<1>10. ASSUME UNCHANGED vars PROVE NoteInv'
  BY <1>0, <1>10, StatementNote DEF vars, server
<1> QED BY <1>1, <1>2, <1>3, <1>4, <1>5, <1>6, <1>7, <1>8, <1>9, <1>10 DEF Next

-----------------------------------------------------------------------------
(* What every savepoint goes back to, while the client has seen no move.   *)
Unmoved(s) == \A i \in 1..Len(s) : s[i].path = settings.path

(* Beginning a transaction saves the path in force.                        *)
LEMMA BegunUnmoved ==
  ASSUME TypeOK, NEW s \in {saved, Begun}
  PROVE  Unmoved(saved) => Unmoved(s)
<1>1. CASE s = saved
  BY <1>1
<1>2. CASE s = <<settings>>
  BY <1>2 DEF Unmoved
<1> QED BY <1>1, <1>2, BegunIs

(* A statement that leaves the path alone.                                 *)
LEMMA StatementLabels ==
  ASSUME TypeOK, LabelInv, saved' \in {saved, Begun}, settings'.path = settings.path,
         UNCHANGED <<kept, labels, lapses>>
  PROVE  LabelInv'
<1>1. Unmoved(saved) => Unmoved(saved')
  BY BegunUnmoved
<1> QED BY <1>1 DEF LabelInv, LabelsAreTheGraphs, Unmoved, kept, labels

(* A statement after which the reported path is read.                      *)
LEMMA FollowLabels ==
  ASSUME TypeOK, LabelInv, saved' \in {saved, Begun}, settings'.path = settings.path,
         UNCHANGED <<kept, pathInside>>, lapses' = lapses \ {"unread"},
         IF reports THEN seen' = settings.path /\ table' \in {NoGraph, settings.path}
         ELSE table' \in {table, NoGraph, settings.path}
  PROVE  LabelInv'
<1>1. Unmoved(saved) => Unmoved(saved')
  BY BegunUnmoved
<1> QED BY <1>1 DEF LabelInv, LabelsAreTheGraphs, Unmoved, kept

(* The end of a transaction or a savepoint: reported, or noticed because   *)
(* the move inside was seen, or nothing moved, or it has lapsed.           *)
LEMMA EndedLabels ==
  ASSUME TypeOK, LabelInv, NEW r \in BOOLEAN, Ended(r), UNCHANGED kept,
         \/ lapses \cap {"path"} \subseteq lapses'
               /\ ("path" \notin lapses' =>
                      reports \/ settings'.path = settings.path \/ (~autocommit /\ r)),
         settings' = settings \/ \E i \in 1..Len(saved) : settings' = saved[i],
         \/ saved' = <<>>
         \/ Len(saved') \in 0..Len(saved) /\ \A i \in 1..Len(saved') : saved'[i] = saved[i]
  PROVE  LabelInv'
<1>1. CASE reports
  <2>1. reports' /\ seen' = settings'.path
    BY <1>1 DEF Ended, kept
  <2>2. table' \in {NoGraph, settings'.path}
    BY <1>1 DEF Ended, TableAfter, Moved, LabelInv
  <2> QED BY <2>1, <2>2 DEF LabelInv, LabelsAreTheGraphs
<1>2. CASE ~reports /\ "path" \notin lapses'
  <2>1. ~reports' /\ autocommit' = autocommit /\ "path" \notin lapses
    BY <1>2 DEF kept
  <2>2. /\ pathInside' = (pathInside /\ saved' # <<>>)
        /\ table' = IF r /\ pathInside THEN NoGraph ELSE table
    BY <1>2 DEF Ended, TableAfter, Moved
  <2>3. table \in {NoGraph, settings.path}
    BY <1>2, <2>1 DEF LabelInv, LabelsAreTheGraphs
  <2>4. settings'.path = settings.path \/ (r /\ pathInside)
    <3>1. CASE ~autocommit /\ r /\ ~pathInside
      <4>1. \A i \in 1..Len(saved) : saved[i].path = settings.path
        BY <1>2, <2>1, <3>1 DEF LabelInv
      <4> QED BY <4>1
    <3> QED BY <1>2, <3>1
  <2>5. table' \in {NoGraph, settings'.path}
    BY <2>2, <2>3, <2>4
  <2>6. ASSUME ~autocommit, ~pathInside'
        PROVE  \A i \in 1..Len(saved') : saved'[i].path = settings'.path
    <3>1. CASE saved' = <<>>
      BY <3>1, EmptySeq
    <3>2. CASE saved' # <<>>
      <4>1. ~pathInside
        BY <2>2, <2>6, <3>2
      <4>2. settings'.path = settings.path
        BY <2>4, <4>1
      <4>3. \A i \in 1..Len(saved) : saved[i].path = settings.path
        BY <1>2, <2>1, <2>6, <4>1 DEF LabelInv
      <4>4. \A i \in 1..Len(saved') : i \in 1..Len(saved) /\ saved'[i] = saved[i]
        BY <3>2, LenProperties DEF TypeOK
      <4> QED BY <4>2, <4>3, <4>4
    <3> QED BY <3>1, <3>2
  <2> QED BY <2>1, <2>5, <2>6 DEF LabelInv, LabelsAreTheGraphs
<1>3. CASE ~reports /\ "path" \in lapses'
  BY <1>3 DEF LabelInv, LabelsAreTheGraphs, kept
<1> QED BY <1>1, <1>2, <1>3

(* The whole transaction ends: its path moves were seen, or have lapsed.   *)
LEMMA ClosesLabels ==
  ASSUME TypeOK, LabelInv, NEW u \in BOOLEAN, NEW r \in BOOLEAN, Closes(u, r), UNCHANGED kept
  PROVE  LabelInv'
<1>1. /\ settings' = settings \/ \E i \in 1..Len(saved) : settings' = saved[i]
      /\ saved' = <<>>
  BY ServerEndsTypes DEF Closes
<1>2. /\ lapses \cap {"path"} \subseteq lapses'
      /\ "path" \notin lapses' =>
            reports \/ settings'.path = settings.path \/ (~autocommit /\ r)
  BY DEF Closes, Lapsed, Undone
<1> QED BY <1>1, <1>2, EndedLabels DEF Closes

(* Refused, and raised from commit: a reported path is yet to be read, and *)
(* another has lapsed.                                                     *)
LEMMA RaisesLabels ==
  ASSUME TypeOK, LabelInv, CommitRaises, UNCHANGED kept
  PROVE  LabelInv'
<1>1. saved' = <<>> /\ Len(saved') = 0 /\ UNCHANGED labels
  BY DEF CommitRaises, Refuse, ServerEnds
<1>2. /\ \A x \in {"path", "unread"} : x \in lapses => x \in lapses'
      /\ ~reports /\ "path" \notin lapses' => settings'.path = settings.path
      /\ reports /\ "unread" \notin lapses' => settings'.path = settings.path
  BY DEF CommitRaises, Undone
<1> QED BY <1>1, <1>2 DEF LabelInv, LabelsAreTheGraphs, kept, labels

(* Every step keeps the labels those of the session's graph, but for what  *)
(* has lapsed.                                                             *)
LEMMA LabelStep ==
  ASSUME TypeOK, Nested, LabelInv, [Next]_vars
  PROVE  LabelInv'
<1>0. saved \in {saved, Begun} /\ Begun \in {saved, Begun}
  OBVIOUS
<1>a. ASSUME NEW n, SetTimeout(n), UNCHANGED kept PROVE LabelInv'
  <2>1. settings'.path = settings.path
    BY <1>a DEF SetTimeout, TypeOK, Settings
  <2>2. /\ pathInside' = pathInside /\ lapses' = lapses \ {"unread"} /\ saved' = Begun
        /\ IF reports THEN seen' = settings.path /\ table' \in {NoGraph, settings.path}
           ELSE table' = table
    BY <1>a, <2>1 DEF SetTimeout, Watch, Moved, LabelInv, TypeOK
  <2> QED BY <1>0, <1>a, <2>1, <2>2, FollowLabels
<1>1. ASSUME NEW n \in Limits \cup {NoLimit}, Borrow(n) PROVE LabelInv'
  <2>1. CASE UNCHANGED <<server, noted, labels, lapses>>
    BY <1>0, <1>1, <2>1, StatementLabels DEF Borrow, server
  <2> QED BY <1>1, <1>a, <2>1 DEF Borrow
<1>2. ASSUME \/ \E r \in BOOLEAN : CommitOrRollback(r) \/ GiveBack(r) \/ ExitOutermost(r)
             \/ CommitRefused \/ GiveBackRefused \/ ExitRefused
      PROVE  LabelInv'
  <2>1. UNCHANGED kept /\ (CommitRaises \/ \E u, r \in BOOLEAN : Closes(u, r))
    BY <1>2, ClosesIs
       DEF CommitOrRollback, GiveBack, ExitOutermost, CommitRefused, GiveBackRefused, ExitRefused
  <2> QED BY <2>1, ClosesLabels, RaisesLabels
<1>3. ASSUME NEW n \in Limits, EnterDeadline(n) PROVE LabelInv'
  BY <1>3, <1>a DEF EnterDeadline
<1>4. ASSUME ExitDeadline PROVE LabelInv'
  <2>1. CASE UNCHANGED <<server, noted, labels, lapses>>
    BY <1>0, <1>4, <2>1, StatementLabels DEF ExitDeadline, server
  <2> QED BY <1>4, <1>a, <2>1 DEF ExitDeadline
<1>5. ASSUME EnterTransaction PROVE LabelInv'
  <2>1. /\ saved' = Append(saved, settings) /\ UNCHANGED <<kept, settings, labels, lapses>>
    BY <1>5 DEF EnterTransaction
  <2>2. Unmoved(saved) => Unmoved(saved')
    <3>1. /\ Len(saved') = Len(saved) + 1 /\ saved'[Len(saved) + 1] = settings
          /\ \A i \in 1..Len(saved) : saved'[i] = saved[i]
          /\ Len(saved) \in Nat
      BY <2>1, Longer, LenProperties DEF TypeOK
    <3>2. \A i \in 1..Len(saved') : i = Len(saved) + 1 \/ i \in 1..Len(saved)
      BY <3>1
    <3> QED BY <3>1, <3>2 DEF Unmoved
  <2> QED BY <2>1, <2>2 DEF LabelInv, LabelsAreTheGraphs, Unmoved, kept, labels
<1>6. ASSUME RollBackToSavepoint PROVE LabelInv'
  <2>1. Innermost.depth \in 1..Len(saved) /\ Innermost.depth - 1 \in 0..Len(saved)
    <3>1. Innermost.depth \in 1..Len(saved)
      BY <1>6, TransactionCloses DEF RollBackToSavepoint
    <3> QED BY <3>1, LenProperties DEF TypeOK
  <2>2. /\ Len(saved') = Innermost.depth - 1
        /\ \A i \in 1..(Innermost.depth - 1) : saved'[i] = saved[i]
    BY <1>6, <2>1, Shorter DEF RollBackToSavepoint, TypeOK
  <2>3. /\ lapses \cap {"path"} \subseteq lapses'
        /\ "path" \notin lapses' => reports \/ settings'.path = settings.path \/ ~autocommit
    BY <1>6 DEF RollBackToSavepoint, Lapsed, Undone
  <2> QED BY <1>6, <2>1, <2>2, <2>3, EndedLabels DEF RollBackToSavepoint
<1>7. ASSUME ReleaseSavepoint PROVE LabelInv'
  <2>1. Innermost.depth \in 1..Len(saved) /\ Innermost.depth - 1 \in 0..Len(saved)
    <3>1. \/ saved' = SubSeq(saved, 1, Innermost.depth - 1)
          \/ saved' = saved /\ failed'
      BY <1>7 DEF ReleaseSavepoint
    <3>2. Inside("transaction") /\ Close
      BY <1>7 DEF ReleaseSavepoint
    <3>3. Innermost.depth \in 1..Len(saved)
      BY <3>1, <3>2, TransactionCloses
    <3> QED BY <3>3, LenProperties DEF TypeOK
  <2>2. Len(saved') \in 0..Len(saved) /\ \A i \in 1..Len(saved') : saved'[i] = saved[i]
    <3>1. CASE saved' = saved
      BY <3>1, LenProperties DEF TypeOK
    <3>2. CASE saved' = SubSeq(saved, 1, Innermost.depth - 1)
      BY <3>2, <2>1, Shorter DEF TypeOK
    <3> QED BY <1>7, <3>1, <3>2 DEF ReleaseSavepoint
  <2> QED BY <1>7, <2>2, EndedLabels DEF ReleaseSavepoint
<1>8. ASSUME NEW g \in Graphs, NEW b \in BOOLEAN, Move(g, b) PROVE LabelInv'
  <2>1. /\ settings'.path = g /\ saved' = Begun /\ UNCHANGED kept
        /\ lapses' = lapses \ {"unread"}
    BY <1>8 DEF Move, Watch, TypeOK, Settings
  <2>2. CASE reports
    BY <1>8, <2>1, <2>2 DEF Move, Watch, Moved, LabelInv, LabelsAreTheGraphs, kept
  <2>3. CASE ~reports
    <3>1. b /\ table' = NoGraph /\ (pathInside' = (pathInside \/ ~autocommit))
      BY <1>8, <2>3 DEF Move, Watch, Moved
    <3> QED BY <2>1, <2>3, <3>1 DEF LabelInv, LabelsAreTheGraphs, kept
  <2> QED BY <2>2, <2>3
<1>9. ASSUME NEW g \in Graphs, NEW b \in BOOLEAN, SelectGraph(g, b) PROVE LabelInv'
  <2>1. /\ settings'.path = g /\ UNCHANGED kept /\ lapses' = lapses \ {"unread"}
        /\ table' \in {NoGraph, g} /\ (reports => seen' = g)
        /\ ~autocommit /\ ~reports => pathInside'
    BY <1>9 DEF SelectGraph, TypeOK, Settings
  <2> QED BY <2>1 DEF LabelInv, LabelsAreTheGraphs, kept
<1>10. ASSUME RefreshLabels PROVE LabelInv'
  <2>1. /\ saved' \in {saved, Begun} /\ UNCHANGED <<kept, settings, pathInside>>
        /\ lapses' = lapses \ {"unread"}
        /\ IF reports THEN seen' = settings.path /\ table' \in {NoGraph, settings.path}
           ELSE table' \in {table, settings.path}
    BY <1>10 DEF RefreshLabels, Followed, LabelInv
  <2> QED BY <2>1, FollowLabels
<1>11. ASSUME Fail PROVE LabelInv'
  BY <1>0, <1>11, StatementLabels DEF Fail
<1>12. ASSUME UNCHANGED vars PROVE LabelInv'
  BY <1>0, <1>12, StatementLabels DEF vars, server
<1> QED BY <1>1, <1>2, <1>3, <1>4, <1>5, <1>6, <1>7, <1>8, <1>9, <1>10, <1>11, <1>12 DEF Next

-----------------------------------------------------------------------------
(* The nesting of blocks, the note and the label table together keep what  *)
(* they say, whatever the caller does next.                                *)
THEOREM Invariance == Spec => []IInv
<1>1. Init => IInv
  <2> SUFFICES ASSUME Init PROVE IInv
    OBVIOUS
  <2>1. Len(saved) = 0 /\ Len(blocks) = 0 /\ saved \in Seq(Settings) /\ blocks \in Seq(Blocks)
    BY EmptySeq DEF Init
  <2>2. Nested
    BY <2>1 DEF Nested, Shape, Tight
  <2>3. TypeOK
    <3>1. Values
      BY DEF Init, Values, Settings
    <3>2. Fits
      BY <2>1, <2>2, SessionAssumption DEF Fits
    <3> QED BY <3>1, <3>2, TypeIs
  <2>4. NoteInv
    BY DEF Init, NoteInv, NoteIsTheServers
  <2>5. LabelInv
    BY <2>1 DEF Init, LabelInv, LabelsAreTheGraphs
  <2> QED BY <2>2, <2>3, <2>4, <2>5 DEF IInv
<1>2. IInv /\ [Next]_vars => IInv'
  BY TypeStep, NoteStep, LabelStep DEF IInv
<1> QED BY <1>1, <1>2, PTL DEF Spec

(* Every variable keeps its type, and every open transaction block still   *)
(* has its savepoint on the server.                                        *)
THEOREM TypeCorrect == Spec => []TypeOK
<1>1. IInv => TypeOK
  BY DEF IInv
<1> QED BY <1>1, Invariance, PTL

(* The note names the server's statement timeout through any nesting of    *)
(* blocks, unless a rollback the client was not told of undid it, or one   *)
(* it does not act on: that of a COMMIT the server refuses.                *)
THEOREM NoteHolds == Spec => []NoteIsTheServers
<1>1. IInv => NoteIsTheServers
  BY DEF IInv, NoteInv
<1> QED BY <1>1, Invariance, PTL

(* The label table is of the graph the session reads, or empty: but for    *)
(* the moment between a COMMIT that is refused and the next statement,     *)
(* where the server reports its path; and with the exceptions of the note, *)
(* where not.                                                              *)
THEOREM LabelsHold == Spec => []LabelsAreTheGraphs
<1>1. IInv => LabelsAreTheGraphs
  BY DEF IInv, LabelInv, LabelsAreTheGraphs
<1> QED BY <1>1, Invariance, PTL

=============================================================================
