--------------------------- MODULE StatementsProofs ---------------------------
(***************************************************************************)
(* Proofs about Pipeline and Upsert on one connection (Statements), for    *)
(* any batches in chunks of any size, any rows, any keys, and as many      *)
(* identities as there may be.                                             *)
(***************************************************************************)
EXTENDS Statements, SequenceTheorems, FiniteSetTheorems, WellFoundedInduction, TLAPS

(* The statements answered so far are the first n of the batch.            *)
Upto(n) == [i \in 1..n |-> i]

(* Where a call is in its batch.                                           *)
Place ==
    /\ step = "resting" \/ batch \in Batches
    /\ step \in {"sending", "reading", "undoing", "again"} => from \in 1..Len(batch)
    /\ step \in {"sending", "reading", "undoing"} => Len(results) = from - 1
    /\ step = "again" => from - 1 <= Len(results) /\ Len(results) < End

(* The transaction is the one the call found, and the savepoint is there   *)
(* only while it is to be rolled back to.                                  *)
Kept ==
    /\ saved => step = "undoing"
    /\ began = "open" /\ step \in {"sending", "reading", "again", "answered"} => tx = "open"
    /\ began = "open" /\ step = "reading" => mark
    /\ tx = "failed" /\ step \in {"sending", "reading", "again"} => began = "failed"

PipelineInv == PipelineTypeOK /\ Place /\ Kept /\ AnswersAreTheirs

-----------------------------------------------------------------------------
LEMMA UptoType ==
    ASSUME NEW n \in Nat
    PROVE  Upto(n) \in Seq(Nat) /\ Len(Upto(n)) = n /\ \A i \in 1..n : Upto(n)[i] = i
BY DEF Upto

LEMMA UptoAppend ==
    ASSUME NEW n \in Nat
    PROVE  Append(Upto(n), n + 1) = Upto(n + 1)
BY DEF Upto

LEMMA UptoConcat ==
    ASSUME NEW m \in Nat, NEW n \in Nat, m <= n
    PROVE  Upto(m) \o [i \in 1..(n - m) |-> m + i] = Upto(n)
BY DEF Upto

(* A chunk ends in its batch.                                              *)
LEMMA EndType ==
    ASSUME batch \in Seq(Kinds), from \in 1..Len(batch)
    PROVE  End \in from..Len(batch) /\ End \in Nat
BY PipelineAssumption DEF PipelineAssumption, End

LEMMA BatchType ==
    ASSUME NEW b \in Batches
    PROVE  b \in Seq(Kinds) /\ Len(b) \in Nat /\ Len(b) > 0
BY PipelineAssumption DEF PipelineAssumption

LEMMA InitPipeline == Init => PipelineInv
<1> SUFFICES ASSUME Init PROVE PipelineInv
  OBVIOUS
<1> USE DEF Init, PipelineInit
<1>0. <<>> \in Seq(Nat)
  OBVIOUS
<1>1. PipelineTypeOK
  BY <1>0 DEF PipelineTypeOK, TransactionTypeOK, Steps
<1>2. Place /\ Kept /\ BlamedIsAtFault
  BY DEF Place, Kept, BlamedIsAtFault
<1>3. results = <<>> /\ Len(results) = 0 /\ <<>> = [i \in 1..0 |-> i]
  OBVIOUS
<1>4. AnsweredWhole
  BY <1>3 DEF AnsweredWhole
<1> QED BY <1>1, <1>2, <1>4 DEF PipelineInv, AnswersAreTheirs

(* Between calls a connection's transaction is whatever it is.             *)
LEMMA PipelineRests ==
    ASSUME PipelineInv, step = "resting", UNCHANGED <<auto, pipeline>>, TransactionTypeOK'
    PROVE  PipelineInv'
<1>1. UNCHANGED <<auto, saved, label, table, step, batch, from, mark, carried, results, began,
                  blamed, masked, End>>
  BY DEF pipeline, asking, End
<1>2. PipelineTypeOK'
  BY <1>1 DEF PipelineInv, PipelineTypeOK
<1>3. Place' /\ Kept' /\ AnswersAreTheirs'
  BY <1>1 DEF PipelineInv, Place, Kept, AnswersAreTheirs, AnsweredWhole, BlamedIsAtFault
<1> QED BY <1>2, <1>3 DEF PipelineInv

-----------------------------------------------------------------------------
LEMMA StepQuery ==
    ASSUME PipelineInv, NEW b \in Batches, Query(b)
    PROVE  PipelineInv'
<1> USE DEF Query
<1>1. PipelineTypeOK'
  BY DEF PipelineInv, PipelineTypeOK, TransactionTypeOK, Steps
<1>2. Place'
  BY BatchType DEF PipelineInv, PipelineTypeOK, Place
<1>3. Kept' /\ BlamedIsAtFault'
  BY DEF PipelineInv, PipelineTypeOK, Kept, BlamedIsAtFault
<1>4. AnsweredWhole'
  BY DEF AnsweredWhole
<1> QED BY <1>1, <1>2, <1>3, <1>4 DEF PipelineInv, AnswersAreTheirs

LEMMA StepSend == PipelineInv /\ Send => PipelineInv'
<1> SUFFICES ASSUME PipelineInv, Send PROVE PipelineInv'
  OBVIOUS
<1>1. UNCHANGED <<auto, label, table, batch, from, results, began, blamed, masked, End>>
  BY DEF Send, End
<1>2. /\ step = "sending" /\ mark' = CanHoldASavepoint
      /\ \/ /\ Begun # "failed" /\ tx' = Begun /\ saved' = saved
            /\ carried' \in BOOLEAN /\ step' = "reading"
         \/ /\ tx' = Aborted /\ saved' = (mark' /\ Begun = "open") /\ carried' = carried
            /\ step' = IF mark' THEN "undoing" ELSE "again"
  BY DEF Send, PipelineInv, PipelineTypeOK
<1>3. PipelineTypeOK'
  BY <1>1, <1>2 DEF PipelineInv, PipelineTypeOK, TransactionTypeOK, Steps, Begun, Aborted,
       CanHoldASavepoint
<1>4. Place'
  <2>1. batch \in Batches /\ from \in 1..Len(batch) /\ Len(results) = from - 1
    BY <1>2 DEF PipelineInv, Place
  <2>2. from <= End
    BY <2>1, BatchType, EndType
  <2>3. from - 1 < End
    BY <2>1, <2>2, BatchType, EndType
  <2> QED BY <1>1, <1>2, <2>1, <2>3 DEF Place
<1>5. Kept'
  <2>1. /\ ~saved /\ (began = "open" => tx = "open") /\ (tx = "failed" => began = "failed")
        /\ tx \in {"idle", "open", "failed"} /\ began' = began
    BY <1>1, <1>2 DEF PipelineInv, PipelineTypeOK, TransactionTypeOK, Kept
  <2>2. CASE Begun # "failed" /\ tx' = Begun /\ saved' = saved /\ step' = "reading"
    BY <1>2, <2>1, <2>2 DEF Kept, Begun, CanHoldASavepoint
  <2>3. CASE /\ tx' = Aborted /\ saved' = (mark' /\ Begun = "open")
             /\ step' = IF mark' THEN "undoing" ELSE "again"
    <3>1. CASE CanHoldASavepoint
      BY <1>2, <2>1, <2>3, <3>1 DEF Kept
    <3>2. CASE ~CanHoldASavepoint
      BY <1>2, <2>1, <2>3, <3>2 DEF Kept, Begun, Aborted, CanHoldASavepoint
    <3> QED BY <3>1, <3>2
  <2> QED BY <1>2, <2>2, <2>3
<1>6. AnswersAreTheirs'
  BY <1>1, <1>2 DEF PipelineInv, AnswersAreTheirs, AnsweredWhole, BlamedIsAtFault
<1> QED BY <1>3, <1>4, <1>5, <1>6 DEF PipelineInv

(* The results of a whole chunk after those before it.                     *)
LEMMA ExtendedIsUpto ==
    ASSUME PipelineInv, step = "reading"
    PROVE  /\ Extended = Upto(End) /\ Extended \in Seq(Nat) /\ Len(Extended) = End
           /\ End \in 1..Len(batch) /\ End \in Nat /\ Len(batch) \in Nat
<1>1. batch \in Batches /\ from \in 1..Len(batch) /\ Len(results) = from - 1
  BY DEF PipelineInv, Place
<1>2. results = Upto(from - 1)
  BY <1>1 DEF PipelineInv, AnswersAreTheirs, AnsweredWhole, Upto
<1>3. End \in from..Len(batch) /\ End \in Nat /\ from - 1 \in Nat /\ from - 1 <= End
      /\ Len(batch) \in Nat
  BY <1>1, BatchType, EndType
<1>4. Upto(from - 1) \o [i \in 1..(End - (from - 1)) |-> (from - 1) + i] = Upto(End)
  BY <1>3, UptoConcat
<1>5. [i \in 1..(End - from + 1) |-> from + i - 1]
        = [i \in 1..(End - (from - 1)) |-> (from - 1) + i]
  BY <1>1, <1>3
<1>6. Extended = Upto(End)
  BY <1>2, <1>4, <1>5 DEF Extended
<1> QED BY <1>1, <1>3, <1>6, UptoType

LEMMA StepRead == PipelineInv /\ Read => PipelineInv'
<1> SUFFICES ASSUME PipelineInv, Read PROVE PipelineInv'
  OBVIOUS
<1>1. /\ step = "reading"
      /\ UNCHANGED <<tx, auto, saved, label, batch, mark, carried, began, blamed, masked>>
      /\ table' \in BOOLEAN
  BY DEF Read, PipelineInv, PipelineTypeOK
<1>2. batch \in Batches /\ from \in 1..Len(batch) /\ Len(results) = from - 1
  BY <1>1 DEF PipelineInv, Place
<1>3. CASE results' = Extended /\ Onward
  <2>1. /\ results' = Upto(End) /\ results' \in Seq(Nat) /\ Len(results') = End
        /\ End \in 1..Len(batch) /\ End \in Nat /\ Len(batch) \in Nat
    BY <1>1, <1>3, ExtendedIsUpto
  <2>2. from' = End + 1 /\ step' = IF End = Len(batch) THEN "answered" ELSE "sending"
    BY <1>3 DEF Onward
  <2>3. PipelineTypeOK'
    BY <1>1, <2>1, <2>2 DEF PipelineInv, PipelineTypeOK, TransactionTypeOK, Steps
  <2>4. Place'
    BY <1>1, <1>2, <2>1, <2>2 DEF Place
  <2>5. Kept'
    BY <1>1, <2>2 DEF PipelineInv, Kept
  <2>6. AnsweredWhole'
    BY <1>1, <2>1, <2>2, <2>5 DEF AnsweredWhole, Upto, Kept
  <2>7. BlamedIsAtFault'
    BY <2>2 DEF BlamedIsAtFault
  <2> QED BY <2>3, <2>4, <2>5, <2>6, <2>7 DEF PipelineInv, AnswersAreTheirs
<1>4. CASE UNCHANGED <<table, results, from>> /\ step' = IF mark THEN "undoing" ELSE "again"
  <2>1. End' = End
    BY <1>1, <1>4 DEF End
  <2>2. from - 1 < End
    BY <1>2, BatchType, EndType
  <2>3. PipelineTypeOK'
    BY <1>1, <1>4 DEF PipelineInv, PipelineTypeOK, TransactionTypeOK, Steps
  <2>4. Place'
    BY <1>1, <1>2, <1>4, <2>1, <2>2 DEF Place
  <2>5. Kept'
    BY <1>1, <1>4 DEF PipelineInv, Kept
  <2>6. AnswersAreTheirs'
    BY <1>1, <1>4 DEF PipelineInv, AnswersAreTheirs, AnsweredWhole, BlamedIsAtFault
  <2> QED BY <2>3, <2>4, <2>5, <2>6 DEF PipelineInv
<1> QED BY <1>3, <1>4 DEF Read

LEMMA StepUndo == PipelineInv /\ Undo => PipelineInv'
<1> SUFFICES ASSUME PipelineInv, Undo PROVE PipelineInv'
  OBVIOUS
<1>1. UNCHANGED <<auto, label, table, batch, from, mark, carried, results, began, blamed, End>>
  BY DEF Undo, asking, End
<1>2. /\ step = "undoing"
      /\ \/ saved /\ tx' = "open" /\ saved' = FALSE /\ step' = "again" /\ masked' = masked
         \/ ~saved /\ tx' = "failed" /\ masked' = TRUE /\ step' = "raised" /\ saved' = saved
  BY DEF Undo
<1>3. PipelineTypeOK'
  BY <1>1, <1>2 DEF PipelineInv, PipelineTypeOK, TransactionTypeOK, Steps
<1>4. Place'
  <2>1. batch \in Batches /\ from \in 1..Len(batch) /\ Len(results) = from - 1
    BY <1>2 DEF PipelineInv, Place
  <2>2. from - 1 < End
    BY <2>1, BatchType, EndType
  <2> QED BY <1>1, <1>2, <2>1, <2>2 DEF Place
<1>5. Kept' /\ AnswersAreTheirs'
  BY <1>1, <1>2 DEF PipelineInv, PipelineTypeOK, Kept, AnswersAreTheirs, AnsweredWhole,
       BlamedIsAtFault
<1> QED BY <1>3, <1>4, <1>5 DEF PipelineInv

LEMMA StepAskAgain == PipelineInv /\ AskAgain => PipelineInv'
<1> SUFFICES ASSUME PipelineInv, AskAgain PROVE PipelineInv'
  OBVIOUS
<1> DEFINE n == Len(results)
<1>1. /\ step = "again"
      /\ UNCHANGED <<auto, saved, label, batch, mark, carried, began, masked>>
  BY DEF AskAgain
<1>2. /\ batch \in Batches /\ from \in 1..Len(batch) /\ from - 1 <= n /\ n < End /\ n \in Nat
      /\ results = Upto(n)
  <2>1. results = Upto(n) /\ n \in Nat
    BY DEF PipelineInv, PipelineTypeOK, AnswersAreTheirs, AnsweredWhole, Upto
  <2> QED BY <1>1, <2>1 DEF PipelineInv, Place
<1>3. End \in from..Len(batch) /\ End \in Nat /\ Len(batch) \in Nat /\ from \in Nat
  BY <1>2, BatchType, EndType
<1> HIDE DEF n
<1>6. Next1 = n + 1
  BY DEF Next1, n
<1>4. CASE /\ Begun # "failed" /\ batch[Next1] # "bad" /\ tx' = Begun
           /\ table' = (table \/ (label /\ batch[Next1] = "named"))
           /\ results' = Append(results, Next1)
           /\ IF Next1 = End THEN Onward ELSE UNCHANGED <<from, step>>
           /\ blamed' = blamed
  <2>1. /\ results' = Upto(n + 1) /\ results' \in Seq(Nat) /\ Len(results') = n + 1
    <3>1. results' = Append(Upto(n), n + 1)
      BY <1>2, <1>4, <1>6
    <3>2. n + 1 \in Nat
      BY <1>2
    <3> QED BY <1>2, <3>1, <3>2, UptoAppend, UptoType
  <2>2. \/ n + 1 = End /\ from' = End + 1
           /\ step' = IF End = Len(batch) THEN "answered" ELSE "sending"
        \/ n + 1 # End /\ from' = from /\ step' = step
    <3>1. IF Next1 = End THEN Onward ELSE UNCHANGED <<from, step>>
      BY <1>4
    <3> QED BY <1>6, <3>1 DEF Onward
  <2>3. table' \in BOOLEAN
    BY <1>4 DEF PipelineInv, PipelineTypeOK
  <2>4. PipelineTypeOK'
    <3>1. TransactionTypeOK'
      BY <1>1, <1>4 DEF PipelineInv, PipelineTypeOK, TransactionTypeOK, Begun
    <3>2. step' \in Steps /\ from' \in Nat
      BY <1>1, <1>3, <2>2 DEF Steps
    <3> QED BY <1>1, <1>4, <2>1, <2>3, <3>1, <3>2 DEF PipelineInv, PipelineTypeOK
  <2>5. Place'
    <3>1. from' = from => End' = End
      BY <1>1 DEF End
    <3>2. CASE n + 1 = End
      BY <1>1, <1>2, <1>3, <2>1, <2>2, <3>2 DEF Place
    <3>3. CASE n + 1 # End
      <4>1. n + 1 < End /\ from - 1 <= n + 1
        BY <1>2, <1>3, <3>3
      <4> QED BY <1>1, <1>2, <2>1, <2>2, <3>1, <3>3, <4>1 DEF Place
    <3> QED BY <3>2, <3>3
  <2>6. Kept'
    BY <1>1, <1>4, <2>2 DEF PipelineInv, PipelineTypeOK, TransactionTypeOK, Kept, Begun
  <2>7. AnsweredWhole'
    BY <1>1, <2>1, <2>2, <2>6 DEF AnsweredWhole, Upto, Kept
  <2>8. BlamedIsAtFault'
    BY <1>1, <2>2 DEF BlamedIsAtFault
  <2> QED BY <2>4, <2>5, <2>6, <2>7, <2>8 DEF PipelineInv, AnswersAreTheirs
<1>5. CASE /\ Begun = "failed" \/ batch[Next1] \in {"bad", "flaky"}
           /\ tx' = Aborted /\ blamed' = Next1 /\ step' = "raised"
           /\ UNCHANGED <<table, results, from>>
  <2>1. Next1 \in Nat /\ Next1 # Nobody
    BY <1>2, <1>6, PipelineAssumption DEF PipelineAssumption
  <2>2. PipelineTypeOK'
    BY <1>1, <1>5, <2>1 DEF PipelineInv, PipelineTypeOK, TransactionTypeOK, Steps, Begun, Aborted
  <2>3. Place' /\ Kept'
    BY <1>1, <1>2, <1>5 DEF Place, PipelineInv, Kept
  <2>4. AnsweredWhole'
    BY <1>1, <1>5 DEF PipelineInv, AnswersAreTheirs, AnsweredWhole
  <2>5. BlamedIsAtFault'
    BY <1>1, <1>5, <2>1 DEF BlamedIsAtFault, PipelineInv, PipelineTypeOK, TransactionTypeOK,
         Kept, Begun
  <2> QED BY <2>2, <2>3, <2>4, <2>5 DEF PipelineInv, AnswersAreTheirs
<1> QED BY <1>4, <1>5 DEF AskAgain

LEMMA StepReturn == PipelineInv /\ Return => PipelineInv'
<1> SUFFICES ASSUME PipelineInv, Return PROVE PipelineInv'
  OBVIOUS
<1> USE DEF Return
<1>0. <<>> \in Seq(Nat)
  OBVIOUS
<1>1. PipelineTypeOK'
  BY <1>0 DEF PipelineInv, PipelineTypeOK, TransactionTypeOK, Steps
<1>3. Place' /\ Kept' /\ BlamedIsAtFault'
  BY DEF PipelineInv, Kept, Place, BlamedIsAtFault
<1>2. AnsweredWhole'
  BY DEF AnsweredWhole
<1> QED BY <1>1, <1>2, <1>3 DEF PipelineInv, AnswersAreTheirs

LEMMA StepOtherLabel == PipelineInv /\ OtherLabel => PipelineInv'
<1> SUFFICES ASSUME PipelineInv, OtherLabel PROVE PipelineInv'
  OBVIOUS
<1>1. /\ UNCHANGED <<tx, auto, saved, table, step, batch, from, mark, carried, results, began,
                     blamed, masked, End>>
      /\ label' \in BOOLEAN
  BY DEF OtherLabel, asking, End
<1>2. PipelineTypeOK' /\ Place' /\ Kept'
  BY <1>1 DEF PipelineInv, PipelineTypeOK, TransactionTypeOK, Place, Kept
<1>3. AnswersAreTheirs'
  BY <1>1 DEF PipelineInv, AnswersAreTheirs, AnsweredWhole, BlamedIsAtFault
<1> QED BY <1>2, <1>3 DEF PipelineInv

LEMMA StepReads == PipelineInv /\ Reads => PipelineInv'
BY StepQuery, StepSend, StepRead, StepUndo, StepAskAgain, StepReturn, StepOtherLabel
   DEF Reads, PipelineNext
-----------------------------------------------------------------------------
(* What is written.  Elements of one identity are one element: of one key, *)
(* and made by the same call.                                              *)
Elements == store \cup mine
Akin(d, e) == d.key = e.key /\ d.by = e.by /\ d.after = e.after

(* What a session may see: one element of an identity, and no two of a key *)
(* in one spelling where an index keeps them.                              *)
Proper(S) ==
    \A d, e \in S :
        /\ d.id = e.id => d = e
        /\ unique /\ d.id # e.id /\ d.key = e.key => d.form # e.form

(* e was not made beside d, which was there to be read or is of the same   *)
(* call's rows.                                                            *)
Apart(d, e) ==
    e.by = "me" /\ d.id # e.id /\ d.key = e.key =>
        d.id > e.after /\ (d.by = "me" /\ d.after = e.after => kind = "vertex")

Views ==
    /\ Proper(store) /\ Proper(Visible)
    /\ \A e \in Elements : e.id <= lastId /\ (e.by = "me" => e.after < e.id)
    /\ \A d, e \in Elements : (d.id = e.id => Akin(d, e)) /\ Apart(d, e)

(* A call's identities: there are enough, and what is reserved is nobody's. *)
Room ==
    at \in {"facts", "reading", "restoring"} \/ (at = "copying" /\ ids = NoIds) =>
        lastId + Len(rows) <= MaxId
Reserved ==
    at = "copying" /\ ids # NoIds =>
        /\ ids \in [fresh -> 1..MaxId]
        /\ \A i \in fresh : after < ids[i] /\ ids[i] <= lastId /\ \A e \in Elements : e.id # ids[i]
        /\ \A i, j \in fresh : i # j => ids[i] # ids[j]

(* What the read found is all there was of the keys given, and is older    *)
(* than what is made since.                                                *)
AllFound ==
    at \in {"restoring", "copying"} =>
        /\ after <= lastId
        /\ \A e \in Elements :
              /\ e.by = "me" => e.after < after
              /\ e.id <= after /\ e.key \in KeysOf(Given) => e.key \in KeysOf(known)

(* Which rows are copied: those whose key was not found, an edge's once.   *)
Chosen ==
    /\ at \in {"resting", "facts", "reading", "restoring"} => fresh = {} /\ ids = NoIds
    /\ at = "copying" /\ mode # "merge" => ids = NoIds
    /\ at = "copying" =>
          /\ \A i \in fresh : rows[i].key \notin KeysOf(known)
          /\ kind = "edge" => \A i, j \in fresh : rows[i].key = rows[j].key => i = j
    /\ at \in {"copying", "updating", "answered"} =>
          \A r \in Given : r.key \in KeysOf(known) \/ \E i \in fresh : rows[i].key = r.key

(* What was found and what was copied is there, if nobody removed it.      *)
Stays(id, key) == key \in gone \/ \E e \in Visible : e.id = id /\ e.key = key
StaysTouched(id, key) ==
    key \in gone \/ \E e \in Visible : e.id = id /\ e.key = key /\ e.touched
Standing ==
    /\ at \in {"restoring", "copying", "updating", "answered"} =>
          \A k \in known : Stays(k.id, k.key)
    /\ at \in {"updating", "answered"} =>
          \A i \in fresh : i \in DOMAIN ids /\ StaysTouched(ids[i], rows[i].key)
    /\ at = "answered" /\ mode # "skip" =>
          \A k \in known, r \in Given :
              k.key = r.key /\ ~r.bare => StaysTouched(k.id, k.key)

(* The setting, while it is turned off and otherwise.                      *)
Setting ==
    ~cut => /\ (IF at = "restoring" THEN prev ELSE scan) = wanted
            /\ tx # "idle" => base = wanted

UpsertInv ==
    /\ TransactionTypeOK /\ UpsertTypeOK /\ (tx = "idle" => mine = {}) /\ Views
    /\ Room /\ Reserved /\ AllFound /\ Chosen /\ Standing /\ Setting

-----------------------------------------------------------------------------
(* One set of elements over another.                                       *)
LEMMA OverType ==
    ASSUME NEW S, NEW T
    PROVE  /\ S \subseteq Over(S, T) /\ Over(S, T) \subseteq S \cup T
           /\ \A e \in T : e \in Over(S, T) \/ \E n \in S : n.id = e.id
BY DEF Over

LEMMA OverOver ==
    ASSUME NEW R, NEW S, NEW T
    PROVE  Over(Over(R, S), T) = Over(R, Over(S, T))
BY DEF Over

LEMMA VisibleType ==
    /\ mine \subseteq Visible /\ Visible \subseteq Elements /\ store \subseteq Elements
    /\ Elements = store \cup Visible
    /\ \A e \in Elements : \E v \in Visible : v.id = e.id
BY DEF Visible, Elements, Over

(* What new elements must be for those there to stay as they should.       *)
Fits(new, last) ==
    /\ \A n \in new : n.id <= last /\ (n.by = "me" => n.after < n.id)
    /\ \A m, n \in new : m.id = n.id => m = n
    /\ \A n \in new, d \in Elements : d.id = n.id => Akin(d, n)
    /\ \A n \in new, d \in Elements \cup new :
          /\ Apart(d, n) /\ Apart(n, d)
          /\ unique /\ d.id # n.id /\ d.key = n.key => d.form # n.form

LEMMA ProperOver ==
    ASSUME NEW new, NEW last, Fits(new, last), NEW S \in SUBSET Elements, Proper(S)
    PROVE  Proper(Over(new, S))
<1> SUFFICES ASSUME NEW d \in Over(new, S), NEW e \in Over(new, S)
             PROVE  /\ d.id = e.id => d = e
                    /\ unique /\ d.id # e.id /\ d.key = e.key => d.form # e.form
  BY DEF Proper
<1>1. CASE d \in new /\ e \in new
  BY <1>1 DEF Fits
<1>2. CASE d \in new /\ e \notin new
  BY <1>2 DEF Fits, Over
<1>3. CASE d \notin new /\ e \in new
  <2>1. d \in S /\ d.id # e.id
    BY <1>3 DEF Over
  <2> QED BY <1>3, <2>1 DEF Fits
<1>4. CASE d \notin new /\ e \notin new
  BY <1>4 DEF Proper, Over
<1> QED BY <1>1, <1>2, <1>3, <1>4

(* What each session sees afterwards is what it or the other saw, some of  *)
(* it gone and something new over it.                                      *)
SomeOf(S, new) ==
    S \subseteq store \/ S \subseteq Visible \/ S \subseteq Over(new, store)
    \/ S \subseteq Over(new, Visible)

LEMMA ViewsKept ==
    ASSUME Views, UNCHANGED <<kind, unique>>, lastId \in Nat, lastId' \in Nat, lastId <= lastId',
           \A e \in Elements : e.id \in Nat,
           NEW new, Fits(new, lastId'), SomeOf(store', new), SomeOf(Visible', new)
    PROVE  Views' /\ Elements' \subseteq Elements \cup new
<1>1. Proper(store) /\ Proper(Visible)
  BY DEF Views
<1>2. Proper(Over(new, store)) /\ Proper(Over(new, Visible))
  BY <1>1, VisibleType, ProperOver
<1>3. ASSUME NEW S, NEW T, Proper(T), S \subseteq T PROVE Proper(S)
  BY <1>3 DEF Proper
<1>4. Proper(store') /\ Proper(Visible')
  BY <1>1, <1>2, <1>3 DEF SomeOf
<1>5. Elements' \subseteq Elements \cup new
  <2>1. store' \subseteq Elements \cup new /\ Visible' \subseteq Elements \cup new
    BY VisibleType, OverType DEF SomeOf
  <2>2. Elements' = store' \cup Visible'
    BY DEF Visible, Elements, Over
  <2> QED BY <2>1, <2>2
<1>6. \A e \in Elements \cup new : e.id <= lastId' /\ (e.by = "me" => e.after < e.id)
  BY DEF Views, Fits
<1>7. \A d, e \in Elements \cup new : (d.id = e.id => Akin(d, e)) /\ Apart(d, e)
  <2>1. \A d, e \in Elements : (d.id = e.id => Akin(d, e)) /\ Apart(d, e)
    BY DEF Views
  <2>2. \A d, e \in new : (d.id = e.id => Akin(d, e)) /\ Apart(d, e)
    BY DEF Fits, Akin
  <2>3. \A d \in Elements, e \in new : (d.id = e.id => Akin(d, e)) /\ Apart(d, e)
    BY DEF Fits
  <2>4. \A d \in new, e \in Elements : (d.id = e.id => Akin(d, e)) /\ Apart(d, e)
    BY DEF Fits, Akin
  <2> QED BY <2>1, <2>2, <2>3, <2>4
<1>8. Proper(store)' /\ Proper(Visible)'
  BY <1>4 DEF Proper
<1>9. \A d, e \in Elements' : (d.id = e.id => Akin(d, e)) /\ Apart(d, e)'
  BY <1>5, <1>7 DEF Apart
<1> QED BY <1>5, <1>6, <1>8, <1>9 DEF Views, Akin

-----------------------------------------------------------------------------
(* The identities given to the rows to copy are new, and differ.           *)
LEMMA NumbersType ==
    ASSUME rows \in Seq(Row), fresh \subseteq DOMAIN rows, lastId \in Nat
    PROVE  /\ Cardinality(fresh) \in Nat /\ Cardinality(fresh) <= Len(rows)
           /\ \A i \in fresh : /\ Numbers[i] \in Nat
                               /\ lastId < Numbers[i]
                               /\ Numbers[i] <= lastId + Cardinality(fresh)
           /\ \A i, j \in fresh : i # j => Numbers[i] # Numbers[j]
           /\ DOMAIN Numbers = fresh
<1> DEFINE Before(i) == {j \in fresh : j <= i}
<1>1. /\ DOMAIN rows = 1..Len(rows) /\ Len(rows) \in Nat
      /\ fresh \subseteq 1..Len(rows)
  OBVIOUS
<1>2. IsFiniteSet(1..Len(rows)) /\ Cardinality(1..Len(rows)) = Len(rows)
  <2>1. IsFiniteSet(1..Len(rows))
        /\ Cardinality(1..Len(rows)) = IF 1 > Len(rows) THEN 0 ELSE Len(rows) - 1 + 1
    BY <1>1, FS_Interval
  <2> QED BY <1>1, <2>1
<1>3. IsFiniteSet(fresh) /\ Cardinality(fresh) <= Len(rows) /\ Cardinality(fresh) \in Nat
  BY <1>1, <1>2, FS_Subset, FS_CardinalityType
<1>4. ASSUME NEW i \in fresh
      PROVE  /\ IsFiniteSet(Before(i)) /\ Cardinality(Before(i)) \in Nat
             /\ Cardinality(Before(i)) <= Cardinality(fresh) /\ 0 < Cardinality(Before(i))
  <2>1. Before(i) \subseteq fresh /\ i \in Before(i)
    BY <1>1
  <2>2. /\ IsFiniteSet(Before(i)) /\ Cardinality(Before(i)) \in Nat
        /\ Cardinality(Before(i)) <= Cardinality(fresh)
    BY <1>3, <2>1, FS_Subset, FS_CardinalityType
  <2>3. Cardinality(Before(i)) # 0
    BY <2>1, <2>2, FS_EmptySet
  <2> QED BY <2>2, <2>3
<1>5. ASSUME NEW i \in fresh, NEW j \in fresh, i < j
      PROVE  Cardinality(Before(i)) < Cardinality(Before(j))
  <2>1. Before(i) \subseteq Before(j) /\ j \in Before(j) /\ j \notin Before(i)
    BY <1>1, <1>5
  <2>2. /\ IsFiniteSet(Before(j) \ {j}) /\ Cardinality(Before(j) \ {j}) = Cardinality(Before(j)) - 1
    BY <1>4, <2>1, FS_RemoveElement
  <2>3. Before(i) \subseteq Before(j) \ {j}
    BY <2>1
  <2>4. Cardinality(Before(i)) <= Cardinality(Before(j) \ {j})
    BY <2>2, <2>3, FS_Subset
  <2>5. Cardinality(Before(j)) \in Nat /\ Cardinality(Before(i)) \in Nat
    BY <1>4
  <2> QED BY <2>2, <2>4, <2>5
<1>6. \A i \in fresh : Numbers[i] = lastId + Cardinality(Before(i))
  BY DEF Numbers
<1>7. DOMAIN Numbers = fresh
  BY DEF Numbers
<1> HIDE DEF Before
<1>8. \A i \in fresh : /\ Numbers[i] \in Nat /\ lastId < Numbers[i]
                       /\ Numbers[i] <= lastId + Cardinality(fresh)
  BY <1>3, <1>4, <1>6
<1>9. ASSUME NEW i \in fresh, NEW j \in fresh, i # j PROVE Numbers[i] # Numbers[j]
  <2>1. i < j \/ j < i
    BY <1>1, <1>9
  <2>2. Cardinality(Before(i)) # Cardinality(Before(j))
    BY <1>4, <1>5, <2>1
  <2> QED BY <1>4, <1>6, <2>2
<1> QED BY <1>3, <1>7, <1>8, <1>9

(* Of the places of a key one is the first.                                *)
LEMMA FirstPlace ==
    ASSUME NEW T \in SUBSET Nat, T # {}
    PROVE  \E i \in T : \A j \in T : i <= j
<1>1. \E i \in T : \A j \in T : ~(<<j, i>> \in OpToRel(<, Nat))
  BY WFMin, NatLessThanWellFounded
<1>2. PICK i \in T : \A j \in T : ~(<<j, i>> \in OpToRel(<, Nat))
  BY <1>1
<1>3. \A j \in T : ~(j < i)
  BY <1>2 DEF OpToRel
<1> QED BY <1>3

(* The rows to copy, once it is known what is there.                       *)
LEMMA SplitType ==
    ASSUME rows \in Seq(Row), fresh' = Split, UNCHANGED <<rows, kind>>
    PROVE  /\ fresh' \subseteq DOMAIN rows
           /\ \A i \in fresh' : rows[i].key \notin KeysOf(known')
           /\ kind = "edge" => \A i, j \in fresh' : rows[i].key = rows[j].key => i = j
           /\ \A r \in Given : r.key \in KeysOf(known') \/ \E i \in fresh' : rows[i].key = r.key
<1>1. DOMAIN rows = 1..Len(rows) /\ Len(rows) \in Nat
  OBVIOUS
<1>2. fresh' \subseteq EveryRow /\ EveryRow \subseteq DOMAIN rows
      /\ \A i \in EveryRow : rows[i].key \notin KeysOf(known')
  BY DEF Split, FirstOfEach, EveryRow
<1>3. ASSUME kind = "edge", NEW i \in fresh', NEW j \in fresh', rows[i].key = rows[j].key
      PROVE  i = j
  <2>1. /\ i \in 1..Len(rows) /\ j \in 1..Len(rows)
        /\ \A k \in 1..(i - 1) : rows[k].key # rows[i].key
        /\ \A k \in 1..(j - 1) : rows[k].key # rows[j].key
    BY <1>1, <1>3 DEF Split, FirstOfEach, EveryRow
  <2> QED BY <1>1, <1>3, <2>1
<1>4. ASSUME NEW r \in Given, r.key \notin KeysOf(known')
      PROVE  \E i \in fresh' : rows[i].key = r.key
  <2> DEFINE T == {i \in DOMAIN rows : rows[i].key = r.key}
  <2>1. T # {} /\ T \in SUBSET Nat
    BY <1>1 DEF Given
  <2>2. PICK i \in T : \A j \in T : i <= j
    BY <2>1, FirstPlace
  <2>3. i \in EveryRow
    BY <1>4, <2>2 DEF EveryRow
  <2>4. \A j \in 1..(i - 1) : rows[j].key # rows[i].key
    BY <1>1, <2>2
  <2> QED BY <2>2, <2>3, <2>4 DEF Split, FirstOfEach
<1> QED BY <1>2, <1>3, <1>4

-----------------------------------------------------------------------------
(* Types, as they are used.                                                *)
LEMMA ElementsType ==
    ASSUME UpsertTypeOK
    PROVE  /\ Elements \subseteq Element /\ Visible \subseteq Element
           /\ \A e \in Elements : /\ e.id \in Nat /\ e.after \in Nat /\ e.key \in Keys
                                  /\ e.by \in {"me", "other"}
           /\ lastId \in Nat /\ after \in Nat /\ MaxId \in Nat /\ lastId <= MaxId
           /\ rows \in Seq(Row) /\ Len(rows) \in Nat
<1>1. rows \in Seq(Row)
  <2>1. rows \in Rows \cup {<<>>} /\ Rows \subseteq Seq(Row)
    BY UpsertAssumption DEF UpsertAssumption, UpsertTypeOK
  <2>2. <<>> \in Seq(Row)
    OBVIOUS
  <2> QED BY <2>1, <2>2
<1>2. Elements \subseteq Element /\ Visible \subseteq Element
  BY VisibleType DEF UpsertTypeOK, Elements
<1>3. \A e \in Element : /\ e.id \in Nat /\ e.after \in Nat /\ e.key \in Keys
                         /\ e.by \in {"me", "other"}
  BY UpsertAssumption DEF UpsertAssumption, Element
<1> QED BY <1>1, <1>2, <1>3, UpsertAssumption DEF UpsertAssumption, UpsertTypeOK

LEMMA BegunType ==
    ASSUME TransactionTypeOK, UNCHANGED auto, tx' \in {tx, Begun, Aborted}
    PROVE  TransactionTypeOK' /\ (tx' = "idle" => tx = "idle")
BY DEF TransactionTypeOK, Begun, Aborted

(* Nothing new fits whatever is there.                                     *)
LEMMA NothingFits == ASSUME Views PROVE Fits({}, lastId)
BY DEF Fits

LEMMA SameViews ==
    ASSUME Views, UpsertTypeOK, UNCHANGED <<kind, unique, store, mine>>,
           lastId' \in Nat, lastId <= lastId'
    PROVE  Views' /\ Elements' = Elements /\ Visible' = Visible
<1>1. Elements' = Elements /\ Visible' = Visible
  BY DEF Elements, Visible, Over
<1>2. Fits({}, lastId')
  BY DEF Fits
<1>3. SomeOf(store', {}) /\ SomeOf(Visible', {})
  BY <1>1 DEF SomeOf
<1> QED BY <1>1, <1>2, <1>3, ViewsKept, ElementsType

(* What is still to be seen of what was seen.                              *)
LEMMA StaysOn ==
    ASSUME gone \subseteq gone',
           \A e \in Visible :
               e.key \in gone' \/ \E v \in Visible' : /\ v.id = e.id /\ v.key = e.key
                                                      /\ e.touched => v.touched
    PROVE  \A id, key : /\ Stays(id, key) => Stays(id, key)'
                        /\ StaysTouched(id, key) => StaysTouched(id, key)'
BY DEF Stays, StaysTouched

-----------------------------------------------------------------------------
LEMMA InitUpsert == Init => UpsertInv
<1> SUFFICES ASSUME Init PROVE UpsertInv
  OBVIOUS
<1> USE DEF Init, UpsertInit
<1>1. TransactionTypeOK /\ (tx = "idle" => mine = {})
  BY DEF TransactionTypeOK
<1>2. UpsertTypeOK
  <2>1. MaxId \in Nat
    BY UpsertAssumption DEF UpsertAssumption
  <2>2. /\ kind \in {"vertex", "edge"} /\ unique \in BOOLEAN
        /\ store \subseteq Element /\ mine \subseteq Element
        /\ lastId \in 0..MaxId /\ after \in 0..MaxId
    BY <2>1
  <2>3. /\ {scan, base, wanted, prev} \subseteq {"on", "off"}
        /\ at \in Stages /\ mode \in {"skip", "update", "merge"}
        /\ {careless, cut} \subseteq BOOLEAN
    BY DEF Stages
  <2>4. /\ rows \in Rows \cup {<<>>} /\ fresh \subseteq DOMAIN rows
        /\ ids \in {NoIds} \cup [fresh -> 1..MaxId]
        /\ known \subseteq Element /\ gone \subseteq Keys
    OBVIOUS
  <2> QED BY <2>2, <2>3, <2>4 DEF UpsertTypeOK
<1>3. Elements = {} /\ Visible = {}
  BY DEF Elements, Visible, Over
<1>4. Views
  BY <1>3 DEF Views, Proper
<1>5. Room /\ Reserved /\ AllFound /\ Chosen /\ Standing /\ Setting
  BY DEF Room, Reserved, AllFound, Chosen, Standing, Setting
<1> QED BY <1>1, <1>2, <1>4, <1>5 DEF UpsertInv

(* The steps of a call that leave the elements alone.                      *)
LEMMA StepAsk ==
    ASSUME UpsertInv, Started, UNCHANGED auto,
           NEW m \in {"skip", "update", "merge"}, NEW r \in Rows, NEW c \in BOOLEAN, Ask(m, r, c)
    PROVE  UpsertInv'
<1>1. UNCHANGED <<tx, kind, unique, store, mine, lastId, scan, wanted, prev, known, after,
                  fresh, ids, gone, cut>>
  BY DEF Ask
<1>2. at = "resting" /\ at' = "facts" /\ mode' = m /\ rows' = r /\ careless' = c
      /\ lastId + Len(r) <= MaxId
  BY DEF Ask
<1>3. fresh = {} /\ ids = NoIds
  BY <1>2 DEF UpsertInv, Chosen
<1>4. TransactionTypeOK' /\ (tx' = "idle" => mine' = {})
  BY <1>1 DEF UpsertInv, TransactionTypeOK
<1>5. UpsertTypeOK'
  BY <1>1, <1>2, <1>3 DEF UpsertInv, UpsertTypeOK, Stages, Started
<1>6. Views'
  BY <1>1, SameViews, ElementsType DEF UpsertInv
<1>7. Room' /\ Reserved' /\ AllFound' /\ Chosen' /\ Standing'
  BY <1>1, <1>2, <1>3 DEF Room, Reserved, AllFound, Chosen, Standing
<1>8. Setting'
  BY <1>1, <1>2 DEF UpsertInv, Setting, Started
<1> QED BY <1>4, <1>5, <1>6, <1>7, <1>8 DEF UpsertInv

LEMMA StepFacts ==
    ASSUME UpsertInv, Started, UNCHANGED auto, Facts
    PROVE  UpsertInv'
<1>1. /\ UNCHANGED <<kind, unique, store, mine, lastId, scan, wanted, mode, careless, rows, prev,
                     known, after, fresh, ids, gone, cut>>
      /\ at = "facts" /\ at' \in {"reading", "raised"} /\ tx' \in {Begun, Aborted}
  BY DEF Facts, Fails, call
<1>2. TransactionTypeOK' /\ (tx' = "idle" => mine' = {})
  BY <1>1, BegunType DEF UpsertInv
<1>3. UpsertTypeOK'
  BY <1>1 DEF UpsertInv, UpsertTypeOK, Stages, Started
<1>4. Views'
  BY <1>1, SameViews, ElementsType DEF UpsertInv
<1>5. Room' /\ Reserved' /\ AllFound' /\ Chosen' /\ Standing'
  BY <1>1 DEF UpsertInv, Room, Reserved, AllFound, Chosen, Standing
<1>6. Setting'
  BY <1>1 DEF UpsertInv, Setting, Started
<1> QED BY <1>2, <1>3, <1>4, <1>5, <1>6 DEF UpsertInv

(* What a read finds, of elements that are all older than what is to come. *)
LEMMA FoundIsAll ==
    ASSUME UpsertInv, NEW found \in {Found, Visible}, NEW s, s \subseteq found,
           KeysOf(s) = KeysOf(found)
    PROVE  /\ s \subseteq Visible
           /\ \A e \in Elements :
                 /\ e.by = "me" => e.after < lastId
                 /\ e.key \in KeysOf(Given) => e.key \in KeysOf(s)
<1>1. found \subseteq Visible
  BY DEF Found
<1>2. ASSUME NEW e \in Elements, e.by = "me" PROVE e.after < lastId
  <2>1. e.id <= lastId /\ e.after < e.id
    BY <1>2 DEF UpsertInv, Views
  <2>2. e.id \in Nat /\ e.after \in Nat /\ lastId \in Nat
    BY ElementsType DEF UpsertInv
  <2> QED BY <2>1, <2>2
<1>3. ASSUME NEW e \in Elements, e.key \in KeysOf(Given) PROVE e.key \in KeysOf(s)
  <2>1. PICK v \in Visible : v.id = e.id
    BY VisibleType
  <2>2. v.key = e.key
    BY <2>1, VisibleType DEF UpsertInv, Views, Akin
  <2>3. v \in found
    BY <1>3, <2>1, <2>2 DEF Found
  <2>4. e.key \in KeysOf(found)
    BY <2>2, <2>3 DEF KeysOf
  <2> QED BY <2>4
<1> QED BY <1>1, <1>2, <1>3

LEMMA StepReadAll ==
    ASSUME UpsertInv, Started, UNCHANGED auto, ReadAll
    PROVE  UpsertInv'
<1>1. /\ UNCHANGED <<kind, unique, store, mine, lastId, scan, wanted, mode, careless, rows, prev,
                     ids, gone, cut>>
      /\ at = "reading" /\ tx' \in {Begun, Aborted}
  BY DEF ReadAll
<1>2. TransactionTypeOK' /\ (tx' = "idle" => mine' = {})
  BY <1>1, BegunType DEF UpsertInv
<1>3. Views' /\ Elements' = Elements /\ Visible' = Visible
  BY <1>1, SameViews, ElementsType DEF UpsertInv
<1>4. Given' = Given
  BY <1>1 DEF Given
<1>5. fresh = {} /\ ids = NoIds /\ lastId + Len(rows) <= MaxId
  BY <1>1 DEF UpsertInv, Chosen, Room
<1>6. Setting'
  <2>1. at' # "restoring"
    BY DEF ReadAll, Learn
  <2> QED BY <1>1, <2>1 DEF UpsertInv, Setting, Started
<1>7. CASE at' = "raised" /\ UNCHANGED <<known, after, fresh>>
  <2>1. UpsertTypeOK'
    BY <1>1, <1>7 DEF UpsertInv, UpsertTypeOK, Stages, Started
  <2>2. Room' /\ Reserved' /\ AllFound' /\ Chosen' /\ Standing'
    BY <1>1, <1>7 DEF Room, Reserved, AllFound, Chosen, Standing
  <2> QED BY <1>2, <1>3, <1>6, <2>1, <2>2 DEF UpsertInv
<1>8. ASSUME NEW found \in {Found, Visible},
             known' \in {s \in SUBSET found : /\ KeysOf(s) = KeysOf(found)
                                              /\ \A d, e \in s : d.key = e.key => d = e},
             after' = lastId, fresh' = Split, at' = "copying"
      PROVE  UpsertInv'
  <2>1. known' \subseteq found /\ KeysOf(known') = KeysOf(found)
    BY <1>8
  <2>2. /\ known' \subseteq Visible
        /\ \A e \in Elements :
              /\ e.by = "me" => e.after < lastId
              /\ e.key \in KeysOf(Given) => e.key \in KeysOf(known')
    BY <2>1, FoundIsAll
  <2>3. rows \in Seq(Row) /\ known' \subseteq Element
    BY <2>2, ElementsType DEF UpsertInv
  <2>4. /\ fresh' \subseteq DOMAIN rows
        /\ \A i \in fresh' : rows[i].key \notin KeysOf(known')
        /\ kind = "edge" => \A i, j \in fresh' : rows[i].key = rows[j].key => i = j
        /\ \A r \in Given : r.key \in KeysOf(known') \/ \E i \in fresh' : rows[i].key = r.key
    BY <1>1, <1>8, <2>3, SplitType
  <2>5. UpsertTypeOK'
    BY <1>1, <1>5, <1>8, <2>3, <2>4 DEF UpsertInv, UpsertTypeOK, Stages, Started
  <2>6. Room' /\ Reserved'
    BY <1>1, <1>5 DEF Room, Reserved
  <2>7. AllFound'
    BY <1>1, <1>3, <1>4, <1>8, <2>2, ElementsType DEF UpsertInv, AllFound
  <2>8. Chosen'
    BY <1>1, <1>4, <1>5, <1>8, <2>4 DEF Chosen
  <2>9. Standing'
    BY <1>3, <1>8, <2>2 DEF Standing, Stays
  <2> QED BY <1>2, <1>3, <1>6, <2>5, <2>6, <2>7, <2>8, <2>9 DEF UpsertInv
<1> QED BY <1>7, <1>8 DEF ReadAll, Learn

LEMMA StepReadKeys ==
    ASSUME UpsertInv, Started, UNCHANGED auto, ReadKeys
    PROVE  UpsertInv'
<1>1. /\ UNCHANGED <<kind, unique, store, mine, lastId, wanted, mode, careless, rows, fresh, ids,
                     gone>>
      /\ at = "reading" /\ tx' \in {Begun, Aborted}
  BY DEF ReadKeys
<1>2. TransactionTypeOK' /\ (tx' = "idle" => mine' = {})
  BY <1>1, BegunType DEF UpsertInv
<1>3. Views' /\ Elements' = Elements /\ Visible' = Visible
  BY <1>1, SameViews, ElementsType DEF UpsertInv
<1>4. Given' = Given
  BY <1>1 DEF Given
<1>5. fresh = {} /\ ids = NoIds
  BY <1>1 DEF UpsertInv, Chosen
<1>6. CASE /\ scan' = "off" /\ prev' = scan /\ known' = Found /\ after' = lastId
           /\ at' = "restoring" /\ cut' = cut
  <2>1. /\ known' \subseteq Visible
        /\ \A e \in Elements :
              /\ e.by = "me" => e.after < lastId
              /\ e.key \in KeysOf(Given) => e.key \in KeysOf(known')
    BY <1>6, FoundIsAll
  <2>2. UpsertTypeOK'
    BY <1>1, <1>6, <2>1, ElementsType DEF UpsertInv, UpsertTypeOK, Stages, Started
  <2>3. Room' /\ Reserved' /\ Chosen'
    BY <1>1, <1>5, <1>6 DEF UpsertInv, Room, Reserved, Chosen
  <2>4. AllFound'
    BY <1>1, <1>3, <1>4, <1>6, <2>1, ElementsType DEF UpsertInv, AllFound
  <2>5. Standing'
    BY <1>3, <1>6, <2>1 DEF Standing, Stays
  <2>6. Setting'
    BY <1>1, <1>6 DEF UpsertInv, Setting, Started
  <2> QED BY <1>2, <1>3, <2>2, <2>3, <2>4, <2>5, <2>6 DEF UpsertInv
<1>7. CASE /\ at' = "raised" /\ UNCHANGED <<prev, known, after>>
           /\ UNCHANGED <<scan, cut>> \/ (scan' = "off" /\ cut' = TRUE)
  <2>1. UpsertTypeOK'
    BY <1>1, <1>7 DEF UpsertInv, UpsertTypeOK, Stages, Started
  <2>2. Room' /\ Reserved' /\ AllFound' /\ Chosen' /\ Standing'
    BY <1>1, <1>7 DEF Room, Reserved, AllFound, Chosen, Standing
  <2>3. Setting'
    BY <1>1, <1>7 DEF UpsertInv, Setting, Started
  <2> QED BY <1>2, <1>3, <2>1, <2>2, <2>3 DEF UpsertInv
<1>8. CASE at' = "raised" /\ UNCHANGED <<scan, prev, known, after, cut>>
  BY <1>7, <1>8
<1>9. CASE at' = "raised" /\ scan' = "off" /\ cut' = TRUE /\ UNCHANGED <<prev, known, after>>
  BY <1>7, <1>9
<1> QED BY <1>6, <1>8, <1>9 DEF ReadKeys

LEMMA StepRestore ==
    ASSUME UpsertInv, Started, UNCHANGED auto, Restore
    PROVE  UpsertInv'
<1>1. /\ UNCHANGED <<tx, kind, unique, store, mine, lastId, wanted, mode, careless, rows, prev,
                     known, after, ids, gone, cut>>
      /\ at = "restoring" /\ scan' = prev
  BY DEF Restore, Back
<1>2. TransactionTypeOK' /\ (tx' = "idle" => mine' = {})
  BY <1>1 DEF UpsertInv, TransactionTypeOK
<1>3. Views' /\ Elements' = Elements /\ Visible' = Visible
  BY <1>1, SameViews, ElementsType DEF UpsertInv
<1>4. Given' = Given
  BY <1>1 DEF Given
<1>5. fresh = {} /\ ids = NoIds /\ lastId + Len(rows) <= MaxId
  BY <1>1 DEF UpsertInv, Chosen, Room
<1>6. Setting'
  <2>1. at' # "restoring"
    BY DEF Restore
  <2> QED BY <1>1, <2>1 DEF UpsertInv, Setting, Started
<1>7. CASE at' = "raised" /\ UNCHANGED fresh
  <2>1. UpsertTypeOK'
    BY <1>1, <1>7 DEF UpsertInv, UpsertTypeOK, Stages, Started
  <2>2. Room' /\ Reserved' /\ AllFound' /\ Chosen' /\ Standing'
    BY <1>1, <1>7 DEF Room, Reserved, AllFound, Chosen, Standing
  <2> QED BY <1>2, <1>3, <1>6, <2>1, <2>2 DEF UpsertInv
<1>8. CASE fresh' = Split /\ at' = "copying"
  <2>1. rows \in Seq(Row)
    BY ElementsType DEF UpsertInv
  <2>2. /\ fresh' \subseteq DOMAIN rows
        /\ \A i \in fresh' : rows[i].key \notin KeysOf(known')
        /\ kind = "edge" => \A i, j \in fresh' : rows[i].key = rows[j].key => i = j
        /\ \A r \in Given : r.key \in KeysOf(known') \/ \E i \in fresh' : rows[i].key = r.key
    BY <1>1, <1>8, <2>1, SplitType
  <2>3. UpsertTypeOK'
    BY <1>1, <1>5, <1>8, <2>2 DEF UpsertInv, UpsertTypeOK, Stages, Started
  <2>4. Room' /\ Reserved'
    BY <1>1, <1>5 DEF Room, Reserved
  <2>5. AllFound'
    BY <1>1, <1>3, <1>4, <1>8 DEF UpsertInv, AllFound
  <2>6. Chosen'
    BY <1>1, <1>4, <1>5, <1>8, <2>2 DEF Chosen
  <2>7. Standing'
    BY <1>1, <1>3, <1>8 DEF UpsertInv, Standing, Stays
  <2> QED BY <1>2, <1>3, <1>6, <2>3, <2>4, <2>5, <2>6, <2>7 DEF UpsertInv
<1> QED BY <1>7, <1>8 DEF Restore

(* The identities a copy takes, where none were reserved.                  *)
LEMMA NumbersAreNew ==
    ASSUME UpsertInv, lastId + Len(rows) <= MaxId
    PROVE  /\ lastId + Cardinality(fresh) \in 0..MaxId
           /\ lastId <= lastId + Cardinality(fresh)
           /\ Numbers \in [fresh -> 1..MaxId]
           /\ \A i \in fresh : /\ lastId < Numbers[i] /\ Numbers[i] <= lastId + Cardinality(fresh)
                               /\ \A e \in Elements : e.id # Numbers[i]
           /\ \A i, j \in fresh : i # j => Numbers[i] # Numbers[j]
<1>1. /\ rows \in Seq(Row) /\ fresh \subseteq DOMAIN rows /\ lastId \in Nat /\ MaxId \in Nat
      /\ Len(rows) \in Nat /\ \A e \in Elements : e.id \in Nat
  BY ElementsType DEF UpsertInv, UpsertTypeOK
<1>2. /\ Cardinality(fresh) \in Nat /\ Cardinality(fresh) <= Len(rows)
      /\ \A i \in fresh : /\ Numbers[i] \in Nat
                          /\ lastId < Numbers[i]
                          /\ Numbers[i] <= lastId + Cardinality(fresh)
      /\ \A i, j \in fresh : i # j => Numbers[i] # Numbers[j]
      /\ DOMAIN Numbers = fresh
  BY <1>1, NumbersType
<1>3. lastId + Cardinality(fresh) <= MaxId /\ lastId <= lastId + Cardinality(fresh)
  BY <1>1, <1>2
<1>4. \A i \in fresh : Numbers[i] \in 1..MaxId
  BY <1>1, <1>2, <1>3
<1>5. Numbers \in [fresh -> 1..MaxId]
  <2>1. Numbers = [i \in fresh |-> Numbers[i]]
    BY DEF Numbers
  <2> QED BY <1>4, <2>1
<1>6. ASSUME NEW i \in fresh, NEW e \in Elements PROVE e.id # Numbers[i]
  <2>1. e.id <= lastId
    BY DEF UpsertInv, Views
  <2> QED BY <1>1, <1>2, <2>1
<1> QED BY <1>1, <1>2, <1>3, <1>5, <1>6

LEMMA StepReserve ==
    ASSUME UpsertInv, Started, UNCHANGED auto, Reserve
    PROVE  UpsertInv'
<1>1. /\ UNCHANGED <<kind, unique, store, mine, scan, wanted, at, mode, careless, rows, prev,
                     known, after, fresh, gone, cut>>
      /\ at = "copying" /\ mode = "merge" /\ fresh # {} /\ ids = NoIds
      /\ tx' = Begun /\ ids' = Numbers /\ lastId' = lastId + Cardinality(fresh)
  BY DEF Reserve
<1>2. TransactionTypeOK' /\ (tx' = "idle" => mine' = {})
  BY <1>1, BegunType DEF UpsertInv
<1>3. /\ lastId' \in 0..MaxId /\ lastId <= lastId' /\ ids' \in [fresh -> 1..MaxId]
      /\ \A i \in fresh : /\ lastId < ids'[i] /\ ids'[i] <= lastId'
                          /\ \A e \in Elements : e.id # ids'[i]
      /\ \A i, j \in fresh : i # j => ids'[i] # ids'[j]
  <2>1. lastId + Len(rows) <= MaxId
    BY <1>1 DEF UpsertInv, Room
  <2> QED BY <1>1, <2>1, NumbersAreNew
<1>4. Views' /\ Elements' = Elements /\ Visible' = Visible
  BY <1>1, <1>3, SameViews, ElementsType DEF UpsertInv
<1>5. Given' = Given
  BY <1>1 DEF Given
<1>6. /\ after <= lastId /\ after \in Nat /\ lastId \in Nat /\ lastId' \in Nat
      /\ \A i \in fresh : ids'[i] \in Nat
  BY <1>1, <1>3, ElementsType DEF UpsertInv, AllFound
<1>7. UpsertTypeOK'
  BY <1>1, <1>3 DEF UpsertInv, UpsertTypeOK, Stages, Started
<1>8. Room'
  <2>1. DOMAIN ids' = fresh /\ DOMAIN NoIds = {}
    BY <1>3 DEF NoIds
  <2> QED BY <1>1, <2>1 DEF Room
<1>9. Reserved'
  <2>1. \A i \in fresh : after < ids'[i]
    BY <1>3, <1>6
  <2> QED BY <1>1, <1>3, <1>4, <2>1 DEF Reserved
<1>10. AllFound'
  <2>1. after <= lastId'
    BY <1>3, <1>6
  <2> QED BY <1>1, <1>4, <1>5, <2>1 DEF UpsertInv, AllFound
<1>11. Chosen' /\ Standing'
  BY <1>1, <1>4, <1>5 DEF UpsertInv, Chosen, Standing, Stays
<1>12. Setting'
  BY <1>1 DEF UpsertInv, Setting, Started
<1> QED BY <1>2, <1>4, <1>7, <1>8, <1>9, <1>10, <1>11, <1>12 DEF UpsertInv

-----------------------------------------------------------------------------
(* A statement that writes: what is seen afterwards is the new over what   *)
(* was seen.                                                               *)
LEMMA WroteView ==
    ASSUME TransactionTypeOK, tx = "idle" => mine = {}, UNCHANGED auto, NEW new, Wrote(new)
    PROVE  /\ TransactionTypeOK' /\ (tx' = "idle" => mine' = {})
           /\ SomeOf(store', new) /\ SomeOf(Visible', new)
           /\ Visible' = Over(new, Visible)
           /\ store' \subseteq store \cup new /\ mine' \subseteq mine \cup new
<1>1. tx' = Begun
  BY DEF Wrote
<1>2. TransactionTypeOK' /\ (tx' = "idle" => tx = "idle")
  BY <1>1, BegunType
<1>3. CASE Begun = "idle"
  <2>1. mine' = {} /\ store' = Over(new, store) /\ mine = {}
    <3>1. IF Begun = "idle"
          THEN mine' = {} /\ store' = Over(new, store)
          ELSE mine' = Over(new, mine) /\ UNCHANGED store
      BY DEF Wrote
    <3> QED BY <1>1, <1>2, <1>3, <3>1
  <2>2. Visible' = Over(new, store) /\ Visible = store
    BY <2>1 DEF Visible, Over
  <2>3. store' \subseteq store \cup new
    BY <2>1, OverType
  <2> QED BY <1>2, <2>1, <2>2, <2>3 DEF SomeOf
<1>4. CASE Begun # "idle"
  <2>1. mine' = Over(new, mine) /\ store' = store
    <3>1. IF Begun = "idle"
          THEN mine' = {} /\ store' = Over(new, store)
          ELSE mine' = Over(new, mine) /\ UNCHANGED store
      BY DEF Wrote
    <3> QED BY <1>4, <3>1
  <2>2. Visible' = Over(new, Visible)
    BY <2>1, OverOver DEF Visible
  <2>3. mine' \subseteq mine \cup new
    BY <2>1, OverType
  <2> QED BY <1>1, <1>2, <1>4, <2>1, <2>2, <2>3 DEF SomeOf
<1> QED BY <1>3, <1>4

(* What is copied is new, of a key that was not there, and fits.           *)
LEMMA CopiedFits ==
    ASSUME UpsertInv, at = "copying",
           NEW numbers \in [fresh -> 1..MaxId], NEW last \in Nat, ~Collides(Copied(numbers)),
           \A i \in fresh : after < numbers[i] /\ numbers[i] <= last,
           \A i \in fresh, e \in Elements : e.id # numbers[i],
           \A i, j \in fresh : i # j => numbers[i] # numbers[j]
    PROVE  Fits(Copied(numbers), last) /\ Copied(numbers) \subseteq Element
<1> DEFINE new == Copied(numbers)
<1>1. /\ fresh \subseteq DOMAIN rows /\ rows \in Seq(Row) /\ after \in 0..MaxId /\ MaxId \in Nat
      /\ \A i \in DOMAIN rows : rows[i] \in Row /\ rows[i].key \in KeysOf(Given)
  <2>1. rows \in Seq(Row)
    BY ElementsType DEF UpsertInv
  <2>2. \A i \in DOMAIN rows : rows[i] \in Row
    BY <2>1
  <2>3. \A i \in DOMAIN rows : rows[i].key \in KeysOf(Given)
    BY DEF KeysOf, Given
  <2> QED BY <2>1, <2>2, <2>3, ElementsType DEF UpsertInv, UpsertTypeOK
<1>2. \A n \in new : \E i \in fresh :
          n = [after |-> after, by |-> "me", form |-> rows[i].form, id |-> numbers[i],
               key |-> rows[i].key, touched |-> TRUE]
  BY DEF Copied
<1>3. \A n \in new : \E i \in fresh : /\ n.after = after /\ n.by = "me" /\ n.form = rows[i].form
                                      /\ n.id = numbers[i] /\ n.key = rows[i].key
  BY <1>2
<1>4. new \subseteq Element
  <2> SUFFICES ASSUME NEW n \in new PROVE n \in Element
    OBVIOUS
  <2>1. PICK i \in fresh :
          n = [after |-> after, by |-> "me", form |-> rows[i].form, id |-> numbers[i],
               key |-> rows[i].key, touched |-> TRUE]
    BY <1>2
  <2>2. rows[i].form \in Spellings /\ rows[i].key \in Keys /\ numbers[i] \in 1..MaxId
    BY <1>1 DEF Row
  <2> QED BY <1>1, <2>1, <2>2 DEF Element
<1>5. /\ \A n \in new : /\ n.by = "me" /\ n.after = after /\ after < n.id /\ n.id <= last
                        /\ n.key \in KeysOf(Given) /\ n.key \notin KeysOf(known)
                        /\ \A e \in Elements : e.id # n.id
      /\ \A m, n \in new : m.id = n.id => m = n
      /\ kind = "edge" => \A m, n \in new : m.key = n.key => m = n
  <2>1. /\ \A i \in fresh : rows[i].key \notin KeysOf(known)
        /\ kind = "edge" => \A i, j \in fresh : rows[i].key = rows[j].key => i = j
    BY DEF UpsertInv, Chosen
  <2>2. ASSUME NEW m \in new, NEW n \in new, m.id = n.id PROVE m = n
    <3>1. PICK i \in fresh :
            m = [after |-> after, by |-> "me", form |-> rows[i].form, id |-> numbers[i],
                 key |-> rows[i].key, touched |-> TRUE]
      BY <1>2
    <3>2. PICK j \in fresh :
            n = [after |-> after, by |-> "me", form |-> rows[j].form, id |-> numbers[j],
                 key |-> rows[j].key, touched |-> TRUE]
      BY <1>2
    <3>3. i = j
      BY <2>2, <3>1, <3>2
    <3> QED BY <3>1, <3>2, <3>3
  <2>3. ASSUME kind = "edge", NEW m \in new, NEW n \in new, m.key = n.key PROVE m = n
    <3>1. PICK i \in fresh : m.id = numbers[i] /\ m.key = rows[i].key
      BY <1>3
    <3>2. PICK j \in fresh : n.id = numbers[j] /\ n.key = rows[j].key
      BY <1>3
    <3>3. i = j
      BY <2>1, <2>3, <3>1, <3>2
    <3> QED BY <2>2, <3>1, <3>2, <3>3
  <2> QED BY <1>1, <1>3, <2>1, <2>2, <2>3
<1>6. \A d \in Elements :
          /\ d.by = "me" => d.after < after /\ d.after < d.id
          /\ d.key \in KeysOf(Given) /\ d.key \notin KeysOf(known) => ~(d.id <= after)
          /\ d.id \in Nat /\ d.after \in Nat
  BY ElementsType DEF UpsertInv, AllFound, Views
<1>7. \A n \in new, d \in Elements \cup new :
          unique /\ d.id # n.id /\ d.key = n.key => d.form # n.form
  <2>1. \A n \in new, d \in Elements :
            ~(unique /\ n.id # d.id /\ n.key = d.key /\ n.form = d.form)
    BY VisibleType DEF Collides
  <2>2. \A n \in new, d \in new : ~(unique /\ d # n /\ n.key = d.key /\ n.form = d.form)
    BY DEF Collides
  <2> QED BY <2>1, <2>2
<1> HIDE DEF new
<1>8. \A n \in new : n.id \in Nat
  BY <1>4, ElementsType, UpsertAssumption DEF UpsertAssumption, Element
<1>9. after \in Nat /\ kind \in {"vertex", "edge"}
  BY <1>1 DEF UpsertInv, UpsertTypeOK
<1>10. ASSUME NEW n \in new, NEW d \in Elements PROVE Apart(d, n) /\ Apart(n, d)
  <2>1. Apart(d, n)
    <3>1. d.key = n.key => after < d.id
      BY <1>5, <1>6, <1>9
    <3>2. d.by = "me" => d.after # after
      BY <1>6, <1>9
    <3> QED BY <1>5, <3>1, <3>2 DEF Apart
  <2>2. Apart(n, d)
    <3>1. d.by = "me" => d.after < after
      BY <1>6
    <3>2. d.by = "me" => n.id > d.after /\ n.after # d.after
      BY <1>5, <1>6, <1>8, <1>9, <3>1
    <3> QED BY <3>2 DEF Apart
  <2> QED BY <2>1, <2>2
<1>11. ASSUME NEW n \in new, NEW d \in new PROVE Apart(d, n)
  <2>1. d.id > n.after
    BY <1>5, <1>8, <1>9
  <2>2. d.id # n.id /\ d.key = n.key => kind = "vertex"
    BY <1>5, <1>9
  <2> QED BY <2>1, <2>2 DEF Apart
<1>12. Fits(new, last)
  BY <1>5, <1>7, <1>10, <1>11 DEF Fits
<1> QED BY <1>4, <1>12 DEF new

LEMMA StepCopy ==
    ASSUME UpsertInv, Started, UNCHANGED auto, Copy
    PROVE  UpsertInv'
<1>1. /\ UNCHANGED <<kind, unique, scan, wanted, mode, careless, rows, prev, known, after, fresh,
                     gone, cut>>
      /\ at = "copying"
  BY DEF Copy
<1>2. Given' = Given /\ at' \in {"updating", "raised"}
  BY <1>1 DEF Given, Copy, Fails
<1>3. Setting'
  BY <1>1, <1>2 DEF UpsertInv, Setting, Started
<1>4. Room' /\ Reserved' /\ AllFound'
  BY <1>2 DEF Room, Reserved, AllFound
<1>5. Chosen'
  BY <1>1, <1>2 DEF UpsertInv, Chosen
<1>6. CASE fresh = {} /\ at' = "updating" /\ UNCHANGED <<tx, store, mine, lastId, ids>>
  <2>1. TransactionTypeOK' /\ (tx' = "idle" => mine' = {})
    BY <1>6 DEF UpsertInv, TransactionTypeOK
  <2>2. Views' /\ Visible' = Visible
    BY <1>1, <1>6, SameViews, ElementsType DEF UpsertInv
  <2>3. UpsertTypeOK'
    BY <1>1, <1>2, <1>6 DEF UpsertInv, UpsertTypeOK, Stages, Started
  <2>4. Standing'
    BY <1>1, <1>6, <2>2 DEF UpsertInv, Standing, Stays
  <2> QED BY <1>3, <1>4, <1>5, <2>1, <2>2, <2>3, <2>4 DEF UpsertInv
<1>7. ASSUME fresh # {}, mode = "merge" => ids # NoIds,
             ids' = IF mode = "merge" THEN ids ELSE Numbers
      PROVE  /\ ids' \in [fresh -> 1..MaxId]
             /\ \A i \in fresh : after < ids'[i] /\ \A e \in Elements : e.id # ids'[i]
             /\ \A i, j \in fresh : i # j => ids'[i] # ids'[j]
             /\ mode = "merge" => \A i \in fresh : ids'[i] <= lastId
             /\ mode # "merge" => /\ lastId + Cardinality(fresh) \in 0..MaxId
                                  /\ lastId <= lastId + Cardinality(fresh)
                                  /\ \A i \in fresh : ids'[i] <= lastId + Cardinality(fresh)
  <2>1. CASE mode = "merge"
    BY <1>1, <1>7, <2>1 DEF UpsertInv, Reserved
  <2>2. CASE mode # "merge"
    <3>1. ids = NoIds /\ lastId + Len(rows) <= MaxId
      BY <1>1, <2>2 DEF UpsertInv, Chosen, Room
    <3>2. /\ lastId + Cardinality(fresh) \in 0..MaxId
          /\ lastId <= lastId + Cardinality(fresh)
          /\ Numbers \in [fresh -> 1..MaxId]
          /\ \A i \in fresh : /\ lastId < Numbers[i]
                              /\ Numbers[i] <= lastId + Cardinality(fresh)
                              /\ \A e \in Elements : e.id # Numbers[i]
          /\ \A i, j \in fresh : i # j => Numbers[i] # Numbers[j]
      BY <3>1, NumbersAreNew
    <3>3. \A i \in fresh : after < Numbers[i]
      <4>1. after <= lastId /\ after \in Nat /\ lastId \in Nat
        BY <1>1, ElementsType DEF UpsertInv, AllFound
      <4>2. MaxId \in Nat
        BY ElementsType DEF UpsertInv
      <4>3. \A i \in fresh : Numbers[i] \in Nat
        BY <3>2, <4>2
      <4> QED BY <3>2, <4>1, <4>3
    <3>4. ids' = Numbers
      BY <1>7, <2>2
    <3> QED BY <2>2, <3>2, <3>3, <3>4
  <2> QED BY <2>1, <2>2
<1>8. ASSUME fresh # {}, mode = "merge" => ids # NoIds,
             ids' = IF mode = "merge" THEN ids ELSE Numbers,
             ~Collides(Copied(ids')), Wrote(Copied(ids')), at' = "updating",
             lastId' = IF mode = "merge" THEN lastId ELSE lastId + Cardinality(fresh)
      PROVE  UpsertInv'
  <2> DEFINE new == Copied(ids')
  <2>1. lastId \in 0..MaxId /\ MaxId \in Nat /\ \A e \in Elements : e.id \in Nat
    BY ElementsType DEF UpsertInv, UpsertTypeOK
  <2>2. /\ lastId' \in 0..MaxId /\ lastId <= lastId'
        /\ \A i \in fresh : after < ids'[i] /\ ids'[i] <= lastId'
    BY <1>7, <1>8, <2>1
  <2>3. Fits(new, lastId') /\ new \subseteq Element
    <3>1. lastId' \in Nat
      BY <2>1, <2>2
    <3> QED BY <1>1, <1>7, <1>8, <2>2, <3>1, CopiedFits
  <2>4. /\ TransactionTypeOK' /\ (tx' = "idle" => mine' = {})
        /\ SomeOf(store', new) /\ SomeOf(Visible', new)
        /\ Visible' = Over(new, Visible)
        /\ store' \subseteq store \cup new /\ mine' \subseteq mine \cup new
    BY <1>8, WroteView DEF UpsertInv
  <2>5. \A i \in fresh : \E n \in new : n.id = ids'[i] /\ n.key = rows[i].key /\ n.touched
    <3> SUFFICES ASSUME NEW i \in fresh
                 PROVE  \E n \in new : n.id = ids'[i] /\ n.key = rows[i].key /\ n.touched
      OBVIOUS
    <3> DEFINE n == [after |-> after, by |-> "me", form |-> rows[i].form, id |-> ids'[i],
                     key |-> rows[i].key, touched |-> TRUE]
    <3>1. n \in new
      BY DEF Copied
    <3>2. n.id = ids'[i] /\ n.key = rows[i].key /\ n.touched
      OBVIOUS
    <3> QED BY <3>1, <3>2
  <2>6. \A n \in new : \E i \in fresh : n.id = ids'[i]
    BY DEF Copied
  <2> HIDE DEF new
  <2>7. Views'
    BY <1>1, <2>1, <2>2, <2>3, <2>4, ViewsKept DEF UpsertInv
  <2>8. UpsertTypeOK'
    <3>1. store' \subseteq Element /\ mine' \subseteq Element
      BY <2>3, <2>4 DEF UpsertInv, UpsertTypeOK
    <3> QED BY <1>1, <1>2, <1>7, <1>8, <2>2, <3>1 DEF UpsertInv, UpsertTypeOK, Stages, Started
  <2>9. Visible \subseteq Visible' /\ new \subseteq Visible'
    <3>1. \A e \in Visible, n \in new : n.id # e.id
      BY <1>7, <1>8, <2>6, VisibleType
    <3> QED BY <2>4, <3>1 DEF Over
  <2>10. Standing'
    <3>1. \A k \in known : Stays(k.id, k.key)'
      BY <1>1, <2>9 DEF UpsertInv, Standing, Stays
    <3>2. DOMAIN ids' = fresh
      BY <1>7, <1>8
    <3>3. \A i \in fresh : i \in DOMAIN ids' /\ StaysTouched(ids[i], rows[i].key)'
      BY <1>1, <2>5, <2>9, <3>2 DEF StaysTouched
    <3> QED BY <1>1, <1>8, <3>1, <3>3 DEF Standing
  <2> QED BY <1>3, <1>4, <1>5, <2>4, <2>7, <2>8, <2>10 DEF UpsertInv
<1>9. ASSUME fresh # {}, mode = "merge" => ids # NoIds,
             ids' = IF mode = "merge" THEN ids ELSE Numbers, Fails
      PROVE  UpsertInv'
  <2>1. tx' = Aborted /\ at' = "raised" /\ UNCHANGED <<store, mine, lastId>>
    BY <1>9 DEF Fails
  <2>2. TransactionTypeOK' /\ (tx' = "idle" => mine' = {})
    BY <2>1, BegunType DEF UpsertInv
  <2>3. Views'
    BY <1>1, <2>1, SameViews, ElementsType DEF UpsertInv
  <2>4. UpsertTypeOK'
    BY <1>1, <1>2, <1>7, <1>9, <2>1 DEF UpsertInv, UpsertTypeOK, Stages, Started
  <2>5. Standing'
    BY <2>1 DEF Standing
  <2> QED BY <1>3, <1>4, <1>5, <2>2, <2>3, <2>4, <2>5 DEF UpsertInv
<1> QED BY <1>6, <1>8, <1>9 DEF Copy

-----------------------------------------------------------------------------
(* What an update writes is what is seen, of the same identities and keys. *)
Rewritten(f) == {[e EXCEPT !.form = f[e].form, !.touched = TRUE] : e \in DOMAIN f}

LEMMA RewrittenFits ==
    ASSUME UpsertInv, NEW f \in Updated, ~Collides(Rewritten(f))
    PROVE  /\ Fits(Rewritten(f), lastId) /\ Rewritten(f) \subseteq Element
           /\ \A e \in DOMAIN f : \E n \in Rewritten(f) : n.id = e.id /\ n.key = e.key /\ n.touched
           /\ \A n \in Rewritten(f) : n.touched
<1> DEFINE new == Rewritten(f)
<1>1. DOMAIN f \subseteq Visible /\ f \in [DOMAIN f -> Overlap]
  BY DEF Updated
<1>2. /\ \A e \in DOMAIN f : e \in Element /\ e \in Elements
      /\ \A e \in DOMAIN f : f[e].form \in Spellings
  <2>1. rows \in Seq(Row)
    BY ElementsType DEF UpsertInv
  <2>2. Given \subseteq Row
    BY <2>1 DEF Given
  <2>3. \A e \in DOMAIN f : f[e] \in Row
    BY <1>1, <2>2 DEF Overlap
  <2> QED BY <1>1, <2>3, VisibleType, ElementsType DEF UpsertInv, Row
<1>3. ASSUME NEW n \in new
      PROVE  /\ n \in Element /\ n.touched
             /\ \E e \in DOMAIN f : /\ n = [e EXCEPT !.form = f[e].form, !.touched = TRUE]
                                    /\ n.id = e.id /\ n.key = e.key /\ n.by = e.by
                                    /\ n.after = e.after
  <2>1. PICK e \in DOMAIN f : n = [e EXCEPT !.form = f[e].form, !.touched = TRUE]
    BY DEF Rewritten
  <2>2. e \in Element /\ f[e].form \in Spellings
    BY <1>2
  <2>3. /\ n \in Element /\ n.touched
        /\ n.id = e.id /\ n.key = e.key /\ n.by = e.by /\ n.after = e.after
    BY <2>1, <2>2 DEF Element
  <2> QED BY <2>1, <2>3
<1>4. ASSUME NEW e \in DOMAIN f PROVE \E n \in new : n.id = e.id /\ n.key = e.key /\ n.touched
  <2> DEFINE n == [e EXCEPT !.form = f[e].form, !.touched = TRUE]
  <2>1. n \in new
    BY DEF Rewritten
  <2>2. e \in Element
    BY <1>2
  <2>3. n.id = e.id /\ n.key = e.key /\ n.touched
    BY <2>2 DEF Element
  <2> QED BY <2>1, <2>3
<1>5. ASSUME NEW m \in new, NEW n \in new, m.id = n.id PROVE m = n
  <2>1. PICK d \in DOMAIN f : m = [d EXCEPT !.form = f[d].form, !.touched = TRUE] /\ m.id = d.id
    BY <1>3
  <2>2. PICK e \in DOMAIN f : n = [e EXCEPT !.form = f[e].form, !.touched = TRUE] /\ n.id = e.id
    BY <1>3
  <2>3. d = e
    BY <1>1, <1>5, <2>1, <2>2 DEF UpsertInv, Views, Proper
  <2> QED BY <2>1, <2>2, <2>3
<1>6. \A n \in new, d \in Elements \cup new :
          unique /\ d.id # n.id /\ d.key = n.key => d.form # n.form
  <2>1. \A n \in new, d \in Elements :
            ~(unique /\ n.id # d.id /\ n.key = d.key /\ n.form = d.form)
    BY VisibleType DEF Collides
  <2>2. \A n \in new, d \in new : ~(unique /\ d # n /\ n.key = d.key /\ n.form = d.form)
    BY DEF Collides
  <2> QED BY <2>1, <2>2
<1>7. \A n \in new : \E e \in Elements : /\ n.id = e.id /\ n.key = e.key /\ n.by = e.by
                                         /\ n.after = e.after
  BY <1>2, <1>3
<1> HIDE DEF new
<1>8. \A n \in new : n.id <= lastId /\ (n.by = "me" => n.after < n.id)
  <2>1. \A e \in Elements : e.id <= lastId /\ (e.by = "me" => e.after < e.id)
    BY DEF UpsertInv, Views
  <2> QED BY <1>7, <2>1
<1>9. \A d, e \in Elements : (d.id = e.id => Akin(d, e)) /\ Apart(d, e)
  BY DEF UpsertInv, Views
<1>10. ASSUME NEW n \in new, NEW d \in Elements
       PROVE  (d.id = n.id => Akin(d, n)) /\ Apart(d, n) /\ Apart(n, d)
  <2>1. PICK e \in Elements : n.id = e.id /\ n.key = e.key /\ n.by = e.by /\ n.after = e.after
    BY <1>7
  <2>2. d.id = e.id => Akin(d, e)
    BY <1>9
  <2>3. Apart(d, e) /\ Apart(e, d)
    BY <1>9
  <2>4. d.id = n.id => Akin(d, n)
    BY <2>1, <2>2 DEF Akin
  <2> QED BY <2>1, <2>3, <2>4 DEF Apart
<1>11. ASSUME NEW n \in new, NEW m \in new PROVE Apart(m, n)
  <2>1. PICK e \in Elements : m.id = e.id /\ m.key = e.key /\ m.by = e.by /\ m.after = e.after
    BY <1>7
  <2>2. Apart(e, n)
    BY <1>10
  <2> QED BY <2>1, <2>2 DEF Apart
<1>12. Fits(new, lastId)
  BY <1>5, <1>6, <1>8, <1>10, <1>11 DEF Fits
<1> QED BY <1>3, <1>4, <1>12 DEF new

LEMMA StepUpdate ==
    ASSUME UpsertInv, Started, UNCHANGED auto, Update
    PROVE  UpsertInv'
<1>1. /\ UNCHANGED <<kind, unique, scan, wanted, mode, careless, rows, prev, known, after, fresh,
                     ids, gone, cut>>
      /\ at = "updating"
  BY DEF Update, call
<1>2. Given' = Given /\ at' \in {"answered", "raised"}
  BY <1>1 DEF Given, Update, Fails
<1>3. Setting'
  BY <1>1, <1>2 DEF UpsertInv, Setting, Started
<1>4. Room' /\ Reserved' /\ AllFound'
  BY <1>2 DEF Room, Reserved, AllFound
<1>5. Chosen'
  BY <1>1, <1>2 DEF UpsertInv, Chosen
<1>6. /\ \A k \in known : Stays(k.id, k.key)
      /\ \A i \in fresh : i \in DOMAIN ids /\ StaysTouched(ids[i], rows[i].key)
  BY <1>1 DEF UpsertInv, Standing
<1>7. ASSUME mode = "skip" \/ Overlap = {}, at' = "answered", UNCHANGED <<tx, store, mine, lastId>>
      PROVE  UpsertInv'
  <2>1. TransactionTypeOK' /\ (tx' = "idle" => mine' = {})
    BY <1>7 DEF UpsertInv, TransactionTypeOK
  <2>2. Views' /\ Visible' = Visible
    BY <1>1, <1>7, SameViews, ElementsType DEF UpsertInv
  <2>3. UpsertTypeOK'
    BY <1>1, <1>2, <1>7 DEF UpsertInv, UpsertTypeOK, Stages, Started
  <2>4. mode # "skip" => \A k \in known, r \in Given : ~(k.key = r.key /\ ~r.bare)
    BY <1>7 DEF Overlap, KeysOf
  <2>5. Standing'
    BY <1>1, <1>2, <1>6, <2>2, <2>4 DEF Standing, Stays, StaysTouched
  <2> QED BY <1>3, <1>4, <1>5, <2>1, <2>2, <2>3, <2>5 DEF UpsertInv
<1>8. ASSUME NEW f \in Updated, ~Collides(Rewritten(f)), Wrote(Rewritten(f)),
             at' = "answered", lastId' = lastId
      PROVE  UpsertInv'
  <2> DEFINE new == Rewritten(f)
  <2>1. /\ Fits(new, lastId') /\ new \subseteq Element
        /\ \A e \in DOMAIN f : \E n \in new : n.id = e.id /\ n.key = e.key /\ n.touched
        /\ \A n \in new : n.touched
    BY <1>8, RewrittenFits
  <2>2. /\ TransactionTypeOK' /\ (tx' = "idle" => mine' = {})
        /\ SomeOf(store', new) /\ SomeOf(Visible', new)
        /\ Visible' = Over(new, Visible)
        /\ store' \subseteq store \cup new /\ mine' \subseteq mine \cup new
    BY <1>8, WroteView DEF UpsertInv
  <2> HIDE DEF new
  <2>3. Views'
    <3>1. lastId \in Nat /\ \A e \in Elements : e.id \in Nat
      BY ElementsType DEF UpsertInv
    <3>2. lastId' \in Nat /\ lastId <= lastId'
      BY <1>8, <3>1
    <3> QED BY <1>1, <2>1, <2>2, <3>1, <3>2, ViewsKept DEF UpsertInv
  <2>4. UpsertTypeOK'
    <3>1. store' \subseteq Element /\ mine' \subseteq Element
      BY <2>1, <2>2 DEF UpsertInv, UpsertTypeOK
    <3> QED BY <1>1, <1>2, <1>8, <3>1 DEF UpsertInv, UpsertTypeOK, Stages, Started
  <2>5. \A e \in Visible : \E v \in Visible' : v.id = e.id /\ v.key = e.key /\ (e.touched => v.touched)
    <3> SUFFICES ASSUME NEW e \in Visible
                 PROVE  \E v \in Visible' : v.id = e.id /\ v.key = e.key /\ (e.touched => v.touched)
      OBVIOUS
    <3>1. new \subseteq Visible' /\ (e \in Visible' \/ \E n \in new : n.id = e.id)
      BY <2>2, OverType
    <3>2. CASE e \in Visible'
      BY <3>2
    <3>3. ASSUME NEW n \in new, n.id = e.id
          PROVE  \E v \in Visible' : v.id = e.id /\ v.key = e.key /\ (e.touched => v.touched)
      <4>1. n.key = e.key
        BY <2>1, <3>3, VisibleType DEF Fits, Akin
      <4> QED BY <2>1, <3>1, <3>3, <4>1
    <3> QED BY <3>1, <3>2, <3>3
  <2>6. \A id, key : /\ Stays(id, key) => Stays(id, key)'
                     /\ StaysTouched(id, key) => StaysTouched(id, key)'
    BY <1>1, <2>5, StaysOn
  <2>7. ASSUME NEW k \in known, NEW r \in Given, k.key = r.key, ~r.bare
        PROVE  StaysTouched(k.id, k.key)'
    <3>1. k.key \in KeysOf(Overlap)
      BY <2>7 DEF Overlap, KeysOf
    <3>2. CASE k.key \in gone
      BY <1>1, <3>2 DEF StaysTouched
    <3>3. ASSUME NEW e \in Visible, e.id = k.id, e.key = k.key PROVE StaysTouched(k.id, k.key)'
      <4>1. e \in DOMAIN f
        BY <3>1, <3>3 DEF Updated
      <4>2. PICK n \in new : n.id = e.id /\ n.key = e.key /\ n.touched
        BY <2>1, <4>1
      <4>3. n \in Visible'
        BY <2>2, OverType
      <4> QED BY <3>3, <4>2, <4>3 DEF StaysTouched
    <3> QED BY <1>6, <3>2, <3>3 DEF Stays
  <2>8. Standing'
    <3>1. \A k \in known : Stays(k.id, k.key)'
      BY <1>6, <2>6
    <3>2. \A i \in fresh : i \in DOMAIN ids /\ StaysTouched(ids[i], rows[i].key)'
      BY <1>1, <1>6, <2>6
    <3>3. \A k \in known' : Stays(k.id, k.key)'
      BY <1>1, <3>1
    <3>4. \A i \in fresh' : i \in DOMAIN ids' /\ StaysTouched(ids[i], rows[i].key)'
      BY <1>1, <3>2 DEF StaysTouched
    <3>5. \A k \in known', r \in Given' : k.key = r.key /\ ~r.bare => StaysTouched(k.id, k.key)'
      BY <1>1, <1>2, <2>7
    <3> QED BY <3>3, <3>4, <3>5 DEF Standing
  <2> QED BY <1>3, <1>4, <1>5, <2>2, <2>3, <2>4, <2>8 DEF UpsertInv
<1>9. ASSUME Fails PROVE UpsertInv'
  <2>1. tx' = Aborted /\ at' = "raised" /\ UNCHANGED <<store, mine, lastId>>
    BY <1>9 DEF Fails
  <2>2. TransactionTypeOK' /\ (tx' = "idle" => mine' = {})
    BY <2>1, BegunType DEF UpsertInv
  <2>3. Views'
    BY <1>1, <2>1, SameViews, ElementsType DEF UpsertInv
  <2>4. UpsertTypeOK'
    BY <1>1, <1>2, <2>1 DEF UpsertInv, UpsertTypeOK, Stages, Started
  <2>5. Standing'
    BY <2>1 DEF Standing
  <2> QED BY <1>3, <1>4, <1>5, <2>2, <2>3, <2>4, <2>5 DEF UpsertInv
<1> QED BY <1>7, <1>8, <1>9 DEF Update, Rewritten

LEMMA StepUpsertReturn ==
    ASSUME UpsertInv, Started, UNCHANGED auto, UpsertReturn
    PROVE  UpsertInv'
<1>1. /\ UNCHANGED <<tx, kind, unique, store, mine, lastId, scan, wanted, cut>>
      /\ at \in {"answered", "raised"} /\ at' = "resting" /\ mode' = "skip" /\ careless' = FALSE
      /\ rows' = <<>> /\ prev' = "on" /\ known' = {} /\ after' = 0 /\ fresh' = {} /\ ids' = NoIds
      /\ gone' = {}
  BY DEF UpsertReturn
<1>2. TransactionTypeOK' /\ (tx' = "idle" => mine' = {})
  BY <1>1 DEF UpsertInv, TransactionTypeOK
<1>3. UpsertTypeOK'
  <2>1. 0 \in 0..MaxId
    BY UpsertAssumption DEF UpsertAssumption
  <2> QED BY <1>1, <2>1 DEF UpsertInv, UpsertTypeOK, Stages, Started
<1>4. Views'
  BY <1>1, SameViews, ElementsType DEF UpsertInv
<1>5. Room' /\ Reserved' /\ AllFound' /\ Chosen' /\ Standing'
  BY <1>1 DEF Room, Reserved, AllFound, Chosen, Standing
<1>6. Setting'
  BY <1>1 DEF UpsertInv, Setting, Started
<1> QED BY <1>2, <1>3, <1>4, <1>5, <1>6 DEF UpsertInv

-----------------------------------------------------------------------------
(* The other session: what it inserts is newer than all there is, and what *)
(* it removes the call knows to be gone.                                   *)
LEMMA StepOtherInserts ==
    ASSUME UpsertInv, Started, UNCHANGED auto, NEW k \in Keys, NEW f \in Spellings,
           OtherInserts(k, f)
    PROVE  UpsertInv'
<1> DEFINE x == [after |-> 0, by |-> "other", form |-> f, id |-> lastId + 1, key |-> k,
                 touched |-> FALSE]
<1>1. /\ UNCHANGED <<tx, kind, unique, mine, scan, wanted, at, mode, careless, rows, prev, known,
                     after, fresh, ids, gone, cut>>
      /\ lastId + Len(rows) < MaxId /\ lastId' = lastId + 1 /\ store' = store \cup {x}
      /\ unique => \A e \in Elements : e.key # k \/ e.form # f
  BY DEF OtherInserts, call, Elements
<1>2. /\ lastId \in Nat /\ MaxId \in Nat /\ Len(rows) \in Nat /\ after \in Nat
      /\ \A e \in Elements : e.id \in Nat /\ e.after \in Nat
  BY ElementsType DEF UpsertInv
<1>3. x \in Element /\ x.id = lastId + 1 /\ x.by = "other" /\ x.key = k /\ x.form = f
  BY <1>1, <1>2 DEF Element
<1>4. \A e \in Elements : e.id <= lastId /\ (e.by = "me" => e.after < e.id)
  BY DEF UpsertInv, Views
<1>5. \A e \in Elements : e.id # x.id
  BY <1>2, <1>3, <1>4
<1> HIDE DEF x
<1>6. Fits({x}, lastId')
  <2>1. x.id <= lastId' /\ x.by # "me"
    BY <1>1, <1>2, <1>3
  <2>2. \A d \in Elements : Apart(x, d)
    <3>1. \A d \in Elements : d.by = "me" => x.id > d.after /\ x.by # "me"
      BY <1>2, <1>3, <1>4
    <3> QED BY <3>1 DEF Apart
  <2>3. \A d \in Elements \cup {x} : Apart(d, x)
    BY <2>1 DEF Apart
  <2>4. \A d \in Elements : unique /\ d.key = x.key => d.form # x.form
    BY <1>1, <1>3
  <2> QED BY <1>5, <2>1, <2>2, <2>3, <2>4 DEF Fits
<1>7. Visible' = Visible \cup {x}
  <2>1. \A m \in mine : m.id # x.id
    BY <1>5 DEF Elements
  <2> QED BY <1>1, <2>1 DEF Visible, Over
<1>8. SomeOf(store', {x}) /\ SomeOf(Visible', {x})
  <2>1. store' \subseteq Over({x}, store) /\ Visible' \subseteq Over({x}, Visible)
    BY <1>1, <1>5, <1>7, VisibleType DEF Over
  <2> QED BY <2>1 DEF SomeOf
<1>9. Views' /\ Elements' \subseteq Elements \cup {x}
  <2>1. lastId' \in Nat /\ lastId <= lastId'
    BY <1>1, <1>2
  <2> QED BY <1>1, <1>2, <1>6, <1>8, <2>1, ViewsKept DEF UpsertInv
<1>10. Given' = Given
  BY <1>1 DEF Given
<1>11. TransactionTypeOK' /\ (tx' = "idle" => mine' = {})
  BY <1>1 DEF UpsertInv, TransactionTypeOK
<1>12. UpsertTypeOK'
  <2>1. lastId' \in 0..MaxId
    BY <1>1, <1>2
  <2> QED BY <1>1, <1>3, <2>1 DEF UpsertInv, UpsertTypeOK, Stages, Started
<1>13. Room'
  <2>1. lastId' + Len(rows) <= MaxId
    BY <1>1, <1>2
  <2> QED BY <1>1, <2>1 DEF Room
<1>14. Reserved'
  <2> SUFFICES ASSUME at = "copying", ids # NoIds
               PROVE  /\ ids \in [fresh -> 1..MaxId]
                      /\ \A i \in fresh : /\ after < ids[i] /\ ids[i] <= lastId'
                                          /\ \A e \in Elements' : e.id # ids[i]
                      /\ \A i, j \in fresh : i # j => ids[i] # ids[j]
    BY <1>1 DEF Reserved
  <2>1. /\ ids \in [fresh -> 1..MaxId]
        /\ \A i \in fresh : /\ after < ids[i] /\ ids[i] <= lastId
                            /\ \A e \in Elements : e.id # ids[i]
        /\ \A i, j \in fresh : i # j => ids[i] # ids[j]
    BY DEF UpsertInv, Reserved
  <2>2. \A i \in fresh : ids[i] \in Nat
    BY <1>2, <2>1
  <2>3. \A i \in fresh : ids[i] <= lastId' /\ x.id # ids[i]
    BY <1>1, <1>2, <1>3, <2>1, <2>2
  <2> QED BY <1>9, <2>1, <2>3
<1>15. AllFound'
  <2>1. at \in {"restoring", "copying"} =>
          /\ after <= lastId
          /\ \A e \in Elements :
                /\ e.by = "me" => e.after < after
                /\ e.id <= after /\ e.key \in KeysOf(Given) => e.key \in KeysOf(known)
    BY DEF UpsertInv, AllFound
  <2>2. after <= lastId => after <= lastId' /\ ~(x.id <= after)
    BY <1>1, <1>2, <1>3
  <2> QED BY <1>1, <1>3, <1>9, <1>10, <2>1, <2>2 DEF AllFound
<1>16. Chosen'
  BY <1>1, <1>10 DEF UpsertInv, Chosen
<1>17. Standing'
  BY <1>1, <1>7, <1>10 DEF UpsertInv, Standing, Stays, StaysTouched
<1>18. Setting'
  BY <1>1 DEF UpsertInv, Setting, Started
<1> QED BY <1>9, <1>11, <1>12, <1>13, <1>14, <1>15, <1>16, <1>17, <1>18 DEF UpsertInv

LEMMA StepOtherRemoves ==
    ASSUME UpsertInv, Started, UNCHANGED auto, NEW e \in store, OtherRemoves(e)
    PROVE  UpsertInv'
<1>1. /\ UNCHANGED <<tx, kind, unique, mine, lastId, scan, wanted, at, mode, careless, rows, prev,
                     known, after, fresh, ids, cut>>
      /\ \A m \in mine : m.id # e.id
      /\ store' = store \ {e} /\ gone' = IF at = "resting" THEN gone ELSE gone \cup {e.key}
  BY DEF OtherRemoves
<1>2. Visible' = Visible \ {e}
  BY <1>1 DEF Visible, Over
<1>3. SomeOf(store', {}) /\ SomeOf(Visible', {})
  BY <1>1, <1>2 DEF SomeOf
<1>4. Views' /\ Elements' \subseteq Elements
  <2>1. lastId' \in Nat /\ lastId <= lastId' /\ lastId \in Nat /\ \A d \in Elements : d.id \in Nat
    BY <1>1, ElementsType DEF UpsertInv
  <2>2. Fits({}, lastId')
    BY DEF Fits
  <2> QED BY <1>1, <1>3, <2>1, <2>2, ViewsKept DEF UpsertInv
<1>5. Given' = Given
  BY <1>1 DEF Given
<1>6. TransactionTypeOK' /\ (tx' = "idle" => mine' = {})
  BY <1>1 DEF UpsertInv, TransactionTypeOK
<1>7. UpsertTypeOK'
  <2>1. e.key \in Keys
    BY ElementsType, VisibleType DEF UpsertInv
  <2> QED BY <1>1, <2>1 DEF UpsertInv, UpsertTypeOK, Stages, Started
<1>8. Room' /\ Reserved' /\ AllFound' /\ Chosen'
  BY <1>1, <1>4, <1>5 DEF UpsertInv, Room, Reserved, AllFound, Chosen
<1>9. Standing'
  <2>1. CASE at = "resting"
    BY <1>1, <2>1 DEF Standing
  <2>2. CASE at # "resting"
    <3>1. gone' = gone \cup {e.key}
      BY <1>1, <2>2
    <3>2. \A id, key : /\ Stays(id, key) => Stays(id, key)'
                       /\ StaysTouched(id, key) => StaysTouched(id, key)'
      <4>1. \A v \in Visible : v.key \in gone' \/ v \in Visible'
        BY <1>2, <3>1
      <4> QED BY <3>1, <4>1, StaysOn
    <3>3. at \in {"restoring", "copying", "updating", "answered"} =>
              \A k \in known : Stays(k.id, k.key)'
      BY <3>2 DEF UpsertInv, Standing
    <3>4. at \in {"updating", "answered"} =>
              \A i \in fresh : i \in DOMAIN ids /\ StaysTouched(ids[i], rows[i].key)'
      BY <1>1, <3>2 DEF UpsertInv, Standing
    <3>5. at = "answered" /\ mode # "skip" =>
              \A k \in known, r \in Given :
                  k.key = r.key /\ ~r.bare => StaysTouched(k.id, k.key)'
      BY <3>2 DEF UpsertInv, Standing
    <3> QED BY <1>1, <1>5, <3>3, <3>4, <3>5 DEF Standing, Stays, StaysTouched
  <2> QED BY <2>1, <2>2
<1>10. Setting'
  BY <1>1 DEF UpsertInv, Setting, Started
<1> QED BY <1>4, <1>6, <1>7, <1>8, <1>9, <1>10 DEF UpsertInv

-----------------------------------------------------------------------------
(* Between calls: a transaction of the caller's begun, and ended; what is  *)
(* written becomes everybody's, or nobody's, and the setting is put back   *)
(* to what the transaction found.                                          *)
LEMMA StepAtRest ==
    ASSUME UpsertInv, at = "resting", SomeOf(store', {}), SomeOf(Visible', {}),
           UNCHANGED <<auto, kind, unique, lastId, wanted, at, call, cut>>,
           store' \subseteq Elements, mine' \subseteq Elements,
           tx' \in {"idle", "open", "failed"}, tx' = "idle" => mine' = {},
           {scan', base'} \subseteq {"on", "off"},
           ~cut => scan' = wanted /\ (tx' # "idle" => base' = wanted)
    PROVE  UpsertInv'
<1>1. UNCHANGED <<mode, careless, rows, prev, known, after, fresh, ids, gone>>
  BY DEF call
<1>2. TransactionTypeOK'
  BY DEF UpsertInv, TransactionTypeOK
<1>3. UpsertTypeOK'
  <2>1. store' \subseteq Element /\ mine' \subseteq Element
    BY ElementsType DEF UpsertInv
  <2> QED BY <1>1, <2>1 DEF UpsertInv, UpsertTypeOK
<1>4. Views'
  <2>1. lastId' \in Nat /\ lastId <= lastId' /\ lastId \in Nat /\ \A d \in Elements : d.id \in Nat
    BY ElementsType DEF UpsertInv
  <2>2. Fits({}, lastId')
    BY DEF Fits
  <2> QED BY <2>1, <2>2, ViewsKept DEF UpsertInv
<1>5. Room' /\ Reserved' /\ AllFound' /\ Standing'
  BY DEF Room, Reserved, AllFound, Standing
<1>6. Chosen'
  BY <1>1 DEF UpsertInv, Chosen
<1>7. Setting'
  BY DEF Setting
<1> QED BY <1>2, <1>3, <1>4, <1>5, <1>6, <1>7 DEF UpsertInv

LEMMA StepReadsBeside ==
    ASSUME UpsertInv, Reads
    PROVE  UpsertInv' /\ auto' = auto
<1>1. /\ at = "resting" /\ PipelineNext /\ Started
      /\ UNCHANGED <<kind, unique, store, mine, lastId, scan, wanted, at, call, cut>>
  BY DEF Reads
<1>2. auto' = auto /\ tx' \in {tx, Begun, Aborted, "open", "failed"}
  BY <1>1 DEF PipelineNext, Query, Send, Read, Undo, AskAgain, Return, OtherLabel
<1>3. tx' \in {"idle", "open", "failed"} /\ (tx' = "idle" => tx = "idle")
  BY <1>2 DEF UpsertInv, TransactionTypeOK, Begun, Aborted
<1>4. Visible' = Visible
  BY <1>1 DEF Visible, Over
<1>5. SomeOf(store', {}) /\ SomeOf(Visible', {})
  BY <1>1, <1>4 DEF SomeOf
<1>6. /\ {scan', base'} \subseteq {"on", "off"}
      /\ ~cut => scan' = wanted /\ (tx' # "idle" => base' = wanted)
  BY <1>1 DEF UpsertInv, UpsertTypeOK, Setting, Started
<1>7. store' \subseteq Elements /\ mine' \subseteq Elements /\ (tx' = "idle" => mine' = {})
  BY <1>1, <1>3 DEF UpsertInv, Elements
<1> QED BY <1>1, <1>2, <1>3, <1>5, <1>6, <1>7, StepAtRest

LEMMA StepTransaction ==
    ASSUME UpsertInv, Begin \/ Commit \/ RollBack
    PROVE  UpsertInv'
<1>1. CASE Begin
  <2>1. /\ at = "resting" /\ tx' = "open" /\ Started
        /\ UNCHANGED <<auto, kind, unique, store, mine, lastId, scan, wanted, at, call, cut>>
    BY <1>1 DEF Begin, Idle, UpsertBegins
  <2>2. Visible' = Visible
    BY <2>1 DEF Visible, Over
  <2>3. SomeOf(store', {}) /\ SomeOf(Visible', {})
    BY <2>1, <2>2 DEF SomeOf
  <2>4. /\ {scan', base'} \subseteq {"on", "off"}
        /\ ~cut => scan' = wanted /\ (tx' # "idle" => base' = wanted)
    BY <2>1 DEF UpsertInv, UpsertTypeOK, Setting, Started
  <2>5. store' \subseteq Elements /\ mine' \subseteq Elements
    BY <2>1 DEF Elements
  <2> QED BY <2>1, <2>3, <2>4, <2>5, StepAtRest
<1>2. CASE Commit
  <2>1. /\ at = "resting" /\ tx' = "idle" /\ Started /\ store' = Visible /\ mine' = {}
        /\ UNCHANGED <<auto, kind, unique, lastId, scan, wanted, at, call, cut>>
    BY <1>2 DEF Commit, Idle, UpsertCommits
  <2>2. Visible' = Visible
    <3>1. Visible' = store'
      BY <2>1 DEF Visible, Over
    <3> QED BY <2>1, <3>1
  <2>3. SomeOf(store', {}) /\ SomeOf(Visible', {})
    BY <2>1, <2>2 DEF SomeOf
  <2>4. {scan', base'} \subseteq {"on", "off"} /\ (~cut => scan' = wanted)
    BY <2>1 DEF UpsertInv, UpsertTypeOK, Setting, Started
  <2>5. store' \subseteq Elements /\ mine' \subseteq Elements
    BY <2>1, VisibleType
  <2> QED BY <2>1, <2>3, <2>4, <2>5, StepAtRest
<1>3. CASE RollBack
  <2>1. /\ at = "resting" /\ tx # "idle" /\ tx' = "idle" /\ Started /\ mine' = {} /\ scan' = base
        /\ UNCHANGED <<auto, kind, unique, store, lastId, wanted, at, call, cut>>
    BY <1>3 DEF RollBack, Idle, UpsertRollsBack
  <2>2. Visible' = store
    BY <2>1 DEF Visible, Over
  <2>3. SomeOf(store', {}) /\ SomeOf(Visible', {})
    BY <2>1, <2>2 DEF SomeOf
  <2>4. {scan', base'} \subseteq {"on", "off"} /\ (~cut => scan' = wanted)
    BY <2>1 DEF UpsertInv, UpsertTypeOK, Setting, Started
  <2>5. store' \subseteq Elements /\ mine' \subseteq Elements
    BY <2>1, VisibleType
  <2> QED BY <2>1, <2>3, <2>4, <2>5, StepAtRest
<1> QED BY <1>1, <1>2, <1>3

LEMMA StepWrites ==
    ASSUME UpsertInv, Writes
    PROVE  UpsertInv'
<1>1. Started /\ UNCHANGED auto /\ UpsertNext
  BY DEF Writes
<1> QED BY <1>1, StepAsk, StepFacts, StepReadAll, StepReadKeys, StepRestore, StepReserve, StepCopy,
           StepUpdate, StepUpsertReturn, StepOtherInserts, StepOtherRemoves DEF UpsertNext

-----------------------------------------------------------------------------
StatementsInv == PipelineInv /\ UpsertInv

LEMMA StepStatements == StatementsInv /\ [Next]_vars => StatementsInv'
<1> SUFFICES ASSUME StatementsInv, [Next]_vars PROVE StatementsInv'
  OBVIOUS
<1>1. CASE Reads
  BY <1>1, StepReads, StepReadsBeside DEF StatementsInv
<1>2. CASE Writes
  <2>1. UpsertInv'
    BY <1>2, StepWrites DEF StatementsInv
  <2>2. step = "resting" /\ UNCHANGED <<auto, pipeline>>
    BY <1>2 DEF Writes
  <2>3. TransactionTypeOK'
    BY <2>1 DEF UpsertInv
  <2> QED BY <2>1, <2>2, <2>3, PipelineRests DEF StatementsInv
<1>3. CASE Begin \/ Commit \/ RollBack
  <2>1. UpsertInv'
    BY <1>3, StepTransaction DEF StatementsInv
  <2>2. step = "resting" /\ UNCHANGED <<auto, pipeline>>
    BY <1>3 DEF Begin, Commit, RollBack, Idle
  <2>3. TransactionTypeOK'
    BY <2>1 DEF UpsertInv
  <2> QED BY <2>1, <2>2, <2>3, PipelineRests DEF StatementsInv
<1>4. CASE UNCHANGED vars
  <2>1. PipelineInv'
    BY <1>4 DEF StatementsInv, PipelineInv, PipelineTypeOK, TransactionTypeOK, Place, Kept, End,
         AnswersAreTheirs, AnsweredWhole, BlamedIsAtFault, vars, pipeline, asking
  <2>2. UpsertInv'
    <3>1. UNCHANGED <<tx, auto, kind, unique, store, mine, lastId, scan, base, wanted, at, mode,
                      careless, rows, prev, known, after, fresh, ids, gone, cut>>
      BY <1>4 DEF vars, upsert, call
    <3>2. Views' /\ Elements' = Elements /\ Visible' = Visible
      BY <3>1, SameViews, ElementsType DEF StatementsInv, UpsertInv
    <3>3. TransactionTypeOK' /\ (tx' = "idle" => mine' = {})
      BY <3>1 DEF StatementsInv, UpsertInv, TransactionTypeOK
    <3>4. UpsertTypeOK'
      BY <3>1 DEF StatementsInv, UpsertInv, UpsertTypeOK
    <3>5. Given' = Given
      BY <3>1 DEF Given
    <3>6. Room' /\ Reserved' /\ AllFound'
      BY <3>1, <3>2, <3>5 DEF StatementsInv, UpsertInv, Room, Reserved, AllFound
    <3>7. Chosen'
      BY <3>1, <3>5 DEF StatementsInv, UpsertInv, Chosen
    <3>8. Standing'
      BY <3>1, <3>2, <3>5 DEF StatementsInv, UpsertInv, Standing, Stays, StaysTouched
    <3>9. Setting'
      BY <3>1 DEF StatementsInv, UpsertInv, Setting
    <3> QED BY <3>2, <3>3, <3>4, <3>6, <3>7, <3>8, <3>9 DEF UpsertInv
  <2> QED BY <2>1, <2>2 DEF StatementsInv
<1> QED BY <1>1, <1>2, <1>3, <1>4 DEF Next

(* The two calls' invariants hold of one connection that makes both, in its *)
(* caller's transactions and in autocommit.                                *)
THEOREM StatementsInvariance == Spec => []StatementsInv
<1>1. Init => StatementsInv
  BY InitPipeline, InitUpsert DEF StatementsInv
<1>2. StatementsInv /\ [Next]_vars => StatementsInv'
  BY StepStatements
<1> QED BY <1>1, <1>2, PTL DEF Spec

(* The types of both calls' state hold throughout.                         *)
THEOREM StatementsTypes == Spec => []TypeOK
<1>1. StatementsInv => TypeOK
  BY DEF StatementsInv, PipelineInv, UpsertInv, TypeOK
<1> QED BY <1>1, StatementsInvariance, PTL

(* pipeline_query answers every statement it was given, in order, in the    *)
(* transaction it was called in, and raises the error of the statement at   *)
(* fault, whatever has to be asked again and whatever becomes of the label  *)
(* meanwhile.                                                              *)
THEOREM PipelineAnswers == Spec => []AnswersAreTheirs
<1>1. StatementsInv => AnswersAreTheirs
  BY DEF StatementsInv, PipelineInv
<1> QED BY <1>1, StatementsInvariance, PTL

(* No element that upsert_vertices, merge_vertices or upsert_edges makes is *)
(* a second for its key: what was there of the key is younger than what the *)
(* call read, whatever the other session inserts and removes between.      *)
THEOREM MadeOnce == Spec => []OncePerKey
<1>1. StatementsInv => OncePerKey
  <2> SUFFICES ASSUME UpsertInv, NEW d \in Visible, NEW e \in Visible,
                      e.by = "me", d # e, d.key = e.key
               PROVE  /\ d.id > e.after
                      /\ d.by = "me" /\ d.after = e.after =>
                            kind = "vertex" /\ (~unique \/ d.form # e.form)
    BY DEF StatementsInv, OncePerKey
  <2>1. Proper(Visible)
    BY DEF UpsertInv, Views
  <2>2. d.id # e.id /\ (unique => d.form # e.form)
    BY <2>1 DEF Proper
  <2>3. Apart(d, e)
    BY VisibleType DEF UpsertInv, Views
  <2>4. unique \in BOOLEAN
    BY DEF UpsertInv, UpsertTypeOK
  <2> QED BY <2>2, <2>3, <2>4 DEF Apart
<1> QED BY <1>1, StatementsInvariance, PTL

(* A call that answered left an element for each key it was given, written  *)
(* where it was to be written, but for those the other session removed.    *)
THEOREM UpsertAnswers == Spec => []AnswerTrue
<1>1. StatementsInv => AnswerTrue
  <2> SUFFICES ASSUME UpsertInv, at = "answered", NEW r \in Given, r.key \notin gone
               PROVE  \E e \in Visible : /\ e.key = r.key
                                         /\ mode # "skip" /\ ~r.bare => e.touched
                                         /\ mode = "merge" =>
                                               \/ e.id \in {ids[i] : i \in DOMAIN ids}
                                               \/ \E k \in known : k.id = e.id
    BY DEF StatementsInv, AnswerTrue
  <2>1. /\ \A k \in known : Stays(k.id, k.key)
        /\ \A i \in fresh : i \in DOMAIN ids /\ StaysTouched(ids[i], rows[i].key)
        /\ mode # "skip" => \A k \in known, s \in Given :
              k.key = s.key /\ ~s.bare => StaysTouched(k.id, k.key)
    BY DEF UpsertInv, Standing
  <2>2. r.key \in KeysOf(known) \/ \E i \in fresh : rows[i].key = r.key
    BY DEF UpsertInv, Chosen
  <2>3. ASSUME NEW i \in fresh, rows[i].key = r.key
        PROVE  \E e \in Visible : /\ e.key = r.key /\ e.touched
                                  /\ e.id \in {ids[j] : j \in DOMAIN ids}
    BY <2>1, <2>3 DEF StaysTouched
  <2>4. ASSUME NEW k \in known, k.key = r.key
        PROVE  \E e \in Visible : /\ e.key = r.key /\ k.id = e.id
                                  /\ mode # "skip" /\ ~r.bare => e.touched
    <3>1. CASE mode # "skip" /\ ~r.bare
      BY <2>1, <2>4, <3>1 DEF StaysTouched
    <3>2. CASE mode = "skip" \/ r.bare
      BY <2>1, <2>4, <3>2 DEF Stays
    <3> QED BY <3>1, <3>2
  <2>5. CASE \E i \in fresh : rows[i].key = r.key
    BY <2>3, <2>5
  <2>6. CASE r.key \in KeysOf(known)
    <3>1. PICK k \in known : k.key = r.key
      BY <2>6 DEF KeysOf
    <3>2. PICK e \in Visible : /\ e.key = r.key /\ k.id = e.id
                               /\ mode # "skip" /\ ~r.bare => e.touched
      BY <2>4, <3>1
    <3> QED BY <3>1, <3>2
  <2> QED BY <2>2, <2>5, <2>6
<1> QED BY <1>1, StatementsInvariance, PTL

(* enable_seqscan is the caller's own again once the transaction the calls  *)
(* were made in is over, but where one was given up on as it read the keys. *)
THEOREM SettingRestored == Spec => []ScanRestored
<1>1. StatementsInv => ScanRestored
  BY DEF StatementsInv, UpsertInv, Setting, ScanRestored
<1> QED BY <1>1, StatementsInvariance, PTL
===============================================================================
