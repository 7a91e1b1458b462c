------------------------------- MODULE Pipeline -------------------------------
(***************************************************************************)
(* Many reads in few round trips (pipeline_query and _pipelined in         *)
(* connection_async.py): a chunk at a time behind a savepoint, read back   *)
(* in order, and asked again one by one where the pipeline failed, since a *)
(* pipeline blames the wrong statement.  Beside it the rows' decoding,     *)
(* which reads the label table again once (_read_all), and another session *)
(* that makes and drops the label the rows name.                           *)
(*                                                                         *)
(* The server and psycopg's pipeline mode are external.                    *)
(***************************************************************************)
EXTENDS Naturals, Sequences, Transaction

CONSTANTS Batches, Chunk, Nobody

Kinds == {"fine", "bad", "flaky", "named"}

ASSUME PipelineAssumption ==
    /\ \A b \in Batches : b \in Seq(Kinds) \ {<<>>}
    /\ Chunk \in Nat \ {0} /\ Nobody \notin Nat

VARIABLES
    saved,        \* whether the server holds the savepoint
    label,        \* whether the label exists, to everybody
    table,        \* whether the connection's label table has it
    step,         \* the step of the call
    batch, from,  \* what it was given, and where its chunk starts
    mark,         \* whether this chunk is behind a savepoint
    carried,      \* whether the rows received name the label
    results,      \* the statements answered, in the order they were
    began,        \* the transaction status the call found
    blamed,       \* the statement whose error was raised
    masked        \* whether an error took another's place (history)

asking == <<batch, from, mark, carried, results, began, blamed>>
pipeline == <<saved, label, table, step, asking, masked>>

Steps == {"resting", "sending", "reading", "undoing", "again", "answered", "raised"}

PipelineTypeOK ==
    /\ TransactionTypeOK
    /\ saved \in BOOLEAN /\ label \in BOOLEAN /\ table \in BOOLEAN
    /\ step \in Steps
    /\ batch \in Batches \cup {<<>>} /\ from \in Nat /\ mark \in BOOLEAN /\ carried \in BOOLEAN
    /\ results \in Seq(Nat) /\ began \in {"idle", "open", "failed"}
    /\ blamed \in Nat \cup {Nobody} /\ masked \in BOOLEAN

PipelineInit ==
    /\ saved = FALSE /\ label = FALSE /\ table = FALSE
    /\ step = "resting" /\ batch = <<>> /\ from = 1
    /\ mark = FALSE /\ carried = FALSE /\ results = <<>>
    /\ began = "idle" /\ blamed = Nobody /\ masked = FALSE

-----------------------------------------------------------------------------
End == IF from + Chunk - 1 < Len(batch) THEN from + Chunk - 1 ELSE Len(batch)
Here == from..End

CanHoldASavepoint == IF tx = "idle" THEN ~auto ELSE tx = "open"

(* What the label table has of the label as a call begins is left open.    *)
Query(b) ==
    /\ step = "resting"
    /\ batch' = b /\ from' = 1 /\ results' = <<>> /\ began' = tx /\ blamed' = Nobody
    /\ step' = "sending" /\ label' \in BOOLEAN /\ table' \in BOOLEAN
    /\ UNCHANGED <<tx, auto, saved, mark, carried, masked>>

(* A chunk goes in one pipeline: the savepoint, the statements, its release.*)
(* The first to fail leaves the rest unrun, the release among them.        *)
Send ==
    /\ step = "sending"
    /\ mark' = CanHoldASavepoint
    /\ \/ /\ Begun # "failed" /\ \A i \in Here : batch[i] # "bad"
          /\ tx' = Begun /\ UNCHANGED saved
          /\ carried' = (label /\ \E i \in Here : batch[i] = "named")
          /\ step' = "reading"
       \/ /\ Begun = "failed" \/ \E i \in Here : batch[i] \in {"bad", "flaky"}
          /\ tx' = Aborted /\ saved' = (mark' /\ Begun = "open")
          /\ step' = IF mark' THEN "undoing" ELSE "again"
          /\ UNCHANGED carried
    /\ UNCHANGED <<auto, label, table, batch, from, results, began, blamed, masked>>

Extended == results \o [i \in 1..(End - from + 1) |-> from + i - 1]
Onward == /\ from' = End + 1
          /\ step' = IF End = Len(batch) THEN "answered" ELSE "sending"

(* Rows that name a label the table lacks are decoded again after it was    *)
(* read again; if it still lacks it, a chunk read whole fails as one.      *)
Read ==
    /\ step = "reading"
    /\ \/ /\ carried => table
          /\ results' = Extended /\ Onward /\ UNCHANGED table
       \/ /\ carried /\ ~table /\ label
          /\ table' = TRUE
          /\ results' = Extended /\ Onward
       \/ /\ carried /\ ~table /\ ~label
          /\ step' = IF mark THEN "undoing" ELSE "again"
          /\ UNCHANGED <<table, results, from>>
    /\ UNCHANGED <<tx, auto, saved, label, batch, mark, carried, began, blamed, masked>>

UndoneOnly ==
    /\ step = "undoing"
    /\ tx' = (IF saved THEN "open" ELSE "failed")
    /\ step' = (IF saved THEN "again" ELSE "raised")
    /\ masked' = ~saved
    /\ UNCHANGED <<auto, saved, label, table, asking>>

(* Rolled back to, and released; one released already is an error of its own.*)
Undo ==
    /\ step = "undoing"
    /\ \/ /\ saved
          /\ tx' = "open" /\ saved' = FALSE
          /\ step' = "again" /\ UNCHANGED masked
       \/ /\ ~saved
          /\ tx' = "failed" /\ masked' = TRUE
          /\ step' = "raised" /\ UNCHANGED saved
    /\ UNCHANGED <<auto, label, table, asking>>

(* One of them asked again by itself.                                      *)
Next1 == Len(results) + 1

AskAgain ==
    /\ step = "again"
    /\ \/ /\ Begun # "failed" /\ batch[Next1] # "bad"
          /\ tx' = Begun
          /\ table' = (table \/ (label /\ batch[Next1] = "named"))
          /\ results' = Append(results, Next1)
          /\ IF Next1 = End THEN Onward ELSE UNCHANGED <<from, step>>
          /\ UNCHANGED blamed
       \/ /\ Begun = "failed" \/ batch[Next1] \in {"bad", "flaky"}
          /\ tx' = Aborted /\ blamed' = Next1 /\ step' = "raised"
          /\ UNCHANGED <<table, results, from>>
    /\ UNCHANGED <<auto, saved, label, batch, mark, carried, began, masked>>

Return ==
    /\ step \in {"answered", "raised"}
    /\ step' = "resting" /\ results' = <<>> /\ from' = 1 /\ mark' = FALSE
    /\ carried' = FALSE /\ blamed' = Nobody /\ began' = "idle" /\ masked' = FALSE
    /\ batch' = <<>> /\ label' = FALSE /\ table' = FALSE
    /\ UNCHANGED <<tx, auto, saved>>

(* The other session.                                                      *)
OtherLabel ==
    /\ step \in {"sending", "reading", "again"}
    /\ label' = ~label
    /\ UNCHANGED <<tx, auto, saved, table, step, asking, masked>>

PipelineNext ==
    \/ \E b \in Batches : Query(b)
    \/ Send \/ Read \/ Undo \/ AskAgain \/ Return \/ OtherLabel
-----------------------------------------------------------------------------
(* Properties.                                                             *)

(* A result per statement, in the order they were given, whatever had to be *)
(* asked again; and an answer leaves the transaction it was asked in open, *)
(* what came before it still to be committed, and no savepoint behind.     *)
AnsweredWhole ==
    /\ results = [i \in 1..Len(results) |-> i]
    /\ step = "answered" =>
          /\ Len(results) = Len(batch)
          /\ began = "open" => tx = "open"
          /\ ~saved

(* The error raised is that of the statement at fault, or of a transaction  *)
(* that had been aborted before; but where decoding failed behind a         *)
(* savepoint already released, whose own error takes its place.            *)
BlamedIsAtFault ==
    step = "raised" /\ ~masked =>
        /\ blamed # Nobody
        /\ batch[blamed] \in {"bad", "flaky"} \/ began = "failed"

(* The answer to each, or the error of the one at fault.                   *)
AnswersAreTheirs == AnsweredWhole /\ BlamedIsAtFault
===============================================================================
