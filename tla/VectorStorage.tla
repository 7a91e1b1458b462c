----------------------------- MODULE VectorStorage -----------------------------
(***************************************************************************)
(* Where a label's vectors are kept (ensure_vectors, write_vectors,        *)
(* delete_vectors, build_vector_index and drop_vectors of                  *)
(* connection_async.py; vector_storage.py; _vector_plans.py): a property of *)
(* the vertex, with a column of its own or without, or a table keyed by the *)
(* vertex.  What is missing is made under the graph's schema lock, while    *)
(* others make, drop and write.                                            *)
(*                                                                         *)
(* The server is external: the catalog, the key that cascades, and what a   *)
(* CASCADE leaves.  Ensuring runs in a transaction that whoever opened it   *)
(* ends; every other statement commits by itself.                          *)
(***************************************************************************)
EXTENDS Naturals, Sequences, FiniteSets

CONSTANTS
    Sessions, NoSession,
    Storages, NoStorage,    \* what VectorStorage asks for, of one label
    Ids                     \* the identities a label hands out, each time it is made

NoType == "none"
NoDistance == "none"

(* The measure, the type with its dimension, and the design a storage resolves to. *)
IsStorage(s) ==
    /\ s.design \in {"column", "property", "table"} /\ s.indexed \in BOOLEAN
    /\ s.typed # NoType /\ s.distance # NoDistance
    /\ DOMAIN s = {"design", "distance", "indexed", "typed"}

ASSUME VectorStorageAssumption ==
    /\ NoSession \notin Sessions /\ NoStorage \notin Storages
    /\ \A s \in Storages : IsStorage(s)

VARIABLES
    held,       \* the committed catalog: the label, its column, the table, their indexes
    made,       \* what the holder of the lock has made and not committed
    locked,     \* who holds the graph's schema lock
    vertices, given,    \* the label's vertices, and the identities it has handed out
    rows, strange,      \* the table's rows, and those of them whose vertex is gone
    away,       \* the sessions that are on another graph
    at, storage, whole, steps,  \* per session: the step, of what call, its statements to run
    answer,     \* per session: what an ensure whose transaction is open has answered
    ready       \* the storages answered to be there, and dropped by nobody since (history)

sessions == <<away, at, storage, whole, steps, answer>>
elements == <<vertices, given, rows, strange>>
vectors == <<held, made, locked, elements, sessions, ready>>

NoIndex == [cast |-> FALSE, distance |-> NoDistance, typed |-> NoType]

VectorInit ==
    /\ held = [column |-> NoType, keyed |-> FALSE, label |-> FALSE, onLabel |-> NoIndex,
               onTable |-> NoIndex, table |-> NoType]
    /\ made = {} /\ locked = NoSession
    /\ vertices = {} /\ given = {} /\ rows = {} /\ strange = {}
    /\ away \in SUBSET Sessions
    /\ at = [p \in Sessions |-> "idle"] /\ storage = [p \in Sessions |-> NoStorage]
    /\ whole = [p \in Sessions |-> FALSE] /\ steps = [p \in Sessions |-> <<>>]
    /\ answer = [p \in Sessions |-> "none"] /\ ready = {}

-----------------------------------------------------------------------------
(* The index a storage asks for, which names a type only where it casts to  *)
(* it, and the one of its name that is there.                              *)
ShapeOf(s) == [cast |-> s.design = "property", distance |-> s.distance,
               typed |-> IF s.design = "property" THEN s.typed ELSE NoType]
IndexOf(c, s) == IF s.design = "table" THEN c.onTable ELSE c.onLabel

(* _index_found: the signature has the type only where it is cast to.      *)
AnyIndex(i, s) == TRUE
SameIndex(i, s) ==
    /\ i.distance = s.distance /\ i.cast = (s.design = "property")
    /\ i.cast => i.typed = s.typed

StateOfIndex(c, s) ==
    IF ~s.indexed THEN "ready"
    ELSE IF IndexOf(c, s) = NoIndex THEN "absent"
    ELSE IF SameIndex(IndexOf(c, s), s) THEN "ready"
    ELSE "mismatched"

(* PropertyPlan.found and TablePlan.found.                                 *)
FoundInProperties(c, s) ==
    IF ~c.label THEN "absent"
    ELSE IF s.design = "column" /\ c.column # s.typed THEN "mismatched"
    ELSE StateOfIndex(c, s)

KeyUnread(c, s) ==
    IF c.table = NoType THEN "absent"
    ELSE IF c.table # s.typed THEN "mismatched"
    ELSE StateOfIndex(c, s)
FoundInTable(c, s) ==
    IF c.table = NoType THEN "absent"
    ELSE IF ~c.keyed THEN "stale"
    ELSE IF c.table # s.typed THEN "mismatched"
    ELSE StateOfIndex(c, s)

Found(c, s) == IF s.design = "table" THEN FoundInTable(c, s) ELSE FoundInProperties(c, s)
Unfit(c, s) == Found(c, s) \in {"stale", "mismatched"}

(* The statements that make what is missing, in their order.               *)
Creating(c, s) ==
    (IF c.label THEN <<>> ELSE <<"label">>)
      \o (IF s.design = "table" /\ c.table = NoType THEN <<"table">> ELSE <<>>)
Missing(c, s, index) ==
    Creating(c, s) \o (IF index /\ IndexOf(c, s) = NoIndex THEN <<"index">> ELSE <<>>)

(* _check_on_graph: statements that name the label without its graph.      *)
Strays(p, s, statements) ==
    p \in away /\ \E i \in DOMAIN statements : statements[i] = "label" \/ s.design # "table"

(* What a statement makes where nothing of the name is there, and what it  *)
(* needs there.                                                            *)
With(c, what, s) ==
    IF what = "label" THEN [c EXCEPT !.label = TRUE,
                                     !.column = IF s.design = "column" THEN s.typed ELSE NoType]
    ELSE IF what = "table" THEN [c EXCEPT !.table = s.typed, !.keyed = TRUE]
    ELSE IF s.design = "table" THEN [c EXCEPT !.onTable = ShapeOf(s)]
    ELSE [c EXCEPT !.onLabel = ShapeOf(s)]
Stands(c, what, s) ==
    IF what = "label" THEN c.label
    ELSE IF what = "table" THEN c.table # NoType
    ELSE IndexOf(c, s) # NoIndex
Possible(c, what, s) ==
    \/ what = "label"
    \/ what = "table" /\ c.label
    \/ what = "index" /\ s.design = "table" /\ c.table # NoType
    \/ what = "index" /\ s.design # "table" /\ c.label /\ (s.design = "column" => c.column # NoType)

(* The catalog with some of it made, and as the holder of the lock sees it. *)
WithAll(c, done, s) ==
    LET Onto(d, what) == IF what \in done THEN With(d, what, s) ELSE d
    IN Onto(Onto(Onto(c, "label"), "table"), "index")
SeenBy(p) == IF locked = p THEN WithAll(held, made, storage[p]) ELSE held

-----------------------------------------------------------------------------
ToStep(p, step) == at' = [at EXCEPT ![p] = step]

(* A call begins, with nothing of another in its transaction.              *)
Call(p, s, step, index) ==
    /\ at[p] = "idle" /\ ToStep(p, step)
    /\ storage' = [storage EXCEPT ![p] = s] /\ whole' = [whole EXCEPT ![p] = index /\ s.indexed]
    /\ UNCHANGED <<held, made, locked, elements, away, steps, answer, ready>>

Over(p) ==
    /\ ToStep(p, "idle")
    /\ storage' = [storage EXCEPT ![p] = NoStorage] /\ whole' = [whole EXCEPT ![p] = FALSE]
    /\ steps' = [steps EXCEPT ![p] = <<>>] /\ answer' = [answer EXCEPT ![p] = "none"]
    /\ UNCHANGED away

(* The transaction is over without what it made.                           *)
RolledBack(p) ==
    /\ made' = IF locked = p THEN {} ELSE made
    /\ locked' = IF locked = p THEN NoSession ELSE locked
    /\ Over(p)
    /\ UNCHANGED <<held, elements, ready>>

(* ensure_vectors: a storage that has everything costs this read, and no   *)
(* lock.                                                                   *)
EnsureVectors(p, s, index) == Call(p, s, "probing", index)

Probe(p) ==
    /\ at[p] = "probing"
    /\ LET s == storage[p]
       IN \/ Unfit(held, s) /\ RolledBack(p)
          \/ /\ ~Unfit(held, s) /\ Missing(held, s, whole[p]) = <<>>
             /\ ready' = IF Found(held, s) = "ready" THEN ready \cup {s} ELSE ready
             /\ Over(p)
             /\ UNCHANGED <<held, made, locked, elements>>
          \/ /\ ~Unfit(held, s) /\ Missing(held, s, whole[p]) # <<>>
             /\ ToStep(p, "waiting")
             /\ UNCHANGED <<held, made, locked, elements, away, storage, whole, steps, answer, ready>>

TakeLock(p) ==
    /\ at[p] = "waiting" /\ locked = NoSession
    /\ locked' = p /\ ToStep(p, "looking")
    /\ UNCHANGED <<held, made, elements, away, storage, whole, steps, answer, ready>>

(* Again under the lock, and then whether the session is on the graph.     *)
Look(p) ==
    /\ at[p] = "looking"
    /\ LET s == storage[p]
           missing == Missing(held, s, whole[p])
       IN \/ (Unfit(held, s) \/ Strays(p, s, missing)) /\ RolledBack(p)
          \/ /\ ~Unfit(held, s) /\ ~Strays(p, s, missing)
             /\ steps' = [steps EXCEPT ![p] = missing] /\ ToStep(p, "making")
             /\ UNCHANGED <<held, made, locked, elements, away, storage, whole, answer, ready>>

(* `if not exists`, each of them: what is there by now is left as it is.   *)
Make(p) ==
    /\ at[p] = "making" /\ steps[p] # <<>>
    /\ LET what == Head(steps[p])
           c == SeenBy(p)
       IN \/ ~Stands(c, what, storage[p]) /\ ~Possible(c, what, storage[p]) /\ RolledBack(p)
          \/ /\ Stands(c, what, storage[p]) \/ Possible(c, what, storage[p])
             /\ made' = IF Stands(c, what, storage[p]) THEN made ELSE made \cup {what}
             /\ steps' = [steps EXCEPT ![p] = Tail(@)]
             /\ UNCHANGED <<held, locked, elements, away, at, storage, whole, answer, ready>>

(* What is there afterwards, refused as before; then the caller's answer.  *)
LookAfter(p) ==
    /\ at[p] = "making" /\ steps[p] = <<>>
    /\ \/ Unfit(SeenBy(p), storage[p]) /\ RolledBack(p)
       \/ /\ ~Unfit(SeenBy(p), storage[p])
          /\ answer' = [answer EXCEPT ![p] = Found(SeenBy(p), storage[p])] /\ ToStep(p, "left")
          /\ ready' = IF made = {} /\ answer'[p] = "ready" THEN ready \cup {storage[p]} ELSE ready
          /\ UNCHANGED <<held, made, locked, elements, away, storage, whole, steps>>

(* The end of the transaction, the method's own or its caller's; what was  *)
(* made in it is there for others from here.                               *)
Commit(p) ==
    /\ at[p] = "left"
    /\ held' = SeenBy(p) /\ made' = {} /\ locked' = NoSession
    /\ ready' = IF made # {} /\ answer[p] = "ready" THEN ready \cup {storage[p]} ELSE ready
    /\ Over(p)
    /\ UNCHANGED elements

LoseVectors(p) == at[p] # "idle" /\ RolledBack(p)

(* build_vector_index, which takes no lock.  A concurrent build is in the  *)
(* catalog from its start, and where it is cut off stays there.            *)
Build(p, s) == s.indexed /\ Call(p, s, "inspecting", TRUE)

Inspect(p) ==
    /\ at[p] = "inspecting"
    /\ LET s == storage[p]
           over == Unfit(held, s) \/ IndexOf(held, s) # NoIndex \/ Strays(p, s, <<"index">>)
       IN \/ over /\ RolledBack(p)
          \/ /\ ~over /\ ToStep(p, "building")
             /\ UNCHANGED <<held, made, locked, elements, away, storage, whole, steps, answer, ready>>

BuildIndex(p) ==
    /\ at[p] = "building" /\ "index" \notin made
    /\ held' = IF Stands(held, "index", storage[p]) \/ ~Possible(held, "index", storage[p])
               THEN held ELSE With(held, "index", storage[p])
    /\ Over(p)
    /\ UNCHANGED <<made, locked, elements, ready>>

-----------------------------------------------------------------------------
(* Statements of one step.  Those that need what the holder of the lock is *)
(* making or making over wait for it.                                      *)
Free(p) == at[p] = "idle" /\ made = {}
Without(dropped) == ready' = ready \ {s \in ready : s.design \in dropped}

(* drop_vectors: the table with its rows and its index, or the index.      *)
DropVectors(p, s) ==
    /\ Free(p) /\ ~Strays(p, s, <<"index">>)
    /\ IF s.design = "table"
       THEN /\ held' = [held EXCEPT !.table = NoType, !.keyed = FALSE, !.onTable = NoIndex]
            /\ rows' = {} /\ strange' = {} /\ Without({"table"})
       ELSE /\ held' = [held EXCEPT !.onLabel = NoIndex]
            /\ Without({"column", "property"}) /\ UNCHANGED <<rows, strange>>
    /\ UNCHANGED <<made, locked, vertices, given, sessions>>

(* write_vectors to the table: a key refuses what is no vertex, a copy what *)
(* has a row.                                                              *)
WriteVectors(p, s, ids, upsert) ==
    /\ Free(p) /\ s.design = "table" /\ held.table = s.typed
    /\ held.keyed => ids \subseteq vertices
    /\ upsert \/ ids \cap rows = {}
    /\ rows' = rows \cup ids
    /\ strange' = (strange \ ids) \cup (ids \ vertices)
    /\ UNCHANGED <<held, made, locked, vertices, given, sessions, ready>>

DeleteVectors(p, s, ids) ==
    /\ Free(p) /\ s.design = "table" /\ held.table # NoType
    /\ rows' = rows \ ids /\ strange' = strange \ ids
    /\ UNCHANGED <<held, made, locked, vertices, given, sessions, ready>>

(* Others: a write makes the label, without a column; it is dropped with   *)
(* CASCADE, which takes the table's key and leaves its rows; vertices come *)
(* and go, with their rows where there is a key.                           *)
WriteMakesLabel ==
    /\ ~held.label /\ "label" \notin made
    /\ held' = [held EXCEPT !.label = TRUE, !.column = NoType]
    /\ UNCHANGED <<made, locked, elements, sessions, ready>>

DropLabel ==
    /\ held.label /\ made = {}
    /\ held' = [held EXCEPT !.label = FALSE, !.column = NoType, !.keyed = FALSE, !.onLabel = NoIndex]
    /\ vertices' = {} /\ given' = {} /\ strange' = rows
    /\ ready' = {}
    /\ UNCHANGED <<made, locked, rows, sessions>>

CreateVertex(i) ==
    /\ held.label /\ made = {} /\ i \notin given
    /\ vertices' = vertices \cup {i} /\ given' = given \cup {i}
    /\ UNCHANGED <<held, made, locked, rows, strange, sessions, ready>>

DeleteVertex(i) ==
    /\ i \in vertices /\ made = {}
    /\ vertices' = vertices \ {i}
    /\ rows' = IF held.keyed THEN rows \ {i} ELSE rows
    /\ strange' = strange \cup ({i} \cap rows')
    /\ UNCHANGED <<held, made, locked, given, sessions, ready>>

Truncate ==
    /\ rows # {} /\ made = {}
    /\ rows' = {} /\ strange' = {}
    /\ UNCHANGED <<held, made, locked, vertices, given, sessions, ready>>

VectorNext ==
    \/ \E p \in Sessions :
          \/ \E s \in Storages, b \in BOOLEAN : EnsureVectors(p, s, b)
          \/ Probe(p) \/ TakeLock(p) \/ Look(p) \/ Make(p) \/ LookAfter(p) \/ Commit(p) \/ LoseVectors(p)
          \/ Inspect(p) \/ BuildIndex(p)
          \/ \E s \in Storages :
                \/ Build(p, s) \/ DropVectors(p, s)
                \/ \E ids \in SUBSET Ids \ {{}} :
                      DeleteVectors(p, s, ids) \/ \E b \in BOOLEAN : WriteVectors(p, s, ids, b)
    \/ \E i \in Ids : CreateVertex(i) \/ DeleteVertex(i)
    \/ WriteMakesLabel \/ DropLabel \/ Truncate

VectorSpec == VectorInit /\ [][VectorNext]_vectors

-----------------------------------------------------------------------------
Indexes == {NoIndex} \cup {ShapeOf(s) : s \in Storages}
Types == {s.typed : s \in Storages} \cup {NoType}
States == {"absent", "mismatched", "ready", "stale"}

VectorTypeOK ==
    /\ held \in [column : Types, keyed : BOOLEAN, label : BOOLEAN, onLabel : Indexes,
                 onTable : Indexes, table : Types]
    /\ made \subseteq {"label", "table", "index"} /\ locked \in Sessions \cup {NoSession}
    /\ vertices \subseteq given /\ given \subseteq Ids /\ rows \subseteq Ids /\ strange \subseteq rows
    /\ away \subseteq Sessions
    /\ at \in [Sessions -> {"idle", "probing", "waiting", "looking", "making", "left",
                            "inspecting", "building"}]
    /\ storage \in [Sessions -> Storages \cup {NoStorage}] /\ whole \in [Sessions -> BOOLEAN]
    /\ steps \in [Sessions -> Seq({"label", "table", "index"})]
    /\ answer \in [Sessions -> States \cup {"none"}]
    /\ ready \subseteq Storages

(* A storage that ensure_vectors answered ready for is there in the shape  *)
(* it asks for, index and all, until somebody drops of it, whatever others *)
(* made in the meantime, under the lock or not.                            *)
IsThere(c, s) ==
    /\ s.design = "table" => c.table = s.typed /\ c.keyed
    /\ s.design # "table" => c.label
    /\ s.design = "column" => c.column = s.typed
    /\ s.indexed => IndexOf(c, s) = ShapeOf(s)
VectorsAreThere == \A s \in ready : IsThere(held, s)

(* No vertex is answered for with the vector of another: a table answered  *)
(* ready keeps no row whose vertex is gone, and whose identity another may *)
(* be given.                                                               *)
HitsAreTheirs == (\E s \in ready : s.design = "table") => strange = {}
===============================================================================
