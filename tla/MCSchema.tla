------------------------------ MODULE MCSchema ------------------------------
(***************************************************************************)
(* A graph with two labels A and D, constrained; what is asked for is a    *)
(* label with a column, an index, an index the catalog prints otherwise    *)
(* than it was written, and A's constraints: one that is there but not     *)
(* unique, and none besides.                                               *)
(*                                                                         *)
(* Or a label whose vectors two sessions store, each in a way of its own,  *)
(* under the same lock; the two kinds of call touch nothing of each other. *)
(***************************************************************************)
EXTENDS Schema, VectorStorage, TLC

CONSTANTS A, B, D, k, x, z

Label(l) == Thing("label", l, l, FALSE)
Index(l, key) == Thing("index", l, key, FALSE)
Constraint(l, name, unique) == Thing("constraint", l, name, unique)

ColumnOfB == Thing("column", B, k, FALSE)
NotAsWritten == Index(A, x)

Ask(on, wants) == [on |-> on, wants |-> wants, dropExtra |-> FALSE, dryRun |-> FALSE]
AsksForUnique == Ask("constraint", {Constraint(A, k, TRUE)})

Asked == {Ask("label", {Label(B), ColumnOfB}),
          Ask("index", {Index(A, k)}),
          Ask("index", {NotAsWritten}),
          [AsksForUnique EXCEPT !.dropExtra = TRUE],
          [AsksForUnique EXCEPT !.dryRun = TRUE]}

Declared == {Label(A), Label(D), Constraint(A, k, FALSE), Constraint(A, z, FALSE),
             Constraint(D, z, FALSE)}
ReadBackOtherwise == {NotAsWritten}

-----------------------------------------------------------------------------
CONSTANTS s1, s2
VARIABLE side

Stored(design, distance, indexed, typed) ==
    [design |-> design, distance |-> distance, indexed |-> indexed, typed |-> typed]
Designs == {Stored("table", "cosine", TRUE, "vector(2)"),
            Stored("table", "l2", FALSE, "vector(3)"),
            Stored("property", "cosine", TRUE, "vector(2)"),
            Stored("column", "cosine", TRUE, "vector(2)")}

Alike == Permutations({s1, s2})

(* A process that reads from a snapshot has the only transaction, or none  *)
(* has one.  The sessions are all on the graph or all away: one that is     *)
(* away does only what one at home can whose connection is lost.            *)
MCInit ==
    /\ Init /\ VectorInit
    /\ \/ side = "elements" /\ away = {} /\ (frozen # {} => outer \subseteq frozen)
       \/ side = "vectors" /\ outer = {} /\ frozen = {} /\ away \in {{}, {s1, s2}}
MCNext ==
    \/ side = "elements" /\ Next /\ UNCHANGED <<side, vectors>>
    \/ side = "vectors" /\ VectorNext /\ UNCHANGED <<side, vars>>
MCSpec == MCInit /\ [][MCNext]_<<side, vars, vectors>>
=============================================================================
