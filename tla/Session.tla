------------------------------- MODULE Session -------------------------------
(***************************************************************************)
(* What a connection remembers of its server session: the statement        *)
(* timeout it last set and the graph its label table describes, through    *)
(* borrows, transaction blocks, deadline blocks, commits and rollbacks     *)
(* (connection_async.py, _core.py, and _prepare of pool_async.py).         *)
(*                                                                         *)
(* Both are settings of the session, so a rollback puts them back on the   *)
(* server, and what the client holds has to follow.  One connection, used  *)
(* by one task at a time.  Blocks close in the order they were opened,     *)
(* each with or without an exception, whatever happened inside: a caller   *)
(* may catch at any level.                                                 *)
(***************************************************************************)
EXTENDS Naturals, Sequences

CONSTANTS
    Limits, NoLimit,    \* statement timeouts; None, the server's default
    Graphs, NoGraph,
    MaxBlocks           \* how deep a caller nests blocks

ASSUME SessionAssumption ==
    /\ NoLimit \notin Limits /\ NoGraph \notin Graphs
    /\ MaxBlocks \in Nat

VARIABLES
    autocommit, reports,    \* how it was connected; whether the server reports the path
    settings,   \* the server's values: [timeout, path]
    saved,      \* what each open transaction and savepoint would go back to
    failed,     \* the transaction is in error
    note, setInside, before,        \* the timeout's note, and for its rollback
    table, pathInside, seen,        \* the label table's graph, and for its rollback
    pc, limit,  \* "pool" or "lent", and to whom: the limit _prepare sent
    blocks,     \* the caller's open blocks, the innermost last
    lapses      \* history: what the client was never told; see Lapsed

server == <<settings, saved, failed>>
noted == <<note, setInside, before>>
labels == <<table, pathInside, seen>>
borrow == <<pc, limit, blocks>>
kept == <<autocommit, reports>>
vars == <<kept, server, noted, labels, borrow, lapses>>

Settings == [timeout : Limits \cup {NoLimit}, path : Graphs \cup {NoGraph}]
Blocks == [kind : {"deadline", "transaction"}, depth : 0..(MaxBlocks + 1)]

(* Types; every open transaction block still has what it would go back to, *)
(* and besides those psycopg opens one transaction at most.                *)
TypeOK ==
    /\ autocommit \in BOOLEAN /\ reports \in BOOLEAN
    /\ settings \in Settings
    /\ saved \in Seq(Settings) /\ Len(saved) <= MaxBlocks + 1
    /\ failed \in BOOLEAN /\ (failed => saved # <<>>)
    /\ note \in Limits \cup {NoLimit} /\ before \in Limits \cup {NoLimit}
    /\ setInside \in BOOLEAN /\ pathInside \in BOOLEAN
    /\ table \in Graphs \cup {NoGraph} /\ seen \in Graphs \cup {NoGraph}
    /\ pc \in {"pool", "lent"} /\ limit \in Limits \cup {NoLimit}
    /\ blocks \in Seq(Blocks) /\ Len(blocks) <= MaxBlocks
    /\ \A i \in 1..Len(blocks) : blocks[i].depth <= Len(saved)
    /\ lapses \subseteq {"pending", "timeout", "path", "unread"}

Init ==
    /\ autocommit \in BOOLEAN /\ reports \in BOOLEAN
    /\ settings = [timeout |-> NoLimit, path |-> NoGraph]
    /\ saved = <<>> /\ failed = FALSE
    /\ note = NoLimit /\ setInside = FALSE /\ before = NoLimit
    /\ table = NoGraph /\ pathInside = FALSE /\ seen = NoGraph
    /\ pc = "pool" /\ limit = NoLimit /\ blocks = <<>>
    /\ lapses = {}

-----------------------------------------------------------------------------
Idle == saved = <<>>

(* Outside autocommit psycopg begins a transaction before a statement.     *)
Begun == IF Idle /\ ~autocommit THEN <<settings>> ELSE saved

Open(kind, depth) == blocks' = Append(blocks, [kind |-> kind, depth |-> depth])
Innermost == blocks[Len(blocks)]
Close == blocks' = SubSeq(blocks, 1, Len(blocks) - 1)
Inside(kind) == blocks # <<>> /\ Innermost.kind = kind
InTransactionBlock == \E i \in 1..Len(blocks) : blocks[i].kind = "transaction"
Room == pc = "lent" /\ Len(blocks) < MaxBlocks

(* _set_statement_timeout.                                                 *)
AlwaysHeld == note
HeldBefore == IF Begun # <<>> /\ ~setInside THEN note ELSE before

(* _watch_graph_path, after a statement; settings' is what the server then *)
(* has, and named whether the text names the setting.                      *)
Moved == reports /\ settings'.path # seen

Watch(named) ==
    /\ seen' = IF reports THEN settings'.path ELSE seen
    /\ table' = IF Moved \/ named THEN NoGraph ELSE table
    /\ pathInside' = (pathInside \/ (named /\ ~Moved /\ ~autocommit /\ ~reports))
    /\ lapses' = lapses \ {"unread"}

SetTimeout(n) ==
    /\ ~failed
    /\ settings' = [settings EXCEPT !.timeout = n]
    /\ saved' = Begun
    /\ note' = n
    /\ setInside' = (setInside \/ Begun # <<>>)
    /\ before' = HeldBefore
    /\ Watch(FALSE)
    /\ UNCHANGED failed

(* _transaction_ended, the server's part of it done.                       *)
NoteAfter(rolledBack) == IF rolledBack THEN before ELSE note
TableKept(rolledBack) == IF Moved THEN NoGraph ELSE table
TableAfter(rolledBack) ==
    IF Moved \/ (~reports /\ rolledBack /\ pathInside) THEN NoGraph ELSE table

Ended(rolledBack) ==
    /\ IF setInside /\ saved' = <<>>
       THEN note' = NoteAfter(rolledBack) /\ setInside' = FALSE
       ELSE UNCHANGED <<note, setInside>>
    /\ seen' = IF reports THEN settings'.path ELSE seen
    /\ table' = TableAfter(rolledBack)
    /\ pathInside' = (pathInside /\ (reports \/ saved' # <<>>))
    /\ UNCHANGED before

(* What the client is not told of, for the properties.  The timeout going  *)
(* back with a savepoint is pending until the transaction ends: its        *)
(* rollback puts the note right, its commit makes the difference lasting.  *)
Undone(s) == settings'[s] # settings[s]

Lapsed(rolledBack) ==
    LET gone == saved' = <<>>
    IN lapses' = (IF gone THEN lapses \ {"pending", "unread"} ELSE lapses \ {"unread"})
         \cup {x \in {"pending"} : ~gone /\ Undone("timeout")}
         \cup {x \in {"timeout"} : gone /\ ~rolledBack /\ (Undone("timeout") \/ "pending" \in lapses)}
         \cup {x \in {"path"} : ~reports /\ Undone("path") /\ (autocommit \/ ~rolledBack)}

-----------------------------------------------------------------------------
(* AsyncConnectionPool._prepare: once per borrow.                          *)
Borrow(n) ==
    /\ pc = "pool"
    /\ pc' = "lent" /\ limit' = n
    /\ IF note # n THEN SetTimeout(n)
       ELSE UNCHANGED <<server, noted, labels, lapses>>
    /\ UNCHANGED <<kept, blocks>>

(* The end of a transaction: COMMIT of a failed one rolls it back, and     *)
(* says so only in its command tag.                                        *)
ServerEnds(undone) ==
    /\ settings' = IF undone THEN saved[1] ELSE settings
    /\ saved' = <<>> /\ failed' = FALSE

EndTransaction(rollback) ==
    /\ ServerEnds(~Idle /\ (rollback \/ failed))
    /\ Ended(rollback) /\ Lapsed(rollback)

(* The server may refuse any other COMMIT, for a constraint put off until  *)
(* then or a conflict: it rolls back and says so.  commit raises that, and *)
(* nothing of what the client holds is put right; that a timeout was set   *)
(* inside a transaction is remembered into the next one, and a path that   *)
(* is reported is read with the next statement.                            *)
Refuse == ~Idle /\ ~failed /\ ServerEnds(TRUE)

CommitRaises ==
    /\ Refuse
    /\ UNCHANGED <<noted, labels>>
    /\ lapses' = (lapses \ {"pending"})
         \cup {x \in {"timeout"} : setInside \/ Undone("timeout") \/ "pending" \in lapses}
         \cup {x \in {"path"} : ~reports /\ Undone("path")}
         \cup {x \in {"unread"} : reports /\ Undone("path")}

(* commit and rollback, which psycopg refuses inside a transaction block.  *)
CommitOrRollback(rollback) ==
    /\ pc = "lent" /\ ~Idle /\ ~InTransactionBlock
    /\ EndTransaction(rollback)
    /\ UNCHANGED <<kept, borrow>>

CommitRefused ==
    /\ pc = "lent" /\ ~InTransactionBlock
    /\ CommitRaises
    /\ UNCHANGED <<kept, borrow>>

(* psycopg's block around the borrow, which commits or rolls back.         *)
GiveBack(raised) ==
    /\ pc = "lent" /\ blocks = <<>>
    /\ pc' = "pool"
    /\ EndTransaction(raised)
    /\ UNCHANGED <<kept, limit, blocks>>

GiveBackRefused ==
    /\ pc = "lent" /\ blocks = <<>>
    /\ pc' = "pool"
    /\ CommitRaises
    /\ UNCHANGED <<kept, limit, blocks>>

(* deadline, which sets nothing back in a failed transaction.              *)
EnterDeadline(n) ==
    /\ Room
    /\ SetTimeout(n)
    /\ Open("deadline", 0)
    /\ UNCHANGED <<kept, pc, limit>>

ExitDeadline ==
    /\ Inside("deadline")
    /\ Close
    /\ SetTimeout(NoLimit) \/ (failed /\ UNCHANGED <<server, noted, labels, lapses>>)
    /\ UNCHANGED <<kept, pc, limit>>

(* transaction: BEGIN when idle, in autocommit too, a savepoint otherwise. *)
EnterTransaction ==
    /\ Room /\ ~failed
    /\ saved' = Append(saved, settings)
    /\ Open("transaction", Len(saved) + 1)
    /\ UNCHANGED <<kept, settings, failed, noted, labels, pc, limit, lapses>>

ExitOutermost(raised) ==
    /\ Inside("transaction") /\ Innermost.depth = 1
    /\ EndTransaction(raised)
    /\ Close
    /\ UNCHANGED <<kept, pc, limit>>

(* A refused COMMIT is taken for one that was carried out: rolled_back is  *)
(* settled before the block's exit raises.                                 *)
ExitRefused ==
    /\ Inside("transaction") /\ Innermost.depth = 1
    /\ Refuse
    /\ Ended(FALSE) /\ Lapsed(FALSE)
    /\ Close
    /\ UNCHANGED <<kept, pc, limit>>

RollBackToSavepoint ==
    /\ Inside("transaction") /\ Innermost.depth > 1
    /\ settings' = saved[Innermost.depth]
    /\ saved' = SubSeq(saved, 1, Innermost.depth - 1)
    /\ failed' = FALSE
    /\ Ended(TRUE) /\ Lapsed(TRUE)
    /\ Close
    /\ UNCHANGED <<kept, pc, limit>>

(* The release is refused in a failed transaction, and the savepoint is    *)
(* then left to the block around it.                                       *)
ReleaseSavepoint ==
    /\ Inside("transaction") /\ Innermost.depth > 1
    /\ saved' = IF failed THEN saved ELSE SubSeq(saved, 1, Innermost.depth - 1)
    /\ UNCHANGED <<settings, failed>>
    /\ Ended(FALSE)
    /\ lapses' = lapses \ {"unread"}
    /\ Close
    /\ UNCHANGED <<kept, pc, limit>>

-----------------------------------------------------------------------------
(* A statement that moves the session to another graph; where the server   *)
(* reports the path, not every such statement names it.                    *)
Move(g, named) ==
    /\ pc = "lent" /\ ~failed
    /\ named \/ reports
    /\ settings' = [settings EXCEPT !.path = g]
    /\ saved' = Begun
    /\ Watch(named)
    /\ UNCHANGED <<kept, failed, noted, borrow>>

(* graph: two statements, the second of which may fail.                    *)
SelectGraph(g, loads) ==
    /\ pc = "lent" /\ ~failed
    /\ settings' = [settings EXCEPT !.path = g]
    /\ saved' = Begun
    /\ failed' = (~loads /\ Begun # <<>>)
    /\ seen' = IF reports THEN g ELSE seen
    /\ pathInside' = (pathInside \/ (~autocommit /\ ~reports))
    /\ table' = IF loads THEN g ELSE NoGraph
    /\ lapses' = lapses \ {"unread"}
    /\ UNCHANGED <<kept, noted, borrow>>

(* refresh_labels, for the graph the table names or the server's; no       *)
(* statement is sent for a session that reports it reads none.             *)
Followed == IF reports /\ settings.path # seen THEN NoGraph ELSE table

RefreshLabels ==
    /\ pc = "lent" /\ ~failed
    /\ saved' = IF reports /\ NoGraph \in {Followed} \cap {settings.path} THEN saved ELSE Begun
    /\ table' = IF Followed = NoGraph THEN settings.path ELSE Followed
    /\ seen' = IF reports THEN settings.path ELSE seen
    /\ lapses' = lapses \ {"unread"}
    /\ UNCHANGED <<kept, settings, failed, noted, pathInside, borrow>>

Fail ==
    /\ pc = "lent" /\ ~failed /\ Begun # <<>>
    /\ saved' = Begun /\ failed' = TRUE
    /\ UNCHANGED <<kept, settings, noted, labels, borrow, lapses>>

Next ==
    \/ \E n \in Limits \cup {NoLimit} : Borrow(n)
    \/ \E b \in BOOLEAN : CommitOrRollback(b) \/ GiveBack(b) \/ ExitOutermost(b)
    \/ \E n \in Limits : EnterDeadline(n)
    \/ CommitRefused \/ GiveBackRefused \/ ExitRefused
    \/ ExitDeadline \/ EnterTransaction \/ RollBackToSavepoint \/ ReleaseSavepoint
    \/ \E g \in Graphs, b \in BOOLEAN : Move(g, b) \/ SelectGraph(g, b)
    \/ RefreshLabels \/ Fail

Spec == Init /\ [][Next]_vars

-----------------------------------------------------------------------------
(* The note is what the server holds: a borrower whose limit it names may  *)
(* be spared the statement.  Through any blocks, commits and rollbacks,    *)
(* but for the rollbacks the client is not told of, or does not act on: to *)
(* a savepoint, by the COMMIT of a failed transaction, and by a COMMIT     *)
(* that the server refuses.                                                *)
NoteIsTheServers ==
    lapses \cap {"pending", "timeout"} = {} => note = settings.timeout

(* The label table names the graph the session reads, or none: a row read  *)
(* from another graph would be given the wrong labels.  Where the server   *)
(* reports its path it does, whatever happened, but for the moment from a  *)
(* COMMIT it refused to the next statement, whose rows are read after the  *)
(* path is; where not, but for a path that went back unseen: with the      *)
(* COMMIT of a failed transaction, with one refused, or in a block of a    *)
(* connection in autocommit.                                               *)
LabelsAreTheGraphs ==
    (IF reports THEN "unread" \notin lapses ELSE "path" \notin lapses) =>
        table \in {NoGraph, settings.path}

=============================================================================
