# A verification of the AgensGraph Python driver

TLA+ models of the driver in `src/src/agensgraph`, model-checked with TLC, and
theorems about them whose proofs TLAPS checks. Paths below are relative to
`src/src/agensgraph` unless they begin with `src/`.

The driver is a layer over psycopg and psycopg_pool. Neither is part of the
repository: what they do is modelled from how the driver uses them and is
marked external in `PROJECT.json`, and so is the server. `connection.py` and
`pool.py` are generated from `connection_async.py` and `pool_async.py`
(`src/tools/async_to_sync.py`), so one module models both; where threads make a
difference a constant says which of the two is meant. The map names lines of
either twin, never of both for one definition.

## 1. Inventory

| Component | State it keeps | Operations | What is hard |
|---|---|---|---|
| Connection pool (`pool_async.py`, `pool.py`) | `_generation`; `_check_every_borrow_until`; on each connection `_agens_generation`, `_agens_lent`, `_agens_returned_at`, `_agens_cancelled`, `_agens_ran_others_text` | `connection`, `_configure`, `_check`, `_prepare`, `_reset`, `invalidate`, `resize`, `check` | Borrowers, worker tasks and `invalidate` interleave; a connection comes back broken, interrupted, retired or with a session lock; a server restart is met by whoever sends next |
| `run_transaction`, `_settle` (`pool_async.py`) | the attempt, whether the commit came next, the transaction's id | one loop | The answer to COMMIT is lost, late or refused; the COMMIT itself may still be carried out while its outcome is asked |
| Failure classification (`errors.py`) | tables | `retryability`, `may_succeed_later`, `translate` | An answer that is right before a commit is wrong after it |
| Retry policy and allowance (`retry.py`) | `TokenBucket._tokens`, `_last` | `decide`, `succeeded`, `allows_retry`, `spend`, `earn` | Threads share the bucket and ask and pay under two takings of its lock |
| Deadlines (`deadline.py`) | a context variable | `available`, `bounded`, `statement_timeout_ms` | A budget spent between two steps; rounding to the server's milliseconds, where 0 means no limit |
| Watchdog (`_watchdog.py`, `_core.py`) | a heap of watches, one thread; on each connection its watch, its limit, when the server was heard | `arm`, `disarm`, the thread, `deadline` | The thread decides while the answer arrives; it sleeps while an earlier watch is armed; blocks are nested |
| Statement timeout (`_core.py`, `connection_async.py`, `_prepare`) | the note of what the server holds, and what it was before the transaction | `_set_statement_timeout`, `deadline`, `commit`, `rollback`, `transaction` | The setting is transactional on the server, and not every rollback is announced |
| Label table and graph path (`_protocol/labels.py`, `_core.py`) | label names of one graph, the last path reported | `graph`, `refresh_labels`, `_watch_graph_path` | As above; older servers do not report the path at all |
| Read-only block, text from elsewhere (`connection_async.py`, `untrusted.py`) | `_agens_read_only`, `_agens_read_only_enforced`, what the role may do | `read_only_transaction`, `run_untrusted` | The text may end the transaction or leave locks; three ways of running it; blocks nested in each other and in the caller's own |
| Pipelining (`connection_async.py`) | psycopg's pipeline, a savepoint | `pipeline_batch`, `pipeline_query` | One failure aborts what was sent after it, and is blamed on another statement |
| Schema changes (`connection_async.py`, `introspect.py`) | the server's catalog | `schema_lock`, `ensure_labels`, `ensure_indexes`, `ensure_constraints` | Several processes; what was read before the lock is used under it; an index is known again only by reading its definition |
| Loading and merging (`bulk.py`, `connection_async.py`) | the server's rows, `enable_seqscan` | `load_*`, `merge_vertices`, `upsert_vertices`, `upsert_edges`, `reserve_ids` | Concurrent writers between the reading and the writing; keys in two spellings |
| Value decoding (`_protocol/`, `adapters.py`, `numbers.py`, `types.py`) | none | parsers of two renderings | Boundaries between elements; label names that look like the syntax; lengths that lie |
| Statement inspection (`cypher.py`, `_keywords.py`) | none | the scanner and its questions | Quotes, comments, dollar tags, the two readings of a backslash |
| Capabilities, introspection, write counts (`capabilities.py`, `introspect.py`, `summary.py`) | the release, the counters before a statement | `has`, `reconcile_*`, `for_statement` | Counters that are reset unevenly |
| Vector values (`vector.py`) | none | `Vector`, `SparseVector`, `Bits` and their two renderings | Counting from one or from zero, three widths of a number, bits that pad to bytes |
| Vector storage (`connection_async.py`, `vector_storage.py`, `_vector_plans.py`) | the server's | `ensure_vectors`, `write_vectors`, `delete_vectors`, `build_vector_index`, `drop_vectors`, `nearest` | Three designs for one label; indexes built without the lock; a label dropped and made again hands out the identities anew |
| Columnar results (`columnar.py`) | the builders a first chunk settles | chunks to Arrow, Arrow to loads | Nulls, empty lists and other types that come only in a later chunk |
| Observability (`observability.py`) | listeners, a flag | spans, loggers | wording and I/O |
| Notifications, settings, serialisation, DB-API names (`notify.py`, `settings.py`, `serialize.py`, `dbapi.py`) | none | wrappers | none |
| Code generation (`src/tools/async_to_sync.py`) | none | writes `pool.py`, `connection.py` | a build tool |

How they interact. A caller enters `pool.connection()`, which takes a
connection from psycopg's pool (whose workers call `_configure`, `_check` and
`_reset`) and prepares it with the budget of `deadline.py`. Every statement
passes `_check_lent` and, if the connection has a limit, arms the watchdog;
after it the graph path is watched and the label table kept right. When a
transaction ends, `_transaction_ended` puts the notes back.
`run_transaction` wraps all of this in a loop that asks `retryability` and the
`RetryPolicy` after each failure. The pool is told of trouble by
`_saw_failure`, which opens the window in which every borrow is checked.
Untrusted text is read by `untrusted.py`, run in a read-only block, and what
the reading cannot see is left to the marks that `_reset` acts on. The schema
lock is shared by the `ensure_*` of labels, indexes, constraints and vectors.

What makes each component correct, in a sentence:

* pool - whoever holds a connection may use it and nobody else may, nobody is
  served a retired connection, nothing one borrower left behind reaches the
  next, and whoever asks is answered;
* check on borrow - after one noticed failure no dead connection is handed out;
* `run_transaction` - the writes are applied at most once and the caller is
  told the truth, or that nobody knows;
* allowance - all callers together never retry far below half of it, and time
  brings it back;
* deadlines - what the statements are given leaves the commit its reserve;
* session - what the client believes of the server's settings is so;
* watchdog - no statement outlasts its limit for ever, and no connection is cut
  off for another's;
* read-only block - nothing that the text did outlives the block unmarked;
* pipelining - a result for every statement in its order, or the error of the
  statement at fault, and the transaction as it was;
* schema changes - two processes that ensure the same schema both succeed, each
  thing is made once, and what nobody spoke of is kept;
* vector storage - what is answered ready is there, and no row answers for
  another vertex than its own;
* merging - every key given exists once afterwards, and the counts say what
  was done;
* readings - what was written is what is read, on either side.

## 2. The modules

| Module | Models | Checked in, proved in |
|---|---|---|
| `Pool` | lending, in both pools | `MCPool`, `PoolProofs` |
| `Lending` | what a pool promises its callers, abstractly | instantiated by `Pool` |
| `PoolCheck` | when a connection is tested before it is lent | `MCPoolCheck`, `PoolCheckProofs` |
| `Retryability` | `retryability()` and its tables | used by `RunTransaction`, `Allowance` |
| `RunTransaction` | `run_transaction`, `_settle`, the server's side of COMMIT | `MCRunTransaction`, `RetryProofs` |
| `CommitOnce` | the promise of `run_transaction`, abstractly | instantiated by `RunTransaction` |
| `Allowance` | `TokenBucket` and `RetryPolicy.decide` between threads | itself, `RetryProofs` |
| `Session` | the timeout's note and the label table against the server | itself, `SessionProofs` |
| `Watchdog` | the watchdog's thread, `deadline`, a network that stops | `MCWatchdog`, `WatchdogProofs` |
| `Untrusted` | `read_only_transaction`, `run_untrusted`, `_reset` | itself, `UntrustedProofs` |
| `Transaction` | the transaction psycopg and the server keep | used by `Pipeline`, `Upsert` |
| `Pipeline` | `pipeline_query`, its savepoint, asking again | in `Statements` |
| `Upsert` | `upsert_vertices`, `merge_vertices`, `upsert_edges` beside another writer | in `Statements` |
| `Statements` | both on one connection, in its caller's transactions | `MCStatements`, `StatementsProofs` |
| `Schema` | `ensure_*` of several processes under the schema lock | `MCSchema`, `SchemaProofs` |
| `VectorStorage` | the three designs, under the same lock and without it | `MCSchema`, `SchemaProofs` |
| `ServerText` | how the server scans a statement (external) | used by the next three |
| `Cypher` | what `cypher.py` reads in a statement and writes into one | `MCText`, `UntrustedProofs` |
| `UntrustedText` | how `untrusted.py` reads one | `MCText`, `UntrustedProofs` |
| `IndexText` | an index's definition, written and read back | `MCReadings` |
| `Decoding` | elements, lists and paths from text | `MCReadings` |
| `Composite` | the same from bytes | `MCReadings` |
| `Columnar` | rows to Arrow in chunks, and back | `MCReadings` |
| `Vectors` | dense, sparse and bit vectors in both renderings | `MCReadings` |
| `Deadline` | a budget spent by one statement after another | `MCReadings`, `WatchdogProofs` |

`MCReadings` extends `MCText`: one run grows every kind of input. `Statements`
composes `Pipeline` and `Upsert` over the transaction they share. `MCSchema`
puts `Schema` and `VectorStorage` side by side: they share the lock's code
and nothing in the catalog, so a behaviour is of one or of the other.

### Pool

State. `place` is psycopg's (external): whether a connection exists, is being
made, is in `_configure`, waits in the queue, is lent, waits for a worker, or
has a hook talking to the server in `_reset`. `stamp`, `lent`, `cancelled` and
`ranOthers` are the driver's attributes on the connection; `generation` is the
pool's. `locked` and `shut` are facts of the server and of psycopg. `pc`,
`has` and `left` are a caller's place in `connection()`, its connection and
the turns of the loop it has left; `asked` remembers the generation in force
when it asked. `lockUnseen` and `cutUnseen` are history: what the code does not
mark, a session lock taken by a statement of `stream()`, of an allowed write or
of the caller's own, and a COPY, a stream or a pipeline's end that was cut off.

Actions. A caller's are `Ask`, `GiveUp` (`PoolTimeout`), `Take` with the check
skipped or not, `CheckPasses`, `CheckFails`, `Accept` or `Reject` (the
generation test, whose `continue` gives the connection back with its flag up),
`RaiseStale`, `Prepare`, `PrepareFails`, then what a holder may do
(`RunOthersText`, which is marked and may lock, `LockUnseen`, `Interrupt`,
which is marked or not, `Break`, `EndBlock`) and `Leave`. A worker's are
`Configure`, `Configured`, `ConfigureFails` and the outcomes of `_reset`.
`Invalidate` and `Resize` are anybody's; `Grow` and `Shrink` psycopg's.

Interleaving. In the awaiting pool what runs between two awaits is one step:
giving a connection back to psycopg's queue and the `finally` that clears the
flag are one. In the blocking pool (`Threads`) a worker thread may reset and
re-lend the connection between the two, so `ClearLent` is a step of its own.

`Lending` is what all of this is for, with neither queue nor workers nor flag:
a caller asks, is served a connection nobody else has, made since the last
`invalidate()` and with nothing left on it, or is refused because the pool was
invalidated again while it asked; a connection is tidied or made anew only
while it is nobody's. `Lends` maps `Pool` to it: a caller is `served` from the
generation test in `connection()` to the end of its block, a connection is
`made` when it is stamped, and something is `noticed` on it when it is marked
interrupted or run from elsewhere, or holds a lock that a mark goes with. What
no mark tells of is not `noticed`, and `Lending` promises nothing of it. A pool
that is resized may refuse otherwise (`Steady`).

### PoolCheck

The decision `Pool` leaves open: time is a clock, the server restarts, and
`SkipCheck` compares the clock with the connection's `returnedAt` and with the
pool's `until`. A failure met in the block opens the window; one met in
`_prepare`, or by psycopg's COMMIT, does not. A borrower may send nothing, and
its connection is stamped fresh all the same. The last answer (`Work`), the end
of the block (`EndBlock`) and the stamp of `_reset` (`Reset`) are three moments:
the server may restart, and the restart be noticed on another connection,
between any two of them. `late` remembers the connections that were out or on
their way back when a failure was noticed: their stamp comes after the notice
and their last answer may not.

### RunTransaction and CommitOnce

The caller's process, a server's transaction per attempt, and COMMIT messages
on their way. `call` is how the function was called, chosen at the start.
`Decide` is the `except` clause with the branches in the source's order;
`Recovery` is `retryability()`, translated in `Retryability`. `Settle` asks the
server's record of the transaction, while `CarryOut` may still be ahead.
`atExit` is the case in which `conn.transaction()` is a savepoint because
`_prepare` has sent a SET outside autocommit: COMMIT is then psycopg's, as the
borrow ends. `CommitOnce` has two variables: whether the writes are in the
database and what the caller was told. `Contract` maps the detailed state to
it, for the calls the promise covers (not idempotent, not `atExit`).

### Allowance

`Ask` is the first taking of the lock (`allows_retry`), `Spend` the second.
`owed` is the time the clock has run since `_last`, in the time that returns
one token, so tokens are whole; `Now` is `_now`. `TooLate` is the budget's
refusal between the two.

### Session

`settings` is what the server holds, `saved` what each open transaction and
savepoint would go back to. `note`, `setInside`, `before` are the timeout's
note; `table`, `pathInside`, `seen` the label table's graph and the attributes
that put it right after a rollback. `blocks` are the caller's open
`transaction()` and `deadline()` blocks, each of which may end with an
exception or without, whatever happened inside. The server may end the session
(`ServerEnds`), and may refuse a COMMIT, for a deferred constraint or a
serialization failure: `CommitRefused`, `GiveBackRefused` and `ExitRefused` are
the three places one is sent from. The server has then rolled back, and
`commit()` raises before `_transaction_ended`, or `transaction()` calls it with
`rolled_back=False`. `lapses` is history: it records the rollbacks the client
is not told of or does not act on, in order that the properties can say
precisely what is promised.

### Schema

`catalog` is what is committed and `change` what a process's open transaction
has added or dropped, both counting copies, since the server makes an index
without a name as often as it is asked. `holder` has the advisory lock.
`Declare` reads the columns, `Plan` plans without the lock, `Wait` is a
`REPEATABLE READ` transaction whose snapshot is taken by the statement that
waits, `Lock` and `Replan` follow, `Run` is one statement, `Settle` or
`SettleRaises` the reading after it. `Fail` is the savepoint's or the
transaction's rollback, with which a lock taken since goes. `WriteMakes` is a
write that makes a label by naming it. `outer` and `frozen` are fixed at the
start: which processes have a transaction around their calls, and whose
transactions read from one snapshot.

`MCSchema` asks for a label with a column, an index, an index the catalog
prints otherwise than it was written, a constraint made unique with the rest
dropped, and the same tried dry: each kind of statement.

### VectorStorage

`held` is the committed catalog as far as one label's vectors go - the label,
its column, the side table with its type and its key, the index on each -, `made`
what the holder of the lock has made besides. `EnsureVectors` begins `ensure_vectors`;
`Probe` is the look without the lock, `TakeLock`, `Look` the look under it, `Make`
one statement, `LookAfter` the look after; `Commit` and `LoseVectors` end the
transaction, whoever opened it. `Inspect` and `BuildIndex` are the concurrent
build, which cannot run in a transaction and takes no lock, and `Build` is
`build_vector_index` itself. `WriteVectors`, `DeleteVectors`, `CreateVertex`,
`DeleteVertex`, `DropLabel`, `WriteMakesLabel` and `Truncate` are the rows'
side: the key cascades, except that `DROP ... CASCADE` of the label takes the
key and leaves the rows (`strange`), and a label made again counts its
identities from the start. `away` are sessions whose graph is another one,
for which `_check_on_graph` refuses what would name the label there.

Bounds of the model: one `ensure_vectors` per transaction, concurrent builds in
autocommit, and vectors in a property go when their vertex goes.

### Watchdog

Time is relative: `due` is how long until a watch is overdue, `heard` how long
since the server was heard, so the clock runs for ever in finitely many
states. A watch is a connection and the depth of its block, since a block
inside another arms a second one. `Enter`, `Work` and `PutBack` send a
statement; `ready` is how long the socket has had something for the client,
`Hear` the connection's own thread or event loop taking it, `Answer` the end of
it. On a network that moves the server answers within the limit; nothing makes
the client read. A socket left `ready` for as long as `Grace` is `unheeded`.
`Break` is the `Stalled` that `wait` raises once the socket is shut.
`Arm` and `Disarm` hold the watchdog's lock; the sweep is the choice in `Disarm` between marking the
entry (`dead`) and clearing the heap. `Thread` is `Wake`, the look at the earliest
watch, the decision and the shutdown, which the thread makes with the lock in
its hand. `RollBack` is the savepoint that takes the server's limit back with
the note left (the `lapses` of `Session`); `Stall` is the network.

### Untrusted

A text is what it does - read, write in one of two grammars, set, lock, end the
transaction, be two statements - and whether the driver's reading sees it
(`UntrustedText` is that reading). `pending` is what each open block has done
and `outlived` what of a text's doing is no longer in a transaction that can be
rolled back. `OpenReadOnly`, `Statement`, `ReadInChunks` and `CloseReadOnly`
are the block; `Call` begins `run_untrusted`, which confirms the role
(`AskRole`, `Confirm`), switches autocommit where the text can be wrapped
(`Switch`), and runs it in the one pipeline (`RunWrapped`), from a cursor
(`OpenStream`, `Stream`, `CleanUp`) or, if writes are allowed, as it is
(`Write`); `Restore` puts autocommit back. A cancellation at any of the waits is
an action of its own for what it leaves: a statement's is marked
(`InterruptMarked`), in a stream (`InterruptStream`), at the end of the wrapped
pipeline (`InterruptWrapped`) or of an allowed write's (`InterruptWrite`, which
skips the look at the transaction's status) it is not, and elsewhere there is
nothing to mark (`InterruptUnmarked`). A write's locks stay and its settings
are committed with it. `Lend` is the pool's `_reset` of a returned connection, `Replace`
its closing. `release` says which of the checks the server makes and which it
only claims; `slipped` is history: what no mark of the connection tells.

### Pipeline

`Query` is `pipeline_query` as it is called, with its batch; `Send` a chunk
behind a savepoint (in a transaction) or alone, `Read` the results with the
label's rows decoded (and the table read again once), `Undo` the rollback to
the savepoint, `AskAgain` one statement by itself, `Return` the answer.
`OtherLabel` is another session that makes or drops the label the rows name.
A statement is `fine`, `named` (its rows name that label), `bad`, or `flaky`:
refused in the pipeline and answered when asked again.

### Upsert

`Ask` begins a call in one of three modes; `Facts` reads what identifies the
element and whether it is unique, `ReadAll` or `ReadKeys` (with
`enable_seqscan` off, `Restore` after) reads what is there, `Reserve` takes the
identities, `Copy` writes the missing ones, `Update` the overlap,
`UpsertReturn` answers. A row's key is a text for the driver and JSON for the
server, so 1 and "1" are two `Spellings`. `OtherInserts` and `OtherRemoves` are
the other session, between any two statements; `gone` remembers what it
removed.

### Texts

`ServerText` scans a text as the server does (external: what the driver's own
scanners are held to), `Cypher` is the driver's `without_literals` and the
questions asked of it - one statement or two, does it write, does it
end the transaction, its parameters, the counters of `summary.py` -,
`UntrustedText` is `untrusted.py`'s tokens and refusals. A text is a sequence
of symbols: the quotes, a backslash, a dollar, a letter, a newline; a keyword is
one symbol. `MCText` grows texts symbol by symbol over seven alphabets whose
symbols bear on each other, names, and statements clause by clause, each clause
with what it means. The keywords and the functions refused are samples of the
tables in `_keywords.py` and `untrusted.py`.

`IndexText` writes the index `ensure_indexes` would create, prints it as the
catalog does, and reads it with `index_elements`: a reader that fails to
recognise its own index makes another with each run.

### Values

`Decoding` scans the text of a list or a path, in which nothing delimits the
elements: an element ends where what precedes the comma is one. `Composite` is
the record, read in one unpack or a column at a time, with lengths that may
have been damaged in transit. `Columnar` chooses a builder from the first
chunk, fills and finishes it, and holds each later chunk to it; the other way
`edge_payloads` takes columns back. No builder asks a value for its type: it
reads attributes, so what is refused is what lacks one (`Fit`, `HasBytes`), and
an edge, which has all that a vertex has, passes for one. `columns()` converts
each value as the column's first one asks. `Vectors` sends and reads the three
kinds; an infinity is written as JSON's `null`.
The JSON of a
property map, a float's digits and pyarrow's own buffers are opaque.

### Deadline

A `Deadline` and its clock, spent by one statement after another: `RunStatement`
waits for `idle`, is given a limit by `statement_timeout_ms` - as it is under
`deadline()`, or rounded up within the gap as `_prepare` does for a borrow
(`BorrowersLimit`) -, takes up to that limit and answers within the gap;
`RefuseStatement` is `Expired` raised before anything is sent.

## 3. The runs

| Run | Question | Bounds, and why they are enough | Distinct states |
|---|---|---|---|
| `pool_async` | does lending keep its promises in the awaiting pool | 2 connections, 2 callers, 2 invalidations: a caller can be overtaken by another and by two retirements, so the loop of `max_size + 1` is exhausted | 943,000 |
| `pool_threads` | with threads and `resize`, is everyone answered | 1 connection contended by 2 callers, sizes 1 and 2, 1 invalidation: waiting is the point, and a `finally` can meet the next holder | 29,000 |
| `pool_refused` | is a holder refused by another's `finally` | violated; no reset hook of the application's, so that nothing else is refused first | |
| `check_window` | is one noticed failure enough | 5 ticks with a window of 2 and 2 restarts: a window opens, a return falls inside and after it, an answer before a restart is followed by a return after its notice, and a second restart comes while the window is open | 1,600,000 |
| `run_calls` | at most once, the truth, an end, the refinement | 3 attempts: one that is settled, one in the middle and the last | 114,000 |
| `allowance` | the shared bound and its recovery | 2 callers, 3 attempts, 12 tokens with costs 3 and 2: half is reached in two failures, both may be allowed at the edge | 35,000 |
| `watchdog` | who is cut off, and is everyone freed | 1 connection with two blocks inside each other, limits 1 and 2, a grace of 2, so that a socket may be left ready for less than the grace and for as long: a watch armed sooner than the one the thread sleeps for, and one that stays behind in the heap | 419,000 |
| `session` | do the notes follow the server | 3 nested blocks, 2 graphs, 1 limit: a savepoint inside a savepoint, a move there and back, a COMMIT refused at each level | 1,102,000 |
| `untrusted` | does anything of a text outlive its transaction | 2 blocks in each other, every kind of text read rightly or not, every kind of server: a block of the caller's own inside or around one for others' text | 825,000 |
| `statements` | whole answers, and one element per key | batches of 3 in chunks of 2: a full chunk, a rest, and a failure in either; 2 keys in 2 spellings, 3 identities beside the other session's: one there, one made, one in between | 3,045,000 |
| `readings` | is what is read what was written | texts of 6 symbols, names of 5, 3 clauses: a quote, something doubled in it, and what follows; lists of 3 elements with every name a label may have; one or two words damaged; 3 rows in chunks of every size: a first, a later, a last, each of a kind that belongs or not; vectors of 3, bits to 7 in bytes of 3; budgets of up to 3 s spent by statements begun within 0.8 s, until one is refused; indexes of 2 keys | 368,000 |
| `schema` | do processes that share a graph leave one another's work alone | 2 processes, either with a transaction around its calls, or one alone that is perhaps `REPEATABLE READ`, each kind of statement planned twice at once; or 2 sessions, both on the graph or both away, with 4 storages of one label, one identity handed out twice | 510,000 |

Counters in the models are bounded by constants: `MaxGen` (invalidations),
`MaxTime`, `MaxEpoch` (ticks and restarts), `Attempts` (the policy's own),
`MaxBlocks` and `Depth` (nesting), `MaxId` (identities). The theorems hold for
every value of those they speak of. Symmetry is used in `pool_async` and
`check_window` (connections, callers) and in `schema` (the two vector
sessions), never with liveness. `CHECK_DEADLOCK FALSE` is said of `PoolCheck`,
whose clock and restarts run out, of `RunTransaction`, which ends, and of
`MCReadings`, whose inputs are full-grown.

### What the passing runs show

Lending. `EntitledNotRefused`, `GivenBackRefused`: the flag `_agens_lent` is up
for whoever is entitled and down for a handle kept past its block. The path
that makes this delicate is `Reject`: the connection goes back with its flag
up, and only `_reset`'s closing it keeps the flag from staying up for ever.
`ImplementsLending`: however the workers, the check and the flag interleave, the
callers see a `Lending`, in which what is served is of the generation in force
(`invalidate` is one call). `StaleErrorJustified`: the loop is long enough.
`NothingInherited`: interruption, session locks, unfinished clean-up, except
those no mark tells of, which the next borrower does meet. `EveryAskEnds`:
whoever waits is answered without the timeout.
`OneFailureIsEnough`: the window is exactly as long as a return stays fresh, so
one failure suffices, in the window (`WarnedOnce`) and after it
(`NoticedOnce`); except for a connection whose borrower sent nothing, or was
answered before the restart and gave it back after the notice (`late`).

Transactions. `AtMostOnce`, `OutcomeTold` (returned means committed, raised
means nothing, unresolved only where nobody can know) and
`ImplementsCommitOnce`: what the caller is told is so, also with respect to a
COMMIT carried out after the answer. `Terminates`. `HalfKept`: `decide` and
`spend` interleave, and the bucket is driven below half by at most one retry
per thread; `Recovers`. `NoteIsTheServers`, `LabelsAreTheGraphs`: the client's
notes are the server's, but for the rollbacks listed in `lapses`; on a server
that reports its path the table is right again with the first statement after
a COMMIT that was refused, and needs no other exception.

Watchdog. `NeverOversleeps`: a watch armed sooner wakes the thread; what hides
it is the entry left in the heap by a block that has ended. `ShutJustified`:
a connection is shut because its network stalled, or its own thread or event
loop left the socket unread for the whole grace, and not after its block. `StalledIsFreed`:
whoever is in a block is freed, unless an inner block has left the client
nothing to measure by.

Text from elsewhere. `BoundaryKept`: what outlives its transaction marks the
connection, but for the end of an allowed write cancelled at its pipeline's end
and a setting committed with such a write. `NextStartsClean`: the next borrower
finds no transaction and no block, and no lock and autocommit as it was unless
one of the unmarked steps left it. `TheServerDecides`: while the
block is open the server holds its transaction read-only, and a write is run
only on a server that checks it. `OuterDecides`: the end of a block leaves what
the caller's own transaction did to that transaction.

Reading and merging. `AnswersAreTheirs`: a result for each statement in its
order, or the error of the one at fault, and the transaction as it was.
`OncePerKey`: no element is made whose key was there to be read. `AnswerTrue`:
each key given is there afterwards. `ScanRestored`: the planner is the caller's.

Readings. `ReadAsTheServer`: both scanners find the server's literals and
nothing else. `ReadForWhatItIs`: the clause that writes, the columns, the
counters to be believed. `ListComesBack`, `BytesReadWhole`: elements come back
as rendered, the quick unpack agrees with the slow one, what was cut short is
refused. `ExportedAsGiven`: a first chunk of nulls, a later chunk of another
type, values of another kind: refused, or converted in the ways the property
names. `VectorsComeBack`, `IndexFoundAgain`. `BudgetKept`: while statements are
given limits the commit is left its reserve, a limit is never the 0 that means
none, and what is refused was not worth a millisecond.

Schema. `TakeTurns`: the second plan, under the lock, takes out of the first
what another process has done, so an index without a name is not made twice
(`NothingTwice`) and no statement is refused because another came first
(`OnlyColumnsRefused`) - except a column's, whose reading (`declared`) is not
repeated under the lock, and except a `REPEATABLE READ` transaction's, whose
snapshot is as old as the statement that waited; and of two indexes that were
over one key to begin with, one unique and one not, the listing keeps the last
and the other may be made again. `AskedForIsThere`: a call that
took the lock got what it asked for, except the columns of a label that a
write made in the meantime. `UnsettledLeavesNothing`, `OthersKept`: `_settled`
raises inside the block that is rolled back, and `for_labels` keeps
`drop_extra` to the labels spoken of. `VectorsAreThere`: ready means there, in
the shape asked for, until somebody drops of it. `HitsAreTheirs`: a table left
without its key by a dropped label is never answered ready.

### What the properties leave out

Each exception a property makes is written in it. `ExportedAsGiven` leaves out
null elements laid out as columns, and names what is exported otherwise than
given because no builder checks a kind; `VectorsComeBack` the text of an
infinity; `ListComesBack` labels whose name
starts as another element is rendered; `IndexFoundAgain` the names its comment
lists; `NothingInherited`, `BoundaryKept`, `NextStartsClean` and `ScanRestored`
what the driver leaves unmarked (`lockUnseen`, `cutUnseen`, `slipped`, `cut`).
`Untrusted` takes the reading to be right about the functions a write calls, and
opens no block after a boundary was lost.

### What the violated run shows

* `pool_refused` - `pool.py` clears the flag of a connection that a worker has
  meanwhile lent to somebody else, whose next statement is then refused as
  `ReleasedConnection`.

### Disagreements noticed and not given a run

Where the code does otherwise than its documentation or its tests' wording says,
or where two parts of it do not fit. Most are steps of a model, named in the
property that leaves them out.

Pool and transactions.

* A lost server met in `_prepare`, or by psycopg's commit, is raised to the
  caller and opens no window, though the constructor's docstring says every
  failure a caller meets does (`PoolCheck` has both steps).
* `check()` runs psycopg's own check on connections whose flag is down;
  `_check_lent` refuses it and every connection is replaced.
* The watchdog may give up as the savepoint's release is answered; the
  connection is closed, psycopg leaves the block without a COMMIT and without an
  error, and `run_transaction` returns the work's result (`GivenUpLate`; calls
  with `atExit` are outside `CommitOnce` for it).
* `commit()` of a transaction that a caught failure has aborted is a rollback on
  the server; the note keeps a timeout the server has put back, and `_prepare`
  sends the next borrower nothing (the `timeout` lapse of `Session`).
* A pool resized downwards holds more connections than `max_size + 1` turns
  can get past, so `StaleGeneration` may be raised with one `invalidate`
  (`pool_async.py`, `connection`). `StaleErrorJustified` is therefore checked
  and proved for pools that are not resized.
* A connection whose borrower sent nothing is stamped fresh by `_reset`, while
  `_check`'s docstring speaks of connections used within `check_after_idle`.
  `NoticedOnce` makes the exception explicit.
* `_configure` stamps the generation in force when the hook runs, not when the
  socket was made; `AsyncNullConnectionPool` with `max_size` 0 tries one
  connection only.
* A COPY or a stream that is cancelled does not set `_agens_cancelled`, nor does
  a cancellation at a pipeline's end (`_core.py:326-329`), so the next borrower
  may have the connection as it was left (`cutUnseen`).
* A connection answered before a restart and given back after its notice is
  stamped later than the notice (`pool_async.py`, `_reset`) and may be lent
  unchecked once the window has closed (`late`).
* The watchdog takes a connection for stalled when nothing was heard for the
  limit and the grace: "silence that long is the network and not the server"
  (`_watchdog.py:17-22`). What is heard is what the connection's own thread or
  event loop has read, so a loop blocked for longer than the grace loses a
  connection whose answer has arrived (`unheeded`).
* `TimeoutError` raised by the work itself, or SQLSTATE 40003 of idempotent
  work, is answered `UnresolvedCommit` (`errors.py`, `_classify_foreign`;
  `run_transaction`'s docstring reserves it for commits).

Session and deadlines.

* A COMMIT the server refuses is a rollback there; `commit()` raises before
  `_transaction_ended` (`connection_async.py:441-442`), and `transaction()` calls
  it as if nothing had been rolled back. The note of the timeout and, on a server
  that does not report its path, the label table are then those of the transaction
  that is gone (the `timeout` and `path` lapses).
* A `deadline()` block inside another, or inside a borrow with a limit, sets
  the server's default as it ends, not what was in force around it: the rest of
  the outer block runs without the server's limit, and its watch, finding none
  noted, only looks again.
* A path moved inside a `transaction()` block of an autocommit connection is
  not noted on a server that does not report it (`_watch_graph_path` tests
  `autocommit`), so the block's rollback leaves the label table of another
  graph: the `path` lapse of `Session`.

Text from elsewhere.

* On a connection outside autocommit `run_untrusted` is refused once a
  transaction is open, which its own questions open (`src/README.md:1527`).
* A pipeline that is interrupted at its end is not marked (`_core.py:326-329`):
  the wrapped one leaves its lock and autocommit, that of an allowed write skips
  the look at the transaction (`connection_async.py:1163-1168`), so a text that
  ended it goes unnoticed. `stream()` in a read-only block does not set
  `_agens_ran_others_text`, so a lock taken by its text stays; an allowed write
  never unlocks what its text locked, and commits what it set. These are
  `slipped`.

Pipelines and merging.

* A savepoint is released before the rows are decoded; if decoding fails, the
  rollback to it fails too and that error takes the place of the first.
* A key given in two spellings makes two elements; a key repeated among those
  that exist is refused by the server; `UpsertCounts.updated` counts elements
  another session removed meanwhile.
* A cancellation at the end of the pipeline that reads the keys leaves
  `enable_seqscan` off on a connection nobody has marked.

Schema and vectors.

* Of two processes that ask `ensure_labels` for one column of a label that is
  there, the second can be refused for the column the first has added:
  `declared` is read before the lock and used under it, while `schema_lock`
  says that "the second reads what the first left and has nothing to do".
* A label made by a write between the plan under the lock and
  `create ... if not exists` keeps the statement from carrying its columns;
  `ensure_labels` returns as if they were there, and a second call adds them.
* Under `REPEATABLE READ` the plan under the lock is made from a snapshot taken
  before the lock was granted, and an index without a name is made twice.
* Inside an open transaction the lock lasts to its end: two that reconcile two
  graphs in opposite order wait for each other until the server ends one.
* `StaleVectorStorage` advises truncating the table, but a truncated table
  still has no key and is refused again.
* A concurrent index build that was cut off, or is under way, passes for a
  ready index; `build_vector_index` takes no lock, so an index of another
  distance made meanwhile is taken for its own; the property design without a
  column does not look at the vectors already kept, though a mismatch is
  documented to raise; `write_vectors` and `nearest` do not ask whether the
  table is stale.

Readings.

* Of a text: a `$` after a letter of a name, a string that goes on in a second
  line, a digit before `E'...'` are scanned otherwise than by the server; a
  property called `return`, `order`, `skip` or `limit` costs the columns after
  it; a `*` in a string inside a relationship's brackets is taken for a walk; a
  `;` followed by a literal alone is not seen as a second statement; a quoted
  name followed by `set` looks like a session command; a write outside Cypher
  without RETURN reads counters it did not move.
* A label whose name begins with the rendering of another element is misread in
  a list (`src/CHANGELOG.md:182` speaks of names and brackets).
* The quick unpack of a record does not look at one header field that the slow
  one refuses when malformed, and the two notice an unknown label and broken
  JSON in different order.
* `Layout(elements="columns")` writes a null element as empty texts and zeros
  (`columnar.py:581`); a first chunk of nulls or empty lists settles a type.
* "A chunk that does not fit the settled schema raises" (`Plan`), but no builder
  looks at a value's type: an edge in a column of vertices, or in a list of them,
  is written without its ends (`columnar.py:575-615`); `identity="text"` writes
  the text of anything; `int` has a `to_bytes`, so a small one among listed
  vectors is a vector of no numbers; numbers in a column that began with booleans
  become true and booleans among numbers 1; `columns()` converts every value as
  the first asks (`columnar.py:156-160`), to its text where that is an identity.
* A vector with an infinity in it is written as `null` (`vector.py:210-219`),
  which the driver's own reader refuses.
* `SparseVector` keeps an entry whose number is zero in single precision, which
  the server then refuses or drops; it accepts a zero entry and then one at the
  same place, and refuses the two in the other order.
* An index over a name with an unbalanced parenthesis or `::`, or an index
  called ` USING `, is not recognised, so `ensure_indexes` never settles.

## 4. Fairness

Liveness is claimed of four things, and only by TLC.

* `EveryAskEnds` (`Pool!FairSpec`). Workers run (psycopg's tasks), and a caller
  that is not waiting for psycopg goes on: its steps are its own code. A caller
  ends its block: without that nobody else could be served. Strong fairness
  for `Take` is psycopg's queue of waiters, first come first served; for
  `CheckPasses` and `Configured`, that a server that can be reached is
  sometimes reached. There is none for `GiveUp`: the timeout is not what ends
  the wait.
* `Terminates` (`RunTransaction!FairSpec`). The caller's task is scheduled, and
  the server carries out what reaches it and ends the sessions whose client is
  gone. Nothing makes a `COMMIT` arrive.
* `Recovers` (`AllowanceFair`). The clock runs; an attempt ends. Nobody is
  obliged to report a success.
* `StalledIsFreed` (`Watchdog!FairSpec`). The clock runs, the thread is
  scheduled, and a caller whose socket was shut wakes from `wait`. Nothing
  makes a server answer or a network move.

## 5. What is proved

Each proof module extends its component and holds for every value of its
constants, from the component's `ASSUME`s alone. In each, an invariant is shown
inductive (`IInv`, with `InitIInv`, `StepIInv` and `Invariance`, or one named after
the component, as `VectorInv`) and the theorems are read off it. The
type invariant of each of these components is a theorem and no run's property.

* `PoolProofs`. The type invariant and the safety properties are not inductive:
  nothing in them keeps two borrowers from owning one connection. `Ownership`
  says that what is out is one borrower's; then a step by one actor leaves the
  others' connections alone. `Clean` says what may be left on a connection by
  where it is, `Explained` why a flag may be up, `Generations` that nobody is
  ahead of the pool. `HoldersServed` needs `~Threads`, which is where the
  blocking pool fails. `StaleErrorMeansAgain` is a counting argument, for pools
  that are not resized: without another `invalidate` no connection becomes old,
  and each turn of the loop makes one fewer, so a caller with `n` turns left is
  faced with fewer than `n` old connections. `Refinement` shows both pools to
  implement `Lending`: every step is one of its actions or changes nothing of
  it. A worker's step touches only connections that are nobody's, so it is
  `Tidy`, `Make` or a stutter; the generation test and `NothingInherited` make
  `Accept` a `Serve`, the counting argument makes `RaiseStale` a `Refuse`. What
  no mark tells of is in neither: `HandoverIsClean` says that a lock the next
  borrower meets is one of those.
* `PoolCheckProofs`. `FreshIsSound`: a connection returned later than
  `until - CheckAfter` was answered by the server of the last notice or a later
  one, or is among the exceptions. It is why the window may close;
  `FailureIsEnough` puts both halves together.
* `RetryProofs`, of `RunTransaction`. An attempt is left behind only once its transaction
  cannot commit any more (`Past`, `Settled`). From a failure alone that rests on
  two facts about the classification: a failure that leaves the outcome open is
  "unknown" once a commit was under way (`OpenIsUnknown`), and "unknown" is
  never retried. `AnswerIsTrue` is all of `OutcomeTold`. `Refinement` maps
  every step to one of `CommitOnce` or a stutter.
* `RetryProofs`, of `Allowance`. The invariant charges each caller that has been allowed a
  retry and has not paid with one transient cost.
* `SessionProofs`. `Nested` ties blocks to savepoints: depths grow inwards and
  each open transaction block has its savepoint, a refused release included.
  `NoteInv` and `LabelInv` say what the saved settings have to do with the
  notes for the rollback to come to restore them. A refused COMMIT makes
  the settings those the transaction began with while the notes stay: what it has
  `Undone` is a lapse, and where it has undone nothing the notes are still right.
* `WatchdogProofs`. `WakesInTime`: no entry of the heap, one left behind by a
  block that has ended included, is due before the thread wakes. That only the
  stalled and the unheeded are shut rests on `SilenceIsShorter`: the thread
  measures silence from the last sign of the server, the server from the
  statement's beginning, so on a network that moves the answer is there by the
  limit, and silence longer than that by `Grace` means a socket left ready for as
  long; and what the thread has decided (`VictimBlamed`) stays true until it acts,
  since a block ends only under the lock it holds.
* `WatchdogProofs`, of `Deadline`. `BudgetIsKept`: a limit leaves a gap of at
  least nothing and is below what is available (`LimitOfAStatement`,
  `AnyLimitGiven`, the rounding included), so a statement that ends by its limit
  and answers within the gap ends before the reserve begins.
* `UntrustedProofs`. The server has the driver's blocks, or fewer and the
  connection is marked (`Levels`); what a text has done and nothing has settled is
  inside a read-only block, which only rolls back (`TextsInside`), and the caller's
  own is inside none (`OwnOutside`). What a call has still to put back goes by the
  step it is in (`LockReturned`, `AutoReturned`), and each unmarked step is named
  by what it leaves (`slipped`). For blocks nested to any depth.
* `UntrustedProofs`, of the text. For every text, of any length and of any symbols,
  read as `ServerText` says the server does (section 3 lists what that leaves
  aside: a `$` after a letter, a string that goes on in a second line, a digit
  before `E'...'`). `BlankedAsTheServer`: the driver blanks what is no syntax for
  the server and nothing else, though it goes from quote to quote counting the
  backslashes before each, and looks one symbol back for the `E`, where the server
  reads symbol by symbol. `SplitAsServer`: what `untrusted.py` can split it splits
  as the server does. From these, that two statements are refused (`ManyRefused`,
  with what else is) and that a command of the session or of the transaction is
  known (`SessionCommandKnown`, `EndingKnown`, with the texts for which the answer
  may be another). The scanners are functions over the places of a text, each
  defined from those further on. The library's induction takes an operator, so
  induction is written with least places: `Recursion` shows that such a function
  exists, so that its equation may be used, and `Downwards` that what passes from
  the places further on to a place holds of all. The step is a case split over the
  tokens (`LiteralAlike`, `TokenAlike`), for which a token's beginning must be known
  not to lie behind a name (`Boundary`); two tokens that count have only space and
  comments between them (`LiesWithin`).
* `StatementsProofs`, of `Pipeline`. `Place` says how far a call is in its batch and
  `Kept` that its transaction and its savepoint are the ones it began with: a
  savepoint is there only while it is to be rolled back to, and an aborted
  transaction was aborted before the call. For batches of any length.
* `StatementsProofs`, of `Upsert`. `OncePerKey` speaks of what the session sees and
  is not inductive: a commit, or a removal by the other session, changes what that
  is. `Views` holds the same of all versions of the elements at once, the
  session's own and the committed (`Akin`, `Apart`), so it survives whichever of
  them comes to be seen. What the read found stays all there was of the keys given
  that is as old as the read (`AllFound`), so a row not found is younger than
  anything of its key, and the identities it takes are nobody's (`Room`,
  `Reserved`). `Standing` follows what was found and what was copied to the
  answer, past what the other session removes. Which identities a copy takes rests
  on counting (`NumbersType`), which row of a key is the first on there being a
  least place (`FirstPlace`).
* `SchemaProofs`. The lock first (`Turns`): only its holder runs statements or
  has changed anything, so `OneAtATime`. Then what another process would commit, or
  go back to, changes under it only by the labels that writes make (`Grows`,
  `SoundViews`), and a plan worked out under the lock from what is there stays
  right to its last statement (`FreshPlans`); a process whose transaction reads
  from one snapshot is left out of that, as `TakeTurns` says. `OtherwiseRead`
  follows what the catalog prints otherwise than it was written, for which no plan
  is ever made empty, and `TidyPlans` is the same argument for `NothingTwice`,
  with `frozen` empty. The constants are assumed to be a graph the server can
  hold: a label by its name, a column with its label, a constraint by its name.
* `SchemaProofs`, of `VectorStorage`. What the holder of the lock has made and not
  committed was absent when it was made and is absent still (`OnlyMade`), because
  what others do without the lock, an index built concurrently or a label made by a
  write, either waits for it or is something else. So a commit takes nothing's
  place and what was answered stays (`VectorsAreThere`); what is answered in a
  transaction still open is there for its session (`Answered`) and so for all when
  it commits. What is absent has nothing of its own (`Consistent`): an index goes
  with its label or table, a key with both. And a table with its key holds only
  rows of vertices (`Keyed`), which with the first gives `HitsAreTheirs`. `Found`
  answers ready only for the shape asked for (`FoundAs`): there the proof uses that
  the catalog's indexes are all of the storages', that is, that `build_vector_index`
  and `ensure_vectors` are the only makers of an index of that name.

Only model-checked: the liveness properties, which are out of the prover's reach,
and what else the readings promise: names put into statements, terminators, the
walks and columns of a text, what a statement writes, and all of the values, rows,
vectors and index definitions. Each of these recurs over data of its own, and would
need the argument made for the scanner again; `MCText` and `MCReadings` check them
over short inputs. `ReadAsTheServer` is therefore no theorem as a whole, though
most of its parts are. `Retryability`'s tables are translated and used, and the
proofs case-split over them.

## 6. What is not modelled, and the plan

Not planned: observability, the wrappers, the code generator, the loaders'
registration with psycopg, the wording of errors, the catalog queries and the
statement builders: SQL text and I/O.

Next:

1. In `Schema`: labels asked for under the other kind, `create_graph`, two
   graphs, the `drop_*` calls. In `Upsert`: loads from frames and the promotion
   of columns.
2. `open` and `close`, `drain`, the null pool; raw `BEGIN`/`COMMIT`/`SET` text
   (which the session's notes do not see at all); pipelines in `Session`;
   `copy()` and `stream()` cancelled half-way.
3. The context variable that carries a deadline between calls, the fork handler
   of the watchdog, `Vector` values read by two threads at once.
