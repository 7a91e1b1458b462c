------------------------------- MODULE Untrusted -------------------------------
(***************************************************************************)
(* Text nobody here wrote, on a connection of a pool: the read-only block  *)
(* (read_only_transaction) whose statements come from elsewhere, one       *)
(* model-written statement at a time (run_untrusted), and what the pool    *)
(* does when the connection comes back (_reset).                           *)
(*                                                                         *)
(* A text is known by what it would do and by whether the driver's reading *)
(* of it sees that; the reading itself is in UntrustedText.  psycopg's     *)
(* transaction blocks, its autocommit switch and the server are external.  *)
(***************************************************************************)
EXTENDS Naturals, Sequences

CONSTANTS
    MaxBlocks,     \* how deep blocks are nested
    NoBlock, NoText

Does == {"read", "setting", "lock", "cypherWrite", "sqlWrite", "ending", "second"}
Texts == [does : Does, seen : BOOLEAN]
Releases == [claims : BOOLEAN, enforces : BOOLEAN]    \* what its version says, and what it does

Awaiting == {"asking", "wrapped", "opening", "streaming", "cleaning", "writing"}

ASSUME UntrustedAssumption ==
    /\ MaxBlocks \in Nat
    /\ NoBlock \notin {"refusing", "kept"} /\ NoText \notin Texts

VARIABLES
    tx,         \* the transaction status
    guarded,    \* whether the server's transaction is read-only
    known,      \* how many of the open blocks the server still has
    pending,    \* what was done in each block and is not settled yet
    outlived,   \* what a text did that outlived its transaction (history)
    lock,       \* whether the session holds an advisory lock a text took
    release, fit,           \* the server, and whether the role is fit for this
    blocks,     \* the blocks open, innermost last, with the _agens_read_only each found
    holding,    \* _agens_read_only
    ran,        \* _agens_ran_others_text
    cancelled,  \* _agens_cancelled
    enforced,   \* _agens_read_only_enforced
    asked,      \* whether _agens_untrusted_role is kept
    auto, home, \* autocommit, and as the caller had it
    pc, text, writes, then, \* the step of run_untrusted, its text, allow_writes, what follows
    fresh,      \* whether nobody has used the connection since it was lent
    slipped     \* what happened that no mark of the connection tells (history)

server == <<tx, guarded, known, pending, outlived, lock>>
given == <<release, fit, home>>
marks == <<ran, cancelled>>
answers == <<enforced, asked>>
call == <<pc, text, writes, then>>
vars == <<server, given, blocks, holding, marks, answers, auto, call, fresh, slipped>>

Effects == {"own", "write", "setting"}

TypeOK ==
    /\ tx \in {"idle", "open", "failed"} /\ guarded \in BOOLEAN
    /\ known \in 0..MaxBlocks
    /\ pending \in [0..MaxBlocks -> SUBSET Effects] /\ outlived \subseteq Effects \cup {"split"}
    /\ lock \in BOOLEAN
    /\ release \in Releases /\ fit \in BOOLEAN
    /\ blocks \in Seq([kind : {"own", "others"}, outer : {NoBlock, "kept", "refusing"}])
    /\ Len(blocks) <= MaxBlocks
    /\ holding \in {NoBlock, "kept", "refusing"}
    /\ ran \in BOOLEAN /\ cancelled \in BOOLEAN
    /\ enforced \in {"unasked", "yes", "no"} /\ asked \in BOOLEAN
    /\ auto \in BOOLEAN /\ home \in BOOLEAN
    /\ pc \in Awaiting \cup {"caller", "confirming", "switching", "restoring"}
    /\ text \in Texts \cup {NoText} /\ writes \in BOOLEAN
    /\ then \in {"answer", "raise", "stream"}
    /\ fresh \in BOOLEAN /\ slipped \subseteq {"interrupted", "streamed", "locked", "set"}

Nothing == [level \in 0..MaxBlocks |-> {}]

Init ==
    /\ tx = "idle" /\ guarded = FALSE /\ known = 0
    /\ pending = Nothing /\ outlived = {} /\ lock = FALSE
    /\ release \in Releases /\ fit \in BOOLEAN
    /\ blocks = <<>> /\ holding = NoBlock
    /\ ran = FALSE /\ cancelled = FALSE
    /\ enforced = "unasked" /\ asked = FALSE
    /\ home \in BOOLEAN /\ auto = home
    /\ pc = "caller" /\ text = NoText /\ writes = FALSE /\ then = "answer"
    /\ fresh = TRUE /\ slipped = {}

-----------------------------------------------------------------------------
(* The server's side.                                                      *)

Depth == Len(blocks)
AtTop == pc = "caller"
OpenHere == \E i \in 1..Depth : blocks[i].kind = "others"

(* What a transaction that commits leaves, and one that is rolled back.    *)
Committed == UNION {pending[level] : level \in 0..MaxBlocks}
Settled == /\ tx' = "idle" /\ guarded' = FALSE /\ known' = 0 /\ pending' = Nothing

(* BEGIN, which psycopg sends before a statement outside autocommit.       *)
Begun == IF tx = "idle" /\ ~auto THEN "open" ELSE tx

Refused(t) ==
    \/ Begun = "failed" \/ t.does = "second"
    \/ guarded /\ (t.does = "sqlWrite" \/ (t.does = "cypherWrite" /\ release.enforces))

Change(t) ==
    (IF t.does = "setting" THEN {"setting"} ELSE {})
      \cup (IF t.does \in {"cypherWrite", "sqlWrite"} THEN {"write"} ELSE {})

(* A text runs, or may fail of its own accord; what it did lasts at once    *)
(* where no transaction is open.                                           *)
Runs(t) ==
    /\ ~Refused(t)
    /\ lock' = (lock \/ t.does = "lock")
    /\ \/ /\ t.does = "ending" /\ Begun = "open"
          /\ Settled
          /\ outlived' = outlived \cup (Committed \ {"own"})
       \/ /\ t.does # "ending" \/ Begun = "idle"
          /\ tx' = Begun /\ UNCHANGED <<guarded, known>>
          /\ IF Begun = "open"
             THEN /\ pending' = [pending EXCEPT ![known] = @ \cup Change(t)]
                  /\ UNCHANGED outlived
             ELSE /\ outlived' = outlived \cup Change(t)
                  /\ UNCHANGED pending

Fails(t) ==
    /\ tx' = IF Begun = "idle" THEN "idle" ELSE "failed"
    /\ lock' \in {lock, lock \/ (t.does = "lock" /\ Begun # "failed")}
    /\ UNCHANGED <<guarded, known, pending, outlived>>

-----------------------------------------------------------------------------
(* Blocks.                                                                 *)
Gate == IF enforced # "unasked" THEN enforced = "yes" ELSE release.claims

Used == fresh' = FALSE

(* transaction(): BEGIN, or a savepoint inside another.                    *)
Opened == /\ tx' = "open" /\ known' = known + 1

OpenOwn ==
    /\ AtTop /\ Depth < MaxBlocks /\ tx # "failed" /\ known = Depth /\ Used
    /\ tx = "idle" <=> Depth = 0
    /\ Opened
    /\ blocks' = Append(blocks, [kind |-> "own", outer |-> holding])
    /\ UNCHANGED <<guarded, pending, outlived, lock, given, holding, marks, answers, auto, call, slipped>>

OwnWork ==
    /\ AtTop /\ Depth > 0 /\ ~OpenHere /\ tx = "open" /\ ~guarded /\ Used
    /\ pending' = [pending EXCEPT ![known] = @ \cup {"own"}]
    /\ UNCHANGED <<tx, guarded, known, outlived, lock, given, blocks, holding, marks, answers,
                   auto, call, slipped>>

(* read_only_transaction, and the snapshot that pins it.                   *)
OpenReadOnly ==
    /\ AtTop /\ Depth < MaxBlocks /\ tx # "failed" /\ known = Depth /\ Used
    /\ tx = "idle" <=> Depth = 0
    /\ Opened /\ guarded' = TRUE
    /\ blocks' = Append(blocks, [kind |-> "others", outer |-> holding])
    /\ holding' = IF Gate THEN "kept" ELSE "refusing"
    /\ UNCHANGED <<pending, outlived, lock, given, marks, answers, auto, call, slipped>>

(* _check_read_only_statement.                                             *)
Held(t) ==
    /\ t.seen => /\ t.does \notin {"second", "ending"}
                 /\ t.does = "cypherWrite" => holding # "refusing"

NotMarked == UNCHANGED ran
RanOthers == ran' = TRUE

(* Read as a subquery, a text can take a lock or change a setting but is    *)
(* no statement of its own: the server refuses the rest as it parses.      *)
InWrap(t) == t.does \in {"read", "setting", "lock"}

(* A result read in chunks inside the block (stream), as a subquery.  Its   *)
(* server-side cursor is psycopg's own class and marks nothing, whatever it *)
(* runs and however it ends.                                               *)
ReadInChunks(t) ==
    /\ AtTop /\ holding # NoBlock /\ tx = "open" /\ Used
    /\ InWrap(t)
    /\ Runs(t) \/ Fails(t)
    /\ slipped' = slipped \cup {how \in {"streamed"} : t.does = "lock"}
    /\ UNCHANGED <<given, blocks, holding, marks, answers, auto, call>>

(* A statement of the block through a cursor, and _check_read_only_kept.   *)
Statement(t) ==
    /\ AtTop /\ holding # NoBlock /\ Held(t) /\ Used
    /\ RanOthers
    /\ \/ Runs(t) /\ cancelled' = (cancelled \/ tx' = "idle")
       \/ Fails(t) /\ UNCHANGED cancelled
       \/ (Runs(t) \/ Fails(t)) /\ cancelled' = TRUE      \* interrupted
    /\ UNCHANGED <<given, blocks, holding, answers, auto, call, slipped>>

Inner == blocks[Depth]
ClosedForAll == blocks' = SubSeq(blocks, 1, Depth - 1) /\ holding' = NoBlock
Closed == blocks' = SubSeq(blocks, 1, Depth - 1) /\ holding' = Inner.outer

AllRolledBack == Settled

(* ROLLBACK, or ROLLBACK TO the block's own savepoint, if the server has it.*)
RolledBack ==
    \/ Depth = 1 /\ Settled
    \/ /\ Depth > 1 /\ known = Depth
       /\ tx' = "open" /\ known' = Depth - 1
       /\ pending' = [pending EXCEPT ![Depth] = {}]
       /\ guarded' = \E i \in 1..(Depth - 1) : blocks[i].kind = "others"
    \/ /\ Depth > 1 /\ known < Depth
       /\ tx' = IF tx = "idle" THEN "idle" ELSE "failed"
       /\ UNCHANGED <<guarded, known, pending>>

(* The block always ends by rolling back, whatever ended it.               *)
CloseReadOnly ==
    /\ AtTop /\ Depth > 0 /\ Inner.kind = "others" /\ Used
    /\ RolledBack /\ Closed
    /\ UNCHANGED <<outlived, lock, given, marks, answers, auto, call, slipped>>

Released ==
    \/ /\ Depth = 1 /\ tx # "failed" /\ outlived' = outlived \cup (Committed \ {"own"})
       /\ Settled
    \/ /\ Depth = 1 /\ tx = "failed" /\ UNCHANGED outlived
       /\ Settled
    \/ /\ Depth > 1 /\ known = Depth /\ tx = "open"
       /\ known' = Depth - 1
       /\ pending' = [pending EXCEPT ![Depth] = {}, ![Depth - 1] = @ \cup pending[Depth]]
       /\ UNCHANGED <<tx, guarded, outlived>>

CloseOwn ==
    /\ AtTop /\ Depth > 0 /\ Inner.kind = "own" /\ Used
    /\ \/ Released
       \/ RolledBack /\ UNCHANGED outlived
    /\ Closed
    /\ UNCHANGED <<lock, given, marks, answers, auto, call, slipped>>

(* read_only_is_enforced: asked in a transaction of its own, and kept only  *)
(* where the server answered.                                              *)
Probed(answer) ==
    \/ enforced # "unasked" /\ answer = (enforced = "yes") /\ UNCHANGED enforced
    \/ /\ enforced = "unasked" /\ tx # "idle"
       /\ answer = release.claims /\ UNCHANGED enforced
    \/ /\ enforced = "unasked" /\ tx = "idle"
       /\ \/ answer = release.enforces /\ enforced' = IF answer THEN "yes" ELSE "no"
          \/ answer = FALSE /\ UNCHANGED enforced           \* no graph, or the read refused

Probe ==
    /\ AtTop /\ Used
    /\ \E answer \in BOOLEAN : Probed(answer)
    /\ UNCHANGED <<server, given, blocks, holding, marks, asked, auto, call, slipped>>

-----------------------------------------------------------------------------
(* run_untrusted.                                                          *)
Goes(step) ==
    /\ pc' = step
    /\ IF step = "caller" THEN text' = NoText /\ writes' = FALSE ELSE UNCHANGED <<text, writes>>

(* check_untrusted: what it sees of a text it refuses, but for a read, and  *)
(* for a write where writes are allowed.                                   *)
Passes(t, allowed) == t.seen => t.does = "read" \/ (allowed /\ t.does = "cypherWrite")

Call(t, allowed) ==
    /\ AtTop /\ blocks = <<>> /\ tx = "idle" /\ Passes(t, allowed) /\ Used
    /\ pc' = "asking" /\ text' = t /\ writes' = allowed
    /\ UNCHANGED <<server, given, blocks, holding, marks, answers, auto, then, slipped>>

(* untrusted_role_problems, whose query is a statement like any other.     *)
AskRole(accepted) ==
    /\ pc = "asking"
    /\ tx' = IF asked THEN tx ELSE Begun
    /\ asked' = TRUE
    /\ Goes(IF fit \/ (accepted /\ Gate) THEN "confirming" ELSE "caller")
    /\ UNCHANGED <<guarded, known, pending, outlived, lock, given, blocks, holding, marks,
                   enforced, auto, then, fresh, slipped>>

Confirm ==
    /\ pc = "confirming"
    /\ \/ ~writes /\ Goes("switching") /\ UNCHANGED enforced
       \/ writes /\ ~release.claims /\ Goes("caller") /\ UNCHANGED enforced
       \/ /\ writes /\ release.claims
          /\ \E answer \in BOOLEAN :
                 Probed(answer) /\ Goes(IF answer THEN "switching" ELSE "caller")
    /\ UNCHANGED <<server, given, blocks, holding, marks, asked, auto, then, fresh, slipped>>

(* psycopg refuses to change autocommit inside a transaction.              *)
Switch(wrappable) ==
    /\ pc = "switching"
    /\ \/ /\ ~auto /\ tx # "idle" /\ Goes("caller") /\ UNCHANGED auto
       \/ /\ auto \/ tx = "idle"
          /\ auto' = TRUE
          /\ Goes(IF writes THEN "writing" ELSE IF wrappable THEN "wrapped" ELSE "opening")
    /\ UNCHANGED <<server, given, blocks, holding, marks, answers, then, fresh, slipped>>

(* begin read only; the limit; declare; fetch; rollback; unlock.           *)
RunWrapped ==
    /\ pc = "wrapped"
    /\ \/ /\ InWrap(text)
          /\ lock' = FALSE /\ Goes("restoring") /\ then' = "answer"
          /\ UNCHANGED tx
       \/ /\ tx' = "failed"                          \* and the rest of the pipeline is skipped
          /\ lock' \in {lock, text.does = "lock"}
          /\ Goes("cleaning") /\ then' = IF InWrap(text) THEN "raise" ELSE "stream"
    /\ UNCHANGED <<guarded, known, pending, outlived, given, blocks, holding, marks, answers,
                   auto, fresh, slipped>>

OpenStream ==
    /\ pc = "opening"
    /\ tx' = "open" /\ guarded' = TRUE
    /\ Goes("streaming")
    /\ UNCHANGED <<known, pending, outlived, lock, given, blocks, holding, marks, answers, auto,
                   then, fresh, slipped>>

(* The text as it was written, and the check that its transaction is open. *)
Stream ==
    /\ pc = "streaming"
    /\ \/ Runs(text) /\ then' = (IF tx' = "idle" THEN "raise" ELSE "answer")
                     /\ cancelled' = (cancelled \/ tx' = "idle")
       \/ Fails(text) /\ then' = "raise" /\ UNCHANGED cancelled
    /\ Goes("cleaning")
    /\ UNCHANGED <<given, blocks, holding, ran, answers, auto, fresh, slipped>>

(* _roll_back_and_unlock.                                                  *)
Cleaned == Settled /\ lock' = FALSE /\ UNCHANGED outlived

CleanUp ==
    /\ pc = "cleaning"
    /\ Cleaned
    /\ Goes(IF then = "stream" THEN "opening" ELSE "restoring")
    /\ UNCHANGED <<given, blocks, holding, marks, answers, auto, then, fresh, slipped>>

(* _untrusted_write: begun, run, and committed if the transaction is still  *)
(* open; rolled back if the text failed, or is more than one statement.    *)
(* No lock is returned, and a setting made for the session is committed    *)
(* with what was asked for.                                                *)
WroteUnchecked ==
    /\ text.does = "ending" /\ then' = "answer"
    /\ outlived' = outlived \cup {"split"} /\ UNCHANGED <<cancelled, lock>>

Split ==
    /\ text.does = "ending" /\ then' = "raise"
    /\ outlived' = outlived \cup {"split"} /\ cancelled' = TRUE /\ UNCHANGED lock

Write ==
    /\ pc = "writing"
    /\ \/ Split
       \/ /\ text.does \notin {"ending", "second"} /\ then' = "answer"
          /\ lock' = (lock \/ text.does = "lock")
          /\ outlived' = outlived \cup (Change(text) \ {"write"})
          /\ UNCHANGED cancelled
       \/ /\ then' = "raise"
          /\ lock' \in {lock, lock \/ text.does = "lock"}
          /\ UNCHANGED <<outlived, cancelled>>
    /\ slipped' = slipped \cup {how \in {"locked"} : text.does = "lock"}
                          \cup {how \in {"set"} : text.does = "setting"}
    /\ Goes("restoring")
    /\ UNCHANGED <<tx, guarded, known, pending, given, blocks, holding, ran, answers, auto, fresh>>

(* Autocommit put back as it was, and the columns compared: others than the *)
(* text's own mean that it left the wrap.                                  *)
Restore ==
    /\ pc = "restoring"
    /\ auto' = IF tx = "idle" THEN home ELSE auto
    /\ cancelled' \in {cancelled, cancelled \/ then = "answer"}
    /\ Goes("caller") /\ then' = "answer"
    /\ UNCHANGED <<server, given, blocks, holding, ran, answers, fresh, slipped>>

(* A cancellation arriving while the call waits.  A statement the driver    *)
(* sends through a cursor of its own is marked; a stream, the BEGIN of a    *)
(* block and the end of a pipeline are not.  Leaving, the call cleans up    *)
(* what it can.                                                            *)
InterruptMarked ==
    /\ cancelled' = TRUE
    /\ \/ pc = "asking" /\ tx' \in {tx, Begun} /\ Goes("caller") /\ UNCHANGED <<guarded, then>>
       \/ /\ pc = "opening" /\ tx' \in {"idle", "open"} /\ guarded' = (tx' = "open")
          /\ Goes("restoring") /\ then' = "raise"
       \/ pc = "cleaning" /\ Goes("restoring") /\ then' = "raise" /\ UNCHANGED <<tx, guarded>>
    /\ UNCHANGED <<known, pending, outlived, lock, slipped>>

InterruptStream ==
    /\ pc = "streaming"
    /\ Runs(text) \/ Fails(text)
    /\ Goes("cleaning") /\ then' = "raise"
    /\ UNCHANGED <<cancelled, slipped>>

InterruptWrapped ==
    /\ pc = "wrapped"
    /\ tx' \in {"idle", "failed"} /\ lock' \in {lock, lock \/ text.does = "lock"}
    /\ UNCHANGED outlived

(* The check that the transaction is still open is passed over with the    *)
(* rest: of a text that ended it nothing tells.                            *)
InterruptWrite ==
    /\ pc = "writing"
    /\ \/ tx' \in {"idle", "open"} /\ UNCHANGED <<lock, outlived>>     \* the BEGIN
       \/ /\ tx' = "idle" /\ lock' \in {lock, lock \/ text.does = "lock"}
          /\ outlived' = outlived \cup {split \in {"split"} : text.does = "ending"}

InterruptUnmarked ==
    /\ InterruptWrapped \/ InterruptWrite
    /\ cancelled' \in {cancelled, TRUE}
    /\ slipped' = slipped \cup {"interrupted"}
    /\ Goes("restoring") /\ then' = "raise"
    /\ UNCHANGED <<guarded, known, pending>>

Interrupt ==
    /\ InterruptMarked \/ InterruptStream \/ InterruptUnmarked
    /\ UNCHANGED <<given, blocks, holding, ran, answers, auto, fresh>>

-----------------------------------------------------------------------------
(* The pool: rolled back, looked over, unlocked, and lent again.           *)
Unlocked == lock' = IF ran THEN FALSE ELSE lock

Lend ==
    /\ AtTop /\ blocks = <<>> /\ ~fresh /\ ~cancelled
    /\ Settled /\ Unlocked /\ ran' = FALSE
    /\ outlived' = outlived
    /\ fresh' = TRUE
    /\ UNCHANGED <<given, blocks, holding, cancelled, answers, auto, call, slipped>>

(* One not to be used again is closed, and another made in its place.      *)
Replace ==
    /\ AtTop /\ blocks = <<>> /\ cancelled
    /\ Settled /\ lock' = FALSE /\ outlived' = {}
    /\ ran' = FALSE /\ cancelled' = FALSE /\ enforced' = "unasked" /\ asked' = FALSE
    /\ auto' = home /\ fresh' = TRUE /\ slipped' = {}
    /\ UNCHANGED <<given, blocks, holding, call>>

Next ==
    \/ OpenOwn \/ OwnWork \/ OpenReadOnly \/ CloseReadOnly \/ CloseOwn \/ Probe
    \/ \E t \in Texts : Statement(t) \/ ReadInChunks(t) \/ \E allowed \in BOOLEAN : Call(t, allowed)
    \/ \E accepted \in BOOLEAN : AskRole(accepted)
    \/ Confirm \/ \E wrappable \in BOOLEAN : Switch(wrappable)
    \/ RunWrapped \/ OpenStream \/ Stream \/ CleanUp \/ Write \/ Restore \/ Interrupt
    \/ Lend \/ Replace

Spec == Init /\ [][Next]_vars

-----------------------------------------------------------------------------
(* Properties.                                                             *)

(* Nothing a text did -- a write, a setting, an end to its transaction --   *)
(* outlasts the transaction it ran in unless the connection is marked, so   *)
(* that the pool closes it (_boundary_lost).  Two things the code does not  *)
(* mark: an end to the transaction of an allowed write whose pipeline was   *)
(* cancelled at its end, and a setting that such a write commits with what  *)
(* it was allowed.                                                         *)
Unmarked ==
    (IF "interrupted" \in slipped THEN {"split"} ELSE {})
      \cup (IF "set" \in slipped THEN {"setting"} ELSE {})

BoundaryKept == outlived \subseteq Unmarked \/ cancelled

(* The next borrower finds no transaction, no block, nothing outlived, no   *)
(* lock and autocommit as the application set it (_reset,                  *)
(* _roll_back_and_unlock).  What the code does not mark, each for what it   *)
(* leaves and no more: a lock, where a result was read in chunks inside a   *)
(* read-only block, where an allowed write took it, and where a pipeline    *)
(* was cancelled at its end, which may leave autocommit on as well.        *)
NextStartsClean ==
    fresh =>
        /\ tx = "idle" /\ blocks = <<>> /\ holding = NoBlock
        /\ outlived \subseteq Unmarked
        /\ lock => slipped \cap {"streamed", "locked", "interrupted"} # {}
        /\ auto # home => "interrupted" \in slipped

(* While a read-only block is open, the transaction its statements run in   *)
(* is one the server holds read-only, or the connection is marked; and one  *)
(* whose blocks are all the caller's own can write again.                   *)
HeldByTheServer ==
    AtTop /\ ~cancelled /\ Depth > 0 =>
        /\ (holding # NoBlock) = OpenHere
        /\ tx # "idle" /\ guarded = OpenHere

(* A text that may write runs only on a server that checks what it writes.  *)
WritesWhereChecked == pc = "writing" => release.enforces

(* What the reading of a text cannot tell, the server holds it to.         *)
TheServerDecides == HeldByTheServer /\ WritesWhereChecked

(* The end of a read-only block leaves what the transaction around it did   *)
(* to that transaction's own decision.                                     *)
OuterDecides ==
    [][\A level \in 1..MaxBlocks :
          "own" \in pending[level] /\ "own" \notin UNION {pending'[l] : l \in 0..MaxBlocks}
              => Depth > 0 /\ (Inner.kind = "own" \/ cancelled')]_vars
=============================================================================
