------------------------------ MODULE PoolCheck ------------------------------
(***************************************************************************)
(* When the pool tests a connection before lending it: _check, the two     *)
(* times it compares, and where connection() learns that the server may    *)
(* have gone away (pool_async.py, and pool.py generated from it).          *)
(*                                                                         *)
(* A server restart kills every connection made before it, and nobody is   *)
(* told: a client meets it when it next sends something.  Time is a clock  *)
(* of ticks; check_after_idle is CheckAfter of them.  A borrow may carry a *)
(* deadline or not, be in autocommit or not, and send what it likes when   *)
(* it likes: between its last answer and the return of its connection, and *)
(* again between the return and the worker's stamp, any time may pass.     *)
(***************************************************************************)
EXTENDS Integers

CONSTANTS Conns, Borrowers, NoConn,
          CheckAfter,    \* check_after_idle, in ticks
          MaxTime,       \* bound: ticks
          MaxEpoch       \* bound: server restarts

ASSUME PoolCheckAssumption ==
    /\ NoConn \notin Conns
    /\ CheckAfter \in Nat \ {0}
    /\ MaxTime \in Nat /\ MaxEpoch \in Nat

VARIABLES
    now,         \* time.monotonic()
    epoch,       \* how often the server restarted
    until,       \* pool._check_every_borrow_until
    place,       \* "new", "idle", "out", or "returning" to a worker
    born,        \* the epoch the connection's session belongs to
    returnedAt,  \* conn._agens_returned_at; before time began for a new one
    late,        \* connections that were out or returning when the last failure
                 \* was noticed and have had no answer since (history)
    pc, has,     \* each borrower's step and connection
    noticed,     \* the last restart before the failure that opened the window
                 \* (history)
    knew         \* what was known when a borrower took its connection (history):
                 \* noticed, and warned: the restart the window is open for

connVars == <<place, born, returnedAt, late>>
vars == <<now, epoch, until, connVars, pc, has, noticed, knew>>

Never == -CheckAfter

(* Types; and the window closes at most check_after_idle from now.         *)
TypeOK ==
    /\ now \in 0..MaxTime /\ epoch \in 0..MaxEpoch
    /\ until \in Nat /\ until <= now + CheckAfter
    /\ place \in [Conns -> {"new", "idle", "out", "returning"}]
    /\ born \in [Conns -> 0..MaxEpoch]
    /\ returnedAt \in [Conns -> {Never} \cup 0..MaxTime]
    /\ late \subseteq Conns
    /\ pc \in [Borrowers -> {"idle", "checking", "taken", "holding", "exiting"}]
    /\ has \in [Borrowers -> Conns \cup {NoConn}]
    /\ noticed \in 0..MaxEpoch
    /\ knew \in [Borrowers -> [noticed : 0..MaxEpoch, warned : 0..MaxEpoch]]

Init ==
    /\ now = 0 /\ epoch = 0 /\ until = 0
    /\ place = [c \in Conns |-> "new"]
    /\ born = [c \in Conns |-> 0]
    /\ returnedAt = [c \in Conns |-> Never]
    /\ late = {}
    /\ pc = [b \in Borrowers |-> "idle"]
    /\ has = [b \in Borrowers |-> NoConn]
    /\ noticed = 0
    /\ knew = [b \in Borrowers |-> [noticed |-> 0, warned |-> 0]]

Alive(c) == born[c] = epoch

-----------------------------------------------------------------------------
Tick ==
    /\ now < MaxTime
    /\ now' = now + 1
    /\ UNCHANGED <<epoch, until, connVars, pc, has, noticed, knew>>

Restart ==
    /\ epoch < MaxEpoch
    /\ epoch' = epoch + 1
    /\ UNCHANGED <<now, until, connVars, pc, has, noticed, knew>>

(* A worker makes a connection, and replaces one that was closed.          *)
Connect(c) ==
    /\ place[c] = "new"
    /\ place' = [place EXCEPT ![c] = "idle"]
    /\ born' = [born EXCEPT ![c] = epoch]
    /\ returnedAt' = [returnedAt EXCEPT ![c] = Never]
    /\ late' = late \ {c}
    /\ UNCHANGED <<now, epoch, until, pc, has, noticed, knew>>

(* The decision in _check: fresh, and no failure lately.                   *)
SkipCheck(c) == now >= until /\ now - returnedAt[c] < CheckAfter

Take(b, c) ==
    /\ pc[b] = "idle" /\ place[c] = "idle"
    /\ place' = [place EXCEPT ![c] = "out"]
    /\ has' = [has EXCEPT ![b] = c]
    /\ pc' = [pc EXCEPT ![b] = IF SkipCheck(c) THEN "taken" ELSE "checking"]
    /\ knew' = [knew EXCEPT ![b] = [noticed |-> noticed,
                                    warned |-> IF now < until THEN noticed ELSE 0]]
    /\ UNCHANGED <<now, epoch, until, born, returnedAt, late, noticed>>

(* The server answers a statement on the connection.                       *)
Answered(c) ==
    /\ Alive(c)
    /\ late' = late \ {c}

CheckPasses(b) ==
    /\ pc[b] = "checking"
    /\ Answered(has[b])
    /\ pc' = [pc EXCEPT ![b] = "taken"]
    /\ UNCHANGED <<now, epoch, until, place, born, returnedAt, has, noticed, knew>>

(* The borrower lets go of a connection that is closed and replaced.       *)
Lose(b) ==
    /\ place' = [place EXCEPT ![has[b]] = "new"]
    /\ pc' = [pc EXCEPT ![b] = "idle"]
    /\ has' = [has EXCEPT ![b] = NoConn]
    /\ UNCHANGED <<now, epoch, born, returnedAt, knew>>

(* psycopg takes another: no caller hears of it.                           *)
CheckFails(b) ==
    /\ pc[b] = "checking" /\ ~Alive(has[b])
    /\ Lose(b)
    /\ UNCHANGED <<until, late, noticed>>

(* _prepare sends a statement if the budget asks for a limit other than    *)
(* the one the connection carries.                                         *)
Prepare(b) ==
    /\ pc[b] = "taken"
    /\ Answered(has[b])
    /\ pc' = [pc EXCEPT ![b] = "holding"]
    /\ UNCHANGED <<now, epoch, until, place, born, returnedAt, has, noticed, knew>>

PrepareSendsNothing(b) ==
    /\ pc[b] = "taken"
    /\ pc' = [pc EXCEPT ![b] = "holding"]
    /\ UNCHANGED <<now, epoch, until, connVars, has, noticed, knew>>

(* Raised to the caller from before the inner try: its finally never runs. *)
PrepareFails(b) ==
    /\ pc[b] = "taken" /\ ~Alive(has[b])
    /\ Lose(b)
    /\ UNCHANGED <<until, late, noticed>>

(* What the inner finally does on finding the connection broken.           *)
WindowShort == now + CheckAfter - 1
WindowOpened == now + CheckAfter

(* A statement in the block is answered.                                   *)
Work(b) ==
    /\ pc[b] = "holding"
    /\ Answered(has[b])
    /\ UNCHANGED <<now, epoch, until, place, born, returnedAt, pc, has, noticed, knew>>

(* A statement in the block meets the restart, the connection breaks for   *)
(* another reason, or the watchdog gives it up.                            *)
WorkFails(b) ==
    /\ pc[b] = "holding"
    /\ Lose(b)
    /\ until' = WindowOpened
    /\ noticed' = epoch
    /\ late' = {c \in Conns \ {has[b]} : place[c] \in {"out", "returning"}}

(* psycopg's putconn: a worker will see to it.                             *)
GiveBack(b) ==
    /\ place' = [place EXCEPT ![has[b]] = "returning"]
    /\ pc' = [pc EXCEPT ![b] = "idle"]
    /\ has' = [has EXCEPT ![b] = NoConn]
    /\ UNCHANGED <<now, epoch, until, born, returnedAt, noticed, knew>>

(* The block ends, however long ago the last answer came, if there was one.*)
EndBlock(b) ==
    /\ pc[b] = "holding"
    /\ GiveBack(b)
    /\ UNCHANGED late

(* Outside autocommit the block ends with psycopg's COMMIT.                *)
EndUncommitted(b) ==
    /\ pc[b] = "holding"
    /\ pc' = [pc EXCEPT ![b] = "exiting"]
    /\ UNCHANGED <<now, epoch, until, connVars, has, noticed, knew>>

CommitAnswered(b) ==
    /\ pc[b] = "exiting"
    /\ Answered(has[b])
    /\ GiveBack(b)

(* psycopg's commit runs after the inner finally has looked.               *)
CommitFails(b) ==
    /\ pc[b] = "exiting" /\ ~Alive(has[b])
    /\ Lose(b)
    /\ UNCHANGED <<until, late, noticed>>

(* _reset: stamped by the worker, which talks to the server first if text  *)
(* from elsewhere ran or the caller gave a hook.                           *)
Reset(c) ==
    /\ place[c] = "returning"
    /\ UNCHANGED late \/ Answered(c)
    /\ place' = [place EXCEPT ![c] = "idle"]
    /\ returnedAt' = [returnedAt EXCEPT ![c] = now]
    /\ UNCHANGED <<now, epoch, until, born, pc, has, noticed, knew>>

ResetFails(c) ==
    /\ place[c] = "returning" /\ ~Alive(c)
    /\ place' = [place EXCEPT ![c] = "new"]
    /\ UNCHANGED <<now, epoch, until, born, returnedAt, late, pc, has, noticed, knew>>

-----------------------------------------------------------------------------
(* check() passes through to psycopg, which runs its own check on each     *)
(* idle connection, not the hook: nobody raised the flag (GivenBackRefused *)
(* in Pool), so _check_lent refuses the statement whether or not the       *)
(* server would answer, and psycopg replaces the connection.               *)
CheckAll(c) ==
    /\ place[c] = "idle"
    /\ place' = [place EXCEPT ![c] = "new"]
    /\ UNCHANGED <<now, epoch, until, born, returnedAt, late, pc, has, noticed, knew>>

Next ==
    \/ Tick \/ Restart
    \/ \E c \in Conns : Connect(c) \/ Reset(c) \/ ResetFails(c) \/ CheckAll(c)
    \/ \E b \in Borrowers :
          \/ \E c \in Conns : Take(b, c)
          \/ CheckPasses(b) \/ CheckFails(b)
          \/ Prepare(b) \/ PrepareSendsNothing(b) \/ PrepareFails(b)
          \/ Work(b) \/ WorkFails(b) \/ EndBlock(b)
          \/ EndUncommitted(b) \/ CommitAnswered(b) \/ CommitFails(b)

Spec == Init /\ [][Next]_vars

-----------------------------------------------------------------------------
Served == {"taken", "holding"}

(* One failure is enough: once a failure has opened the window, no         *)
(* connection from before the last restart is handed to anybody - not      *)
(* while the window is open, and not after it, when a fresh return is      *)
(* trusted again.  Except one that was out, or on its way to the worker,   *)
(* when the failure was noticed, and on which the server has answered      *)
(* nothing since: its stamp is put on after the notice, so it passes for   *)
(* fresh, whether its borrower sent nothing or was answered before the     *)
(* restart and returned it later.                                          *)
NoticedOnce ==
    \A b \in Borrowers :
        pc[b] \in Served => born[has[b]] >= knew[b].noticed \/ has[b] \in late

(* While the window is open no connection from before the restart that     *)
(* opened it is handed over, however its last borrower returned it.        *)
WarnedOnce ==
    \A b \in Borrowers : pc[b] \in Served => born[has[b]] >= knew[b].warned

(* A restart is met once, but for the connections that were in somebody's  *)
(* hands at the time: the failure that noticed it keeps every session that *)
(* died with it and was waiting in the pool from the borrowers that        *)
(* follow, in the window and for ever after.                               *)
OneFailureIsEnough == NoticedOnce /\ WarnedOnce

=============================================================================
