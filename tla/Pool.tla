-------------------------------- MODULE Pool --------------------------------
(***************************************************************************)
(* Lending connections: AsyncConnectionPool (pool_async.py) and the        *)
(* blocking ConnectionPool generated from it (pool.py).                    *)
(*                                                                         *)
(* psycopg_pool does the keeping (external: a queue of idle connections,   *)
(* worker tasks that make, reset and replace them).  The driver adds four  *)
(* hooks and a block of its own around psycopg's block:                    *)
(*   _configure stamps a new connection with the generation in force,      *)
(*   _check     may test one before it is handed over,                     *)
(*   connection() marks it lent, refuses an older generation, prepares it, *)
(*   _reset     decides on the worker whether a returned one is kept.      *)
(* The flag _agens_lent is what _check_lent consults on every use.         *)
(*                                                                         *)
(* Threads = FALSE is the awaiting pool: what runs between two awaits is   *)
(* one step, so giving a connection back and the `finally` that clears its *)
(* flag are one step.  Threads = TRUE is the blocking pool: the worker     *)
(* thread may reset and re-lend the connection between the two.            *)
(*                                                                         *)
(* Whether a check is skipped is a matter of the clock; here it may be     *)
(* skipped or not on any borrow, and PoolCheck models the decision.        *)
(***************************************************************************)
EXTENDS Integers, FiniteSets

CONSTANTS Conns,      \* the connections psycopg's pool can hold at once
          Borrowers,  \* callers of pool.connection()
          NoConn,     \* "holds none"
          MinSize,    \* psycopg keeps at least this many
          MaxSizes,   \* the max_size values resize() may set; the first is in Init
          MaxGen,     \* bound: how often invalidate() is called
          Threads,    \* TRUE: pool.py, FALSE: pool_async.py
          UserReset   \* TRUE: the caller gave a reset hook

ASSUME PoolAssumption ==
    /\ IsFiniteSet(Conns)
    /\ NoConn \notin Conns
    /\ MinSize \in Nat
    /\ MaxSizes \subseteq Nat \ {0}
    /\ MaxGen \in Nat
    /\ Threads \in BOOLEAN
    /\ UserReset \in BOOLEAN

VARIABLES
    generation,  \* pool._generation
    maxSize,     \* psycopg's max_size
    place,       \* where each connection is
    stamp,       \* conn._agens_generation
    lent,        \* connections with _agens_lent set
    cancelled,   \* connections with _agens_cancelled set
    ranOthers,   \* connections with _agens_ran_others_text set
    locked,      \* connections whose server session holds an advisory lock
    lockUnseen,  \* those on which one was taken that no mark tells of (history)
    cutUnseen,   \* those with a statement cut off and no mark set (history)
    shut,        \* connections closed or broken on the client's side
    pc,          \* where each borrower is in connection()
    has,         \* the connection it was given by psycopg
    asked,       \* the generation when it asked, 0 out of a call (history)
    left         \* iterations left of `for _ in range(max_size + 1)`, 0 outside it

residue  == <<locked, lockUnseen, cutUnseen>>
connVars == <<place, stamp, lent, cancelled, ranOthers, residue, shut>>
callVars == <<pc, has, asked, left>>
vars     == <<generation, maxSize, connVars, callVars>>

(* "none": no such connection.  "new": being made by a worker.             *)
(* "configuring": in _configure.  "idle": in psycopg's queue.              *)
(* "out": given to a borrower.  "returning": waiting for a worker.         *)
(* "resetting": in _reset, a hook is talking to the server.                *)
Places == {"none", "new", "configuring", "idle", "out", "returning", "resetting"}

Steps == {"idle", "asking", "checking", "taken", "preparing", "holding",
          "leaving", "clearing", "stale"}

Held == {c \in Conns : place[c] # "none"}

(* Types; and the loop of connection() goes round at most max_size + 1     *)
(* times.                                                                  *)
TypeOK ==
    /\ generation \in 0..MaxGen
    /\ maxSize \in MaxSizes
    /\ place \in [Conns -> Places]
    /\ stamp \in [Conns -> 0..MaxGen]
    /\ lent \subseteq Conns /\ cancelled \subseteq Conns
    /\ ranOthers \subseteq Conns /\ shut \subseteq Conns
    /\ locked \subseteq Conns /\ lockUnseen \subseteq Conns /\ cutUnseen \subseteq Conns
    /\ pc \in [Borrowers -> Steps]
    /\ has \in [Borrowers -> Conns \cup {NoConn}]
    /\ asked \in [Borrowers -> 0..MaxGen]
    /\ left \in [Borrowers -> Nat]
    /\ \A b \in Borrowers : \E m \in MaxSizes : left[b] <= m + 1

Init ==
    /\ generation = 0
    /\ maxSize \in {m \in MaxSizes : \A n \in MaxSizes : n <= m}
    /\ \E first \in SUBSET Conns :
          /\ Cardinality(first) = MinSize
          /\ place = [c \in Conns |-> IF c \in first THEN "new" ELSE "none"]
    /\ stamp = [c \in Conns |-> 0]
    /\ lent = {} /\ cancelled = {} /\ ranOthers = {} /\ shut = {}
    /\ locked = {} /\ lockUnseen = {} /\ cutUnseen = {}
    /\ pc = [b \in Borrowers |-> "idle"]
    /\ has = [b \in Borrowers |-> NoConn]
    /\ asked = [b \in Borrowers |-> 0]
    /\ left = [b \in Borrowers |-> 0]

(* The flag as `conn._agens_lent = True` and the final `= False` leave it. *)
NoMark(b) == lent
Marked(b) == lent \cup {has[b]}
NoUnmark(b) == lent
Unmarked(b) == lent \ {has[b]}

(* psycopg's putconn, as the end of its block runs it.                     *)
NotGivenBack(b) == place
GivenBack(b) == [place EXCEPT ![has[b]] = "returning"]

(* `conn._agens_generation != self._generation`, and how often it is met.  *)
AnyGeneration(b) == TRUE
Current(b) == stamp[has[b]] = generation
OneTryFewer == maxSize
Tries == maxSize + 1

(* A statement is cut off, and the connection marked or not: only execute  *)
(* and executemany of the driver's own cursor mark it.  A COPY, a row at a *)
(* time, a server-side cursor and the end of a pipeline do not.            *)
CutOff(b) ==
    \/ cancelled' = cancelled \cup {has[b]} /\ cutUnseen' = cutUnseen \ {has[b]}
    \/ cutUnseen' = cutUnseen \cup ({has[b]} \ cancelled) /\ UNCHANGED cancelled

(* What _reset refuses, and what it has to talk to the server for.         *)
Unfit(c) == c \in shut \/ c \in cancelled \/ stamp[c] # generation
CallersHookOnly(c) == UserReset
NeedsHook(c) == c \in ranOthers \/ UserReset

-----------------------------------------------------------------------------
(* psycopg's side: making, replacing and shrinking.                        *)

(* A connection is closed and a worker told to make another in its place.  *)
(* The object is gone: nobody's handle on it reaches the next one.         *)
Discard(c) ==
    /\ place' = [place EXCEPT ![c] = "new"]
    /\ lent' = lent \ {c}
    /\ cancelled' = cancelled \ {c}
    /\ ranOthers' = ranOthers \ {c}
    /\ locked' = locked \ {c}
    /\ lockUnseen' = lockUnseen \ {c}
    /\ cutUnseen' = cutUnseen \ {c}
    /\ shut' = shut \ {c}
    /\ has' = [b \in Borrowers |-> IF has[b] = c THEN NoConn ELSE has[b]]
    /\ UNCHANGED <<generation, maxSize, stamp, pc, asked, left>>

(* psycopg grows when somebody waits and shrinks after max_idle.           *)
Grow(c) ==
    /\ place[c] = "none"
    /\ Cardinality(Held) < maxSize
    /\ \E b \in Borrowers : pc[b] = "asking"
    /\ place' = [place EXCEPT ![c] = "new"]
    /\ UNCHANGED <<generation, maxSize, stamp, lent, cancelled, ranOthers, residue, shut, callVars>>

Shrink(c) ==
    /\ place[c] = "idle"
    /\ Cardinality(Held) > MinSize
    /\ place' = [place EXCEPT ![c] = "none"]
    /\ lent' = lent \ {c}
    /\ locked' = locked \ {c}
    /\ lockUnseen' = lockUnseen \ {c}
    /\ cutUnseen' = cutUnseen \ {c}
    /\ has' = [b \in Borrowers |-> IF has[b] = c THEN NoConn ELSE has[b]]
    /\ UNCHANGED <<generation, maxSize, stamp, cancelled, ranOthers, shut, pc, asked, left>>

(* _configure: stamped first, then set up with the flag raised.            *)
Configure(c) ==
    /\ place[c] = "new"
    /\ place' = [place EXCEPT ![c] = "configuring"]
    /\ stamp' = [stamp EXCEPT ![c] = generation]
    /\ lent' = lent \cup {c}
    /\ UNCHANGED <<generation, maxSize, cancelled, ranOthers, residue, shut, callVars>>

Configured(c) ==
    /\ place[c] = "configuring"
    /\ place' = [place EXCEPT ![c] = "idle"]
    /\ lent' = lent \ {c}
    /\ UNCHANGED <<generation, maxSize, stamp, cancelled, ranOthers, residue, shut, callVars>>

ConfigureFails(c) ==
    /\ place[c] = "configuring"
    /\ Discard(c)

-----------------------------------------------------------------------------
(* pool.connection()                                                       *)

Ask(b) ==
    /\ pc[b] = "idle"
    /\ pc' = [pc EXCEPT ![b] = "asking"]
    /\ asked' = [asked EXCEPT ![b] = generation]
    /\ left' = [left EXCEPT ![b] = Tries]
    /\ UNCHANGED <<generation, maxSize, connVars, has>>

(* PoolTimeout, Expired, or the caller cancelled while it waits.           *)
GiveUp(b) ==
    /\ pc[b] = "asking"
    /\ pc' = [pc EXCEPT ![b] = "idle"]
    /\ left' = [left EXCEPT ![b] = 0]
    /\ asked' = [asked EXCEPT ![b] = 0]
    /\ UNCHANGED <<generation, maxSize, connVars, has>>

(* psycopg takes an idle connection and calls _check, which either returns *)
(* at once or raises the flag and sends an empty statement.                *)
Take(b, c) ==
    /\ pc[b] = "asking"
    /\ place[c] = "idle"
    /\ place' = [place EXCEPT ![c] = "out"]
    /\ has' = [has EXCEPT ![b] = c]
    /\ \/ /\ pc' = [pc EXCEPT ![b] = "taken"]
          /\ UNCHANGED lent
       \/ /\ pc' = [pc EXCEPT ![b] = "checking"]
          /\ lent' = lent \cup {c}
    /\ UNCHANGED <<generation, maxSize, stamp, cancelled, ranOthers, residue, shut, asked, left>>

CheckPasses(b) ==
    /\ pc[b] = "checking"
    /\ has[b] \in lent
    /\ lent' = lent \ {has[b]}
    /\ pc' = [pc EXCEPT ![b] = "taken"]
    /\ UNCHANGED <<generation, maxSize, place, stamp, cancelled, ranOthers, residue, shut,
                   has, asked, left>>

(* The check raised: psycopg closes the connection, gives it back to be    *)
(* replaced, and the borrower waits for another.                           *)
CheckFails(b) ==
    /\ pc[b] = "checking"
    /\ lent' = lent \ {has[b]}
    /\ shut' = shut \cup {has[b]}
    /\ place' = GivenBack(b)
    /\ pc' = [pc EXCEPT ![b] = "asking"]
    /\ has' = [has EXCEPT ![b] = NoConn]
    /\ UNCHANGED <<generation, maxSize, stamp, cancelled, ranOthers, residue, asked, left>>

(* Marked, then tested.  `continue` leaves psycopg's block, which gives    *)
(* the connection back with the flag still up; its reset closes it.  (The  *)
(* flag of the last one rejected comes down when the call ends, which      *)
(* nobody sees: it is condemned.)                                          *)
Accept(b) ==
    /\ pc[b] = "taken"
    /\ Current(b)
    /\ lent' = Marked(b)
    /\ pc' = [pc EXCEPT ![b] = "preparing"]
    /\ left' = [left EXCEPT ![b] = 0]
    /\ UNCHANGED <<generation, maxSize, place, stamp, cancelled, ranOthers, residue, shut,
                   has, asked>>

Reject(b) ==
    /\ pc[b] = "taken"
    /\ ~Current(b)
    /\ lent' = Marked(b)
    /\ place' = GivenBack(b)
    /\ has' = [has EXCEPT ![b] = NoConn]
    /\ left' = [left EXCEPT ![b] = @ - 1]
    /\ pc' = [pc EXCEPT ![b] = IF left[b] = 1 THEN "stale" ELSE "asking"]
    /\ UNCHANGED <<generation, maxSize, stamp, cancelled, ranOthers, residue, shut, asked>>

(* The caller sees StaleGeneration.for_pool.                               *)
RaiseStale(b) ==
    /\ pc[b] = "stale"
    /\ pc' = [pc EXCEPT ![b] = "idle"]
    /\ asked' = [asked EXCEPT ![b] = 0]
    /\ UNCHANGED <<generation, maxSize, connVars, has, left>>

(* _prepare: a statement on the connection, so it must not be refused.     *)
Prepare(b) ==
    /\ pc[b] = "preparing"
    /\ has[b] \in lent
    /\ pc' = [pc EXCEPT ![b] = "holding"]
    /\ UNCHANGED <<generation, maxSize, connVars, has, asked, left>>

(* Out of budget, refused, a setup hook that raised, a broken connection,  *)
(* or the caller cancelled in the middle of the statement.                 *)
PrepareFails(b) ==
    /\ pc[b] = "preparing"
    /\ pc' = [pc EXCEPT ![b] = "leaving"]
    /\ \/ UNCHANGED <<shut, cancelled, cutUnseen>>
       \/ shut' = shut \cup {has[b]} /\ UNCHANGED <<cancelled, cutUnseen>>
       \/ CutOff(b) /\ UNCHANGED shut
    /\ UNCHANGED <<generation, maxSize, place, stamp, lent, ranOthers, locked, lockUnseen,
                   has, asked, left>>

-----------------------------------------------------------------------------
(* What a holder may do with the connection.                               *)

(* A read-only block sends text from elsewhere through a cursor of this    *)
(* driver's, which marks it: the text may take a session lock, which the   *)
(* rollback that ends the block leaves in place.                           *)
RunOthersText(b) ==
    /\ pc[b] = "holding"
    /\ has[b] \in lent \ shut
    /\ ranOthers' = ranOthers \cup {has[b]}
    /\ locked' \in {locked, locked \cup {has[b]}}
    /\ UNCHANGED <<generation, maxSize, place, stamp, lent, cancelled, lockUnseen, cutUnseen,
                   shut, callVars>>

(* A session lock is taken by a statement no mark tells of: text read with *)
(* stream(), whose server-side cursor is psycopg's own and asks nothing of *)
(* the block; an allowed write of run_untrusted; the caller's own SQL.     *)
LockUnseen(b) ==
    /\ pc[b] = "holding"
    /\ has[b] \in lent \ shut
    /\ locked' = locked \cup {has[b]}
    /\ lockUnseen' = lockUnseen \cup {has[b]}
    /\ UNCHANGED <<generation, maxSize, place, stamp, lent, cancelled, ranOthers, cutUnseen,
                   shut, callVars>>

(* A statement is cancelled from outside (asyncio, a keyboard interrupt);  *)
(* the caller may catch that and carry on in the block.                    *)
Interrupt(b) ==
    /\ pc[b] = "holding"
    /\ has[b] \in lent \ shut
    /\ CutOff(b)
    /\ UNCHANGED <<generation, maxSize, place, stamp, lent, ranOthers, locked, lockUnseen, shut,
                   callVars>>

(* The connection breaks, or the watchdog gave it up and it is closed.     *)
Break(b) ==
    /\ pc[b] = "holding"
    /\ shut' = shut \cup {has[b]}
    /\ UNCHANGED <<generation, maxSize, place, stamp, lent, cancelled, ranOthers, residue,
                   callVars>>

EndBlock(b) ==
    /\ pc[b] = "holding"
    /\ pc' = [pc EXCEPT ![b] = "leaving"]
    /\ UNCHANGED <<generation, maxSize, connVars, has, asked, left>>

(* psycopg's block ends: commit or rollback through this driver's          *)
(* overrides, then putconn queues the connection for a worker.  If the     *)
(* flag is down both are refused, and an open transaction is then the      *)
(* worker's to roll back, which is refused too, so the connection closes.  *)
(* It closes one that is still in the middle of a statement as well, which *)
(* one that was cut off may be.                                            *)
Leave(b) ==
    /\ pc[b] = "leaving"
    /\ place' = GivenBack(b)
    /\ \/ UNCHANGED shut
       \/ /\ has[b] \notin lent \/ has[b] \in cancelled \cup cutUnseen
          /\ shut' = shut \cup {has[b]}
    /\ asked' = [asked EXCEPT ![b] = 0]
    /\ IF Threads
       THEN /\ pc' = [pc EXCEPT ![b] = "clearing"]
            /\ UNCHANGED <<lent, has>>
       ELSE /\ pc' = [pc EXCEPT ![b] = "idle"]
            /\ lent' = Unmarked(b)
            /\ has' = [has EXCEPT ![b] = NoConn]
    /\ UNCHANGED <<generation, maxSize, stamp, cancelled, ranOthers, residue, left>>

(* `finally: lent._agens_lent = False`, in the caller's own thread.        *)
ClearLent(b) ==
    /\ pc[b] = "clearing"
    /\ pc' = [pc EXCEPT ![b] = "idle"]
    /\ lent' = Unmarked(b)
    /\ has' = [has EXCEPT ![b] = NoConn]
    /\ UNCHANGED <<generation, maxSize, place, stamp, cancelled, ranOthers, residue, shut,
                   asked, left>>

-----------------------------------------------------------------------------
(* _reset, on a worker.  Raising is how a connection is discarded.         *)

ResetDiscards(c) ==
    /\ place[c] = "returning"
    /\ Unfit(c)
    /\ Discard(c)

ResetKeeps(c) ==
    /\ place[c] = "returning"
    /\ ~Unfit(c)
    /\ ~NeedsHook(c)
    /\ place' = [place EXCEPT ![c] = "idle"]
    /\ UNCHANGED <<generation, maxSize, stamp, lent, cancelled, ranOthers, residue, shut, callVars>>

(* _roll_back_and_unlock and the caller's reset hook run with the flag up. *)
ResetHook(c) ==
    /\ place[c] = "returning"
    /\ ~Unfit(c)
    /\ NeedsHook(c)
    /\ place' = [place EXCEPT ![c] = "resetting"]
    /\ lent' = lent \cup {c}
    /\ UNCHANGED <<generation, maxSize, stamp, cancelled, ranOthers, residue, shut, callVars>>

ResetHookDone(c) ==
    /\ place[c] = "resetting"
    /\ c \in lent
    /\ IF c \in ranOthers
       THEN locked' = locked \ {c} /\ lockUnseen' = lockUnseen \ {c}
       ELSE UNCHANGED <<locked, lockUnseen>>
    /\ ranOthers' = ranOthers \ {c}
    /\ lent' = lent \ {c}
    /\ place' = [place EXCEPT ![c] = "idle"]
    /\ UNCHANGED <<generation, maxSize, stamp, cancelled, cutUnseen, shut, callVars>>

ResetHookFails(c) ==
    /\ place[c] = "resetting"
    /\ Discard(c)

-----------------------------------------------------------------------------
Invalidate ==
    /\ generation < MaxGen
    /\ generation' = generation + 1
    /\ UNCHANGED <<maxSize, connVars, callVars>>

(* resize() passes through: psycopg grows to the new minimum at once and   *)
(* closes nothing.                                                         *)
Resize ==
    /\ \E m \in MaxSizes \ {maxSize} : maxSize' = m
    /\ UNCHANGED <<generation, connVars, callVars>>

Caller(b) ==
    \/ Ask(b) \/ GiveUp(b) \/ CheckPasses(b) \/ CheckFails(b)
    \/ \E c \in Conns : Take(b, c)
    \/ Accept(b) \/ Reject(b) \/ RaiseStale(b) \/ Prepare(b) \/ PrepareFails(b)
    \/ RunOthersText(b) \/ LockUnseen(b) \/ Interrupt(b) \/ Break(b) \/ EndBlock(b)
    \/ Leave(b) \/ ClearLent(b)

Worker(c) ==
    \/ Configure(c) \/ Configured(c) \/ ConfigureFails(c)
    \/ ResetDiscards(c) \/ ResetKeeps(c)
    \/ ResetHook(c) \/ ResetHookDone(c) \/ ResetHookFails(c)

Sizing == Resize \/ \E c \in Conns : Grow(c) \/ Shrink(c)

Next ==
    \/ \E b \in Borrowers : Caller(b)
    \/ \E c \in Conns : Worker(c)
    \/ Sizing
    \/ Invalidate

Spec == Init /\ [][Next]_vars

(* What runs by itself: the workers, and a caller that is not waiting for  *)
(* psycopg.  A caller ends its block, and a server that can be reached     *)
(* sometimes is reached in the end by the statement that needs it.  No     *)
(* fairness on GiveUp: waiting is not ended by the timeout here.           *)
Onward(b) ==
    \/ CheckPasses(b) \/ CheckFails(b) \/ Accept(b) \/ Reject(b) \/ RaiseStale(b)
    \/ Prepare(b) \/ PrepareFails(b) \/ Leave(b) \/ ClearLent(b)

Fairness ==
    /\ \A b \in Borrowers :
          /\ WF_vars(Onward(b)) /\ WF_vars(EndBlock(b)) /\ SF_vars(CheckPasses(b))
          /\ SF_vars(\E c \in Conns : Take(b, c))
    /\ \A c \in Conns : WF_vars(Worker(c)) /\ SF_vars(Configured(c)) /\ WF_vars(Grow(c))

FairSpec == Spec /\ Fairness

-----------------------------------------------------------------------------
(* Correctness.                                                            *)

Using == {"preparing", "holding", "leaving"}

(* _check_lent never refuses the caller that holds the connection, for as  *)
(* long as it has it: no other party lowers the flag behind it.            *)
HolderNotRefused == \A b \in Borrowers : pc[b] \in Using => has[b] \in lent

(* Nor does it refuse the pool's own hook, which talks to the server on a  *)
(* connection no caller holds.                                             *)
EntitledNotRefused ==
    /\ HolderNotRefused
    /\ \A c \in Conns : place[c] = "resetting" => c \in lent

(* A handle kept past its block is refused while the connection sits in    *)
(* the pool, once the block that gave it back has run to its end.          *)
GivenBackRefused ==
    \A c \in Conns :
        place[c] = "idle" /\ (\A b \in Borrowers : has[b] # c) => c \notin lent

(* invalidate() is one call and not one failure per connection: a borrow   *)
(* that began after it is never served a connection from before it.        *)
NoStaleService ==
    \A b \in Borrowers : pc[b] = "holding" => stamp[has[b]] >= asked[b]

(* StaleGeneration is raised to a caller only if invalidate() was called   *)
(* again while that caller was in connection(): the loop is long enough to *)
(* get past every connection the earlier call retired.                     *)
StaleErrorJustified ==
    \A b \in Borrowers : pc[b] = "stale" => generation > asked[b]

(* What one borrower did to its connection is not the next one's.  On a    *)
(* connection that waits in the pool or has just been taken from it        *)
(* neither mark is up, and a session lock is held only if one was taken    *)
(* that no mark tells of: by a statement of stream(), of an allowed write  *)
(* or of the caller's own.  Of a statement cut off unmarked, in a COPY, a  *)
(* stream or at a pipeline's end, nothing is said (cutUnseen): the next    *)
(* borrower may have that connection.                                      *)
NothingInherited ==
    \A c \in Conns :
        (place[c] = "idle" \/ \E b \in Borrowers : has[b] = c /\ pc[b] \in {"checking", "taken"})
            => /\ c \notin cancelled \cup ranOthers
               /\ c \in locked => c \in lockUnseen

(* Whoever asks is answered - served, or told why not - though nobody's    *)
(* wait ever times out: connections that are rejected, interrupted, broken *)
(* or retired all come back into service.                                  *)
EveryAskEnds ==
    \A b \in Borrowers : pc[b] = "asking" ~> pc[b] \notin {"asking", "checking", "taken"}

-----------------------------------------------------------------------------
(* What all of it amounts to for the callers.  A pool is steady if resize()*)
(* leaves its max_size alone.                                              *)
NeverResized == \A m, n \in MaxSizes : m = n /\ MinSize <= m

CallAt(step) ==
    IF step \in Using THEN "served"
    ELSE IF step \in {"asking", "checking", "taken"} THEN "waiting"
    ELSE IF step = "stale" THEN "refused"
    ELSE "idle"

Calls   == [b \in Borrowers |-> CallAt(pc[b])]
Holders == [b \in Borrowers |-> IF pc[b] \in Using THEN has[b] ELSE NoConn]

(* What a mark tells of.                                                   *)
Noticed == cancelled \cup ranOthers \cup (locked \ lockUnseen)

Lends == INSTANCE Lending
             WITH made <- stamp, noticed <- Noticed,
                  call <- Calls, holds <- Holders, Steady <- NeverResized

(* The workers, the flag, the check and the loop of connection() together  *)
(* lend as Lending promises: one caller at a time, nothing older than the  *)
(* last invalidate() at the moment it is handed over, nothing left on it   *)
(* that a mark tells of, no caller refused for a retirement it did not     *)
(* live through.  What lockUnseen and cutUnseen record is not promised     *)
(* away.                                                                   *)
ImplementsLending == Lends!Spec

=============================================================================
