--------------------------- MODULE RunTransaction ---------------------------
(***************************************************************************)
(* run_transaction() and _settle() (pool_async.py; pool.py is generated    *)
(* from it): work is run in a transaction, run again where that is safe,   *)
(* and committed once.                                                     *)
(*                                                                         *)
(* The caller's side is one process.  Around it are the server's           *)
(* transactions, one per attempt, and the COMMIT messages on their way to  *)
(* it: a connection may be lost with the message undelivered, delivered    *)
(* and not yet carried out, or carried out and the answer lost.            *)
(*                                                                         *)
(* How it was called is one of the variables, chosen at the start: the     *)
(* keywords, and atExit, the case in which conn.transaction() is a         *)
(* savepoint.  Outside autocommit a budget makes _prepare send a SET,      *)
(* which opens the transaction that psycopg commits as the borrowing block *)
(* ends.  The budget is also what sets a watchdog on the connection.       *)
(***************************************************************************)
EXTENDS Integers, FiniteSets, Retryability

CONSTANTS
    Attempts,        \* policy.attempts
    BorrowFailures,  \* what pool.connection() may raise
    WorkFailures,    \* what the work, or a statement in it, may raise
    CommitFailures   \* what waiting for the COMMIT's answer may raise

ASSUME RunTransactionAssumption ==
    /\ Attempts \in Nat \ {0}
    /\ \A f \in BorrowFailures \cup WorkFailures \cup CommitFailures : f \in Failures

VARIABLES
    call,        \* how run_transaction was called
    pc,          \* the caller's step
    number,      \* the attempt, counted from one
    committing,  \* set once the work returned and the commit comes next
    tid,         \* transaction_id: the attempt it names, or 0 for None
    exc,         \* the failure being handled
    status,      \* the server's record of each attempt's transaction
    wrote,       \* the attempts whose work wrote something
    attached,    \* the attempts whose session has its client still
    inFlight     \* the attempts whose COMMIT the server has yet to carry out

clientVars == <<pc, number, committing, tid, exc>>
serverVars == <<status, wrote, attached, inFlight>>
vars == <<call, clientVars, serverVars>>

Calls == [idempotent : BOOLEAN, trackCommit : BOOLEAN, merging : BOOLEAN, atExit : BOOLEAN]

Tries == 1..Attempts
NoFailure == [kind |-> "none", state |-> NoState]
Ended == {"returned", "raised", "unresolved", "cancelled"}
Steps == {"start", "working", "tracking", "committing", "awaiting",
          "deciding", "settling"} \cup Ended

(* Types; and the work is attempted at most policy.attempts times.         *)
TypeOK ==
    /\ call \in Calls
    /\ pc \in Steps
    /\ number \in 0..Attempts
    /\ committing \in BOOLEAN
    /\ tid \in 0..Attempts
    /\ exc \in BorrowFailures \cup WorkFailures \cup CommitFailures \cup {NoFailure}
    /\ status \in [Tries -> {"none", "active", "committed", "aborted"}]
    /\ wrote \subseteq Tries /\ attached \subseteq Tries /\ inFlight \subseteq Tries

Init ==
    /\ call \in Calls
    /\ pc = "start" /\ number = 0 /\ committing = FALSE /\ tid = 0 /\ exc = NoFailure
    /\ status = [k \in Tries |-> "none"]
    /\ wrote = {} /\ attached = {} /\ inFlight = {}

(* Failures in which the client has lost the server: it was never told     *)
(* what became of what it sent.                                            *)
Unheard(f) == f.state = NoState /\ f.kind \in {"OperationalError", "Stalled", "OSError"}
Undecided(f) == Unheard(f) \/ Recovery(f, FALSE, FALSE) = "unknown"

-----------------------------------------------------------------------------
(* The top of the loop: number counts, and the borrow may fail.            *)
CountedAfresh == 1
NextNumber == number + 1

Begin ==
    /\ pc = "start"
    /\ number' = NextNumber
    /\ committing' = FALSE /\ tid' = 0
    /\ \/ /\ pc' = "working" /\ exc' = NoFailure
          /\ status' = [status EXCEPT ![NextNumber] = "active"]
          /\ attached' = attached \cup {NextNumber}
       \/ /\ pc' = "deciding" /\ exc' \in BorrowFailures
          /\ UNCHANGED <<status, attached>>
    /\ UNCHANGED <<wrote, inFlight>>

(* done.append(await work(conn)).                                          *)
WorkReturns ==
    /\ pc = "working"
    /\ wrote' \in {wrote, wrote \cup {number}}
    /\ IF call.trackCommit
       THEN pc' = "tracking" /\ UNCHANGED committing
       ELSE pc' = "committing" /\ committing' = TRUE
    /\ UNCHANGED <<number, tid, exc, status, attached, inFlight>>

(* The block rolls back, and recover() does for the connection what the    *)
(* failure asks; a lost connection takes no rollback.                      *)
WorkRaises ==
    /\ pc = "working"
    /\ exc' \in WorkFailures
    /\ pc' = "deciding"
    /\ IF Unheard(exc')
       THEN UNCHANGED status
       ELSE status' = [status EXCEPT ![number] = "aborted"]
    /\ attached' = attached \ {number}
    /\ UNCHANGED <<number, committing, tid, wrote, inFlight>>

(* transaction_id(): the server has given one only to a transaction that   *)
(* wrote.                                                                  *)
ReadBeforeTheWork == 0
TransactionId == IF number \in wrote THEN number ELSE 0

Track ==
    /\ pc = "tracking"
    /\ pc' = "committing" /\ committing' = TRUE
    /\ tid' = TransactionId
    /\ UNCHANGED <<number, exc, serverVars>>

TrackRaises ==
    /\ pc = "tracking"
    /\ exc' \in {f \in WorkFailures : Unheard(f)}
    /\ pc' = "deciding"
    /\ attached' = attached \ {number}
    /\ UNCHANGED <<number, committing, tid, status, wrote, inFlight>>

SendCommit ==
    /\ pc = "committing"
    /\ pc' = "awaiting"
    /\ inFlight' = inFlight \cup {number}
    /\ UNCHANGED <<number, committing, tid, exc, status, wrote, attached>>

(* The connection is found broken by the statement that ends the block.    *)
CommitUnsent ==
    /\ pc = "committing"
    /\ exc' \in {f \in CommitFailures : Unheard(f)}
    /\ pc' = "deciding"
    /\ attached' = attached \ {number}
    /\ UNCHANGED <<number, committing, tid, status, wrote, inFlight>>

(* The savepoint's release was answered as the watchdog gave up: the       *)
(* connection is closed in the borrowing block's finally, and psycopg's    *)
(* block ends a closed connection without a COMMIT and without an error.   *)
GivenUpLate ==
    /\ call.atExit
    /\ pc = "committing"
    /\ pc' = "returned"
    /\ attached' = attached \ {number}
    /\ UNCHANGED <<number, committing, tid, exc, status, wrote, inFlight>>

CommitAnswered ==
    /\ pc = "awaiting" /\ number \in attached
    /\ status[number] = "committed"
    /\ pc' = "returned"
    /\ attached' = attached \ {number}
    /\ UNCHANGED <<number, committing, tid, exc, status, wrote, inFlight>>

(* The server answers that it rolled back: a conflict, a deferred check.   *)
CommitRefused ==
    /\ pc = "awaiting" /\ number \in attached
    /\ status[number] = "aborted"
    /\ exc' \in {f \in CommitFailures : ~Undecided(f)}
    /\ pc' = "deciding"
    /\ attached' = attached \ {number}
    /\ UNCHANGED <<number, committing, tid, status, wrote, inFlight>>

CommitLost ==
    /\ pc = "awaiting"
    /\ exc' \in {f \in CommitFailures : Undecided(f)}
    /\ pc' = "deciding"
    /\ attached' = attached \ {number}
    /\ UNCHANGED <<number, committing, tid, status, wrote, inFlight>>

(* A BaseException - cancellation - passes every `except Exception`.       *)
Cancel ==
    /\ pc \in Steps \ (Ended \cup {"deciding"})
    /\ pc' = "cancelled"
    /\ attached' = attached \ {number}
    /\ UNCHANGED <<number, committing, tid, exc, status, wrote, inFlight>>

-----------------------------------------------------------------------------
(* policy.decide(exc, wrote=lost_commit, merging=merging), with its other  *)
(* grounds for giving up (the shared allowance, the budget) left open.     *)
NeverLost == FALSE
LostCommit == committing /\ ~call.idempotent

MayRetry(recovery) == Retryable(recovery) /\ number < Attempts

(* Asked for an id and given none: the server gives one on first write.    *)
NoIdKept == tid = 0 /\ committing
WroteNothing == tid = 0 /\ committing /\ call.trackCommit

Retry(lostCommit) ==
    /\ MayRetry(Recovery(exc, lostCommit, call.merging))
    /\ pc' = "start"
    /\ UNCHANGED <<number, committing, tid, exc, serverVars>>

(* raise policy.exhausted(exc, ...).                                       *)
GiveUp ==
    /\ pc' = "raised"
    /\ UNCHANGED <<number, committing, tid, exc, serverVars>>

End(how) ==
    /\ pc' = how
    /\ UNCHANGED <<number, committing, tid, exc, serverVars>>

Decide ==
    /\ pc = "deciding"
    /\ IF Recovery(exc, LostCommit, call.merging) # "unknown"
       THEN Retry(LostCommit) \/ GiveUp
       ELSE CASE tid # 0 -> End("settling")
              [] WroteNothing -> End("returned")
              [] OTHER -> End("unresolved")

(* _settle: another connection is asked.  In progress, it is asked again,  *)
(* unless the budget is gone; a record too old, or no connection to ask    *)
(* on, leaves the question open.                                           *)
SafeToRunAgain == {"aborted"}

Settle ==
    /\ pc = "settling"
    /\ \/ status[tid] = "committed" /\ End("returned")
       \/ status[tid] \in SafeToRunAgain /\ (Retry(FALSE) \/ GiveUp)
       \/ End("unresolved")

-----------------------------------------------------------------------------
(* The server.                                                             *)
CarryOut(k) ==
    /\ k \in inFlight /\ status[k] = "active"
    /\ \/ status' = [status EXCEPT ![k] = "committed"]
       \/ status' = [status EXCEPT ![k] = "aborted"]
    /\ inFlight' = inFlight \ {k}
    /\ UNCHANGED <<clientVars, wrote, attached>>

(* The message was lost with the connection.                               *)
LoseCommit(k) ==
    /\ k \in inFlight \ attached
    /\ inFlight' = inFlight \ {k}
    /\ UNCHANGED <<clientVars, status, wrote, attached>>

(* A session whose client is gone, and whose COMMIT never came, ends.      *)
EndSession(k) ==
    /\ status[k] = "active" /\ k \notin attached \cup inFlight
    /\ status' = [status EXCEPT ![k] = "aborted"]
    /\ UNCHANGED <<clientVars, wrote, attached, inFlight>>

Client ==
    /\ UNCHANGED call
    /\ \/ Begin \/ WorkReturns \/ WorkRaises \/ Track \/ TrackRaises
       \/ SendCommit \/ CommitUnsent \/ GivenUpLate
       \/ CommitAnswered \/ CommitRefused \/ CommitLost
       \/ Decide \/ Settle

Server ==
    /\ UNCHANGED call
    /\ \E k \in Tries : CarryOut(k) \/ LoseCommit(k) \/ EndSession(k)

Next == Client \/ Server \/ (Cancel /\ UNCHANGED call)

Spec == Init /\ [][Next]_vars

(* The caller's task runs on; the server carries out what reaches it and   *)
(* ends the sessions whose client went away.                               *)
FairSpec == Spec /\ WF_vars(Client) /\ WF_vars(Server)

-----------------------------------------------------------------------------
Applied == {k \in wrote : status[k] = "committed"}

(* One call of run_transaction applies the work's writes at most once,     *)
(* whatever is lost and however often it is run - and this counts commits  *)
(* that land after the caller was answered.                                *)
AtMostOnce == ~call.idempotent => Cardinality(Applied) <= 1

ResultIsReal == number \in Applied \/ number \notin wrote

(* A result is returned only for a transaction that committed, or that had *)
(* nothing to commit - where the COMMIT is the driver's own.               *)
ReturnedMeansCommitted == pc = "returned" /\ ~call.atExit => ResultIsReal

(* A failure other than UnresolvedCommit means that nothing was applied    *)
(* and that nothing is still on its way to be.                             *)
RaisedMeansNothing ==
    pc = "raised" /\ ~call.idempotent =>
        Applied = {} /\ \A k \in wrote \cap inFlight : status[k] # "active"

(* UnresolvedCommit is for a commit that was reached by work that may not  *)
(* be repeated, or for a failure that leaves its outcome open by itself.   *)
UnresolvedJustified ==
    pc = "unresolved" =>
        (committing /\ ~call.idempotent) \/ Recovery(exc, FALSE, FALSE) = "unknown"

(* Work that wrote nothing is not left unresolved by a caller who asked    *)
(* for the commit to be tracked: whether it arrived changes nothing.       *)
ReadingIsAnswered ==
    pc = "unresolved" /\ committing /\ call.trackCommit => number \in wrote

(* What the caller is told is what became of the work, and it is left open  *)
(* only where it has to be.                                                *)
OutcomeTold ==
    /\ ReturnedMeansCommitted /\ RaisedMeansNothing
    /\ UnresolvedJustified /\ ReadingIsAnswered

(* The calls CommitOnce covers; the others are seen as never answered.     *)
Covered == ~call.idempotent /\ ~call.atExit

Told ==
    CASE pc = "returned" -> IF number \in wrote THEN "done" ELSE "empty"
      [] pc = "raised" -> "failed"
      [] pc \in {"unresolved", "cancelled"} -> "unknown"
      [] OTHER -> "pending"

Contract == INSTANCE CommitOnce
              WITH effect <- IF Covered /\ Applied # {} THEN "applied" ELSE "none",
                   told   <- IF Covered THEN Told ELSE "pending"

(* Safety as one contract, step by step: the writes land at most once,     *)
(* never after the caller was told that they did not, and the caller is    *)
(* told that they did only when they have.                                 *)
ImplementsCommitOnce == Contract!Spec

(* Every call ends.                                                        *)
Terminates == <>(pc \in Ended)

=============================================================================
