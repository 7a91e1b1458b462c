---------------------------- MODULE RetryProofs -----------------------------
(***************************************************************************)
(* Proofs about RunTransaction, for every number of attempts, every        *)
(* combination of the caller's keywords and every set of failures; and, at *)
(* the end, about the allowance that retries draw on, for any number of    *)
(* callers, any capacity and any costs.                                    *)
(*                                                                         *)
(* The argument: an attempt is left behind only once its transaction can   *)
(* no longer commit.  That is what decide() must establish from a failure  *)
(* alone, so it rests on two facts about the classification: a failure     *)
(* that leaves the outcome of a COMMIT open is "unknown" once a commit was *)
(* under way, and "unknown" is never retried.                              *)
(***************************************************************************)
EXTENDS RunTransaction, Allowance, FiniteSetTheorems, TLAPS

(* The transaction of attempt k cannot come to be committed any more.      *)
Dead(k) == status[k] # "committed" /\ (k \notin inFlight \/ status[k] # "active")

(* Attempt k is over, and left no effect and will leave none.              *)
Settled(k) == k \notin wrote \/ Dead(k)

Counted ==
    /\ pc = "start" => number < Attempts
    /\ pc \notin {"start", "cancelled"} => number \in Tries

(* Attempts not yet begun.                                                 *)
Future ==
    \A k \in Tries : k > number =>
        status[k] = "none" /\ k \notin wrote /\ k \notin inFlight

(* Attempts left behind.                                                   *)
Past == ~call.idempotent => \A k \in Tries : k < number => Settled(k)

(* Nothing of this attempt was sent to be committed so far.                *)
Uncommitted ==
    /\ pc \in {"working", "tracking", "committing"} =>
          status[number] # "committed" /\ number \notin inFlight
    /\ pc = "working" => number \notin wrote

(* The transaction id names the attempt that wrote, once asked for.        *)
Named ==
    /\ pc \in {"working", "tracking"} => ~committing /\ tid = 0
    /\ pc = "tracking" => call.trackCommit
    /\ pc \in {"committing", "awaiting"} => committing
    /\ pc \in {"committing", "awaiting", "deciding"} =>
          tid = IF committing /\ call.trackCommit /\ number \in wrote THEN number ELSE 0
    /\ pc = "settling" => tid = number

(* What a failure, or an answer, is enough to conclude from.               *)
Concluded ==
    /\ ~call.idempotent /\ pc = "deciding" =>
          Settled(number) \/ (committing /\ Recovery(exc, TRUE, call.merging) = "unknown")
    /\ ~call.idempotent /\ pc \in {"start", "raised"} => Settled(number)
    /\ ReturnedMeansCommitted
    /\ pc = "settling" => number \in wrote
    /\ pc \in {"settling", "unresolved"} =>
          (committing /\ ~call.idempotent) \/ Recovery(exc, FALSE, FALSE) = "unknown"
    /\ ReadingIsAnswered

IInv == TypeOK /\ Counted /\ Future /\ Past /\ Uncommitted /\ Named /\ Concluded

-----------------------------------------------------------------------------
(* A failure that leaves the fate of a COMMIT open is unknown, whatever    *)
(* else the caller said, once the transaction is known to have written.    *)
LEMMA OpenIsUnknown ==
    ASSUME NEW f \in Failures, NEW m \in BOOLEAN, Undecided(f)
    PROVE  Recovery(f, TRUE, m) = "unknown"
<1>1. CASE Unheard(f)
  <2>1. Answer(f) = "reconnect"
    <3>1. CASE f.kind = "OperationalError"
      BY <1>1, <3>1 DEF Unheard, Answer, OwnKinds, ForeignAnswer
    <3>2. CASE f.kind = "Stalled"
      BY <3>2 DEF Answer, OwnKinds, OwnAnswer
    <3>3. CASE f.kind = "OSError"
      BY <3>3 DEF Answer, OwnKinds, ForeignAnswer
    <3> QED BY <1>1, <3>1, <3>2, <3>3 DEF Unheard
  <2> QED BY <2>1 DEF Recovery
<1>2. CASE Recovery(f, FALSE, FALSE) = "unknown"
  <2>1. Answer(f) = "unknown"
    BY <1>2 DEF Recovery
  <2> QED BY <2>1 DEF Recovery
<1> QED BY <1>1, <1>2 DEF Undecided

(* An outcome nobody knows is never retried by retry.py.                   *)
LEMMA UnknownIsFinal ==
    ASSUME NEW r, Retryable(r)
    PROVE  r # "unknown"
BY DEF Retryable

(* Where the caller's words decide, they only turn a lost connection into  *)
(* an open question and a rejection into a safe retry.                     *)
LEMMA UnknownFromWhere ==
    ASSUME NEW f, NEW w \in BOOLEAN, NEW m \in BOOLEAN, Recovery(f, w, m) = "unknown"
    PROVE  w \/ Recovery(f, FALSE, FALSE) = "unknown"
<1>1. CASE w
  BY <1>1
<1>2. CASE ~w
  <2>1. Answer(f) = "unknown"
    BY <1>2 DEF Recovery
  <2> QED BY <2>1 DEF Recovery
<1> QED BY <1>1, <1>2

(* A call that has not begun has no attempt to account for.                *)
LEMMA InitIInv == Init => IInv
<1> SUFFICES ASSUME Init PROVE IInv
  OBVIOUS
<1> USE RunTransactionAssumption DEF RunTransactionAssumption, Init
<1>1. TypeOK /\ Counted
  <2>1. committing \in BOOLEAN
    OBVIOUS
  <2>2. status \in [Tries -> {"none", "active", "committed", "aborted"}]
    OBVIOUS
  <2> QED BY <2>1, <2>2 DEF TypeOK, Counted, Tries, Steps
<1>2. Future /\ Past
  BY DEF Future, Past, Settled, Tries
<1>3. Uncommitted /\ Named
  BY DEF Uncommitted, Named
<1>4. Concluded
  BY DEF Concluded, Settled, ReturnedMeansCommitted, ReadingIsAnswered
<1> QED BY <1>1, <1>2, <1>3, <1>4 DEF IInv

(* Counting and typing, action by action.                                  *)
LEMMA StepTypes ==
    ASSUME IInv, [Next]_vars
    PROVE  TypeOK' /\ Counted'
<1> USE RunTransactionAssumption
        DEF RunTransactionAssumption, IInv, TypeOK, Counted, Tries, Steps, Ended
<1>0. UNCHANGED call
  BY DEF Next, Client, Server, vars
<1>1. CASE Begin
  <2>1. number + 1 \in Tries /\ number' = number + 1
    BY <1>1 DEF Begin, NextNumber
  <2>2. status' \in [Tries -> {"none", "active", "committed", "aborted"}] /\ attached' \subseteq Tries
    BY <1>1, <2>1 DEF Begin, NextNumber
  <2>3. committing' \in BOOLEAN
    BY <1>1 DEF Begin, NextNumber
  <2>4. pc' \in {"working", "deciding"} /\ tid' = 0 /\ UNCHANGED <<wrote, inFlight>>
    BY <1>1 DEF Begin, NextNumber
  <2>5. exc' \in BorrowFailures \cup WorkFailures \cup CommitFailures \cup {NoFailure}
    BY <1>1 DEF Begin, NextNumber
  <2> QED BY <1>0, <2>1, <2>2, <2>3, <2>4, <2>5
<1>2. CASE WorkReturns
  BY <1>0, <1>2 DEF WorkReturns
<1>3. CASE WorkRaises
  BY <1>0, <1>3 DEF WorkRaises
<1>4. CASE Track
  BY <1>0, <1>4 DEF Track, TransactionId, serverVars
<1>5. CASE TrackRaises
  BY <1>0, <1>5 DEF TrackRaises
<1>6. CASE SendCommit \/ CommitUnsent \/ GivenUpLate
  BY <1>0, <1>6 DEF SendCommit, CommitUnsent, GivenUpLate
<1>7. CASE CommitAnswered \/ CommitRefused \/ CommitLost
  BY <1>0, <1>7 DEF CommitAnswered, CommitRefused, CommitLost
<1>8. CASE Decide
  BY <1>0, <1>8 DEF Decide, Retry, MayRetry, GiveUp, End, serverVars
<1>9. CASE Settle
  BY <1>0, <1>9 DEF Settle, Retry, MayRetry, GiveUp, End, serverVars
<1>10. CASE Cancel
  BY <1>0, <1>10 DEF Cancel
<1>11. CASE Server
  BY <1>0, <1>11 DEF Server, CarryOut, LoseCommit, EndSession, clientVars
<1>12. CASE UNCHANGED vars
  BY <1>0, <1>12 DEF vars, clientVars, serverVars
<1> QED BY <1>1, <1>2, <1>3, <1>4, <1>5, <1>6, <1>7, <1>8, <1>9, <1>10, <1>11, <1>12
        DEF Next, Client

-----------------------------------------------------------------------------
Safe == Future /\ Past /\ Uncommitted /\ Named /\ Concluded

(* Only the caller's own steps move it on, and only Begin counts.          *)
LEMMA BeginSafe == IInv /\ UNCHANGED call /\ Begin => Safe'
<1> SUFFICES ASSUME IInv, UNCHANGED call, Begin PROVE Safe'
  OBVIOUS
<1> USE RunTransactionAssumption
    DEF RunTransactionAssumption, IInv, TypeOK, Counted, Tries, Begin, NextNumber
<1>1. number' = number + 1 /\ number' \in Tries /\ UNCHANGED <<wrote, inFlight>>
  OBVIOUS
<1>2. number' \notin wrote /\ number' \notin inFlight /\ status[number'] = "none"
  BY <1>1 DEF Future
<1>3. \A k \in Tries : k # number' => status'[k] = status[k]
  BY <1>1
<1>4. status'[number'] # "committed"
  BY <1>1, <1>2
<1>5. Future'
  BY <1>1, <1>3 DEF Future
<1>6. Past'
  <2>1. ~call.idempotent => \A k \in Tries : k <= number => Settled(k)
    BY DEF Past, Concluded
  <2> QED BY <1>1, <1>3, <2>1 DEF Past, Settled, Dead
<1>7. Uncommitted'
  BY <1>1, <1>2, <1>4 DEF Uncommitted
<1>8. Named'
  BY DEF Named
<1>9. Concluded'
  BY <1>1, <1>2 DEF Concluded, Settled, ReturnedMeansCommitted, ReadingIsAnswered
<1> QED BY <1>5, <1>6, <1>7, <1>8, <1>9 DEF Safe

(* A step that leaves the server as it is and stays in the same attempt    *)
(* preserves what is known of the other attempts.                          *)
LEMMA SameAttempt ==
    ASSUME IInv, UNCHANGED <<call, number, status, wrote>>,
           inFlight' \subseteq inFlight \cup {number}
    PROVE  Future' /\ Past'
BY DEF IInv, TypeOK, Future, Past, Settled, Dead, Tries

(* The work returning or raising sends nothing to be committed.            *)
LEMMA WorkSafe == IInv /\ UNCHANGED call /\ (WorkReturns \/ WorkRaises) => Safe'
<1> SUFFICES ASSUME IInv, UNCHANGED call, WorkReturns \/ WorkRaises PROVE Safe'
  OBVIOUS
<1> USE DEF IInv, TypeOK, Counted, Tries
<1>1. pc = "working" /\ number \in Tries /\ number' = number /\ inFlight' = inFlight /\ tid' = tid
  BY DEF WorkReturns, WorkRaises
<1>2. \A k \in Tries : k # number =>
         status'[k] = status[k] /\ (k \in wrote' <=> k \in wrote)
  BY <1>1 DEF WorkReturns, WorkRaises
<1>3. status'[number] # "committed" /\ number \notin inFlight
  BY <1>1 DEF WorkReturns, WorkRaises, Uncommitted
<1>4. Future' /\ Past'
  BY <1>1, <1>2 DEF Future, Past, Settled, Dead
<1>5. pc' \in {"tracking", "committing", "deciding"}
  BY DEF WorkReturns, WorkRaises
<1>6. Uncommitted'
  BY <1>1, <1>3, <1>5 DEF Uncommitted
<1>7. Named'
  <2>1. CASE WorkReturns
    BY <1>1, <2>1 DEF Named, WorkReturns
  <2>2. CASE WorkRaises
    BY <1>1, <2>2 DEF Named, WorkRaises
  <2> QED BY <2>1, <2>2
<1>8. Settled(number)'
  BY <1>1, <1>3 DEF Settled, Dead
<1>9. Concluded'
  BY <1>1, <1>5, <1>8 DEF Concluded, ReturnedMeansCommitted, ReadingIsAnswered
<1> QED BY <1>4, <1>6, <1>7, <1>9 DEF Safe

(* Reading the transaction's id changes nothing on the server.             *)
LEMMA TrackSafe == IInv /\ UNCHANGED call /\ (Track \/ TrackRaises) => Safe'
<1> SUFFICES ASSUME IInv, UNCHANGED call, Track \/ TrackRaises PROVE Safe'
  OBVIOUS
<1>1. pc = "tracking" /\ UNCHANGED <<number, status, wrote, inFlight>>
  BY DEF Track, TrackRaises, serverVars
<1>2. Future' /\ Past'
  BY <1>1, SameAttempt DEF IInv, Past, Future, Settled, Dead
<1>3. status[number] # "committed" /\ number \notin inFlight
  BY <1>1 DEF IInv, Uncommitted
<1>4. Uncommitted'
  BY <1>1, <1>3 DEF Track, TrackRaises, Uncommitted
<1>5. Named'
  BY <1>1 DEF Track, TransactionId, TrackRaises, IInv, Named
<1>6. Concluded'
  BY <1>1, <1>3 DEF Track, TrackRaises, Concluded, Settled, Dead, ReturnedMeansCommitted, ReadingIsAnswered
<1> QED BY <1>2, <1>4, <1>5, <1>6 DEF Safe

(* The COMMIT is sent, or is not, by the attempt that is running.          *)
LEMMA SendSafe == IInv /\ UNCHANGED call /\ (SendCommit \/ CommitUnsent \/ GivenUpLate) => Safe'
<1> SUFFICES ASSUME IInv, UNCHANGED call, SendCommit \/ CommitUnsent \/ GivenUpLate PROVE Safe'
  OBVIOUS
<1> USE DEF SendCommit, CommitUnsent, GivenUpLate
<1>1. pc = "committing" /\ UNCHANGED <<number, committing, tid, status, wrote>>
  OBVIOUS
<1>2. Future' /\ Past'
  BY <1>1, SameAttempt
<1>3. Uncommitted'
  BY DEF Uncommitted
<1>4. Named'
  BY <1>1 DEF IInv, Named
<1>5. Concluded'
  <2>1. CASE SendCommit
    BY <2>1 DEF Concluded, ReturnedMeansCommitted, ReadingIsAnswered
  <2>2. CASE CommitUnsent
    BY <1>1, <2>2 DEF IInv, Uncommitted, Concluded, Settled, Dead, ReturnedMeansCommitted, ReadingIsAnswered
  <2>3. CASE GivenUpLate
    BY <2>3 DEF Concluded, ReturnedMeansCommitted, ReadingIsAnswered
  <2> QED BY <2>1, <2>2, <2>3
<1> QED BY <1>2, <1>3, <1>4, <1>5 DEF Safe

(* The one place where a failure alone has to settle what became of a      *)
(* COMMIT that was sent.                                                   *)
LEMMA AnswerSafe == IInv /\ UNCHANGED call /\ (CommitAnswered \/ CommitRefused \/ CommitLost) => Safe'
<1> SUFFICES ASSUME IInv, UNCHANGED call, CommitAnswered \/ CommitRefused \/ CommitLost PROVE Safe'
  OBVIOUS
<1> USE DEF CommitAnswered, CommitRefused, CommitLost
<1>1. pc = "awaiting" /\ UNCHANGED <<number, committing, tid, status, wrote, inFlight>>
  OBVIOUS
<1>2. Future' /\ Past'
  BY <1>1, SameAttempt
<1>3. Uncommitted'
  BY DEF Uncommitted
<1>4. Named'
  BY <1>1 DEF IInv, Named
<1>5. Concluded'
  <2>1. CASE CommitAnswered
    BY <1>1, <2>1
       DEF IInv, TypeOK, Counted, Concluded, ReturnedMeansCommitted, ResultIsReal,
           ReadingIsAnswered, Applied
  <2>2. CASE CommitRefused
    BY <1>1, <2>2 DEF Concluded, Settled, Dead, ReturnedMeansCommitted, ReadingIsAnswered
  <2>3. CASE CommitLost
    <3>1. exc' \in Failures /\ Undecided(exc') /\ call.merging \in BOOLEAN
      BY <2>3, RunTransactionAssumption DEF RunTransactionAssumption, IInv, TypeOK, Calls
    <3>2. Recovery(exc', TRUE, call.merging) = "unknown"
      BY <3>1, OpenIsUnknown
    <3>3. committing'
      BY <1>1 DEF IInv, Named
    <3> QED BY <2>3, <3>2, <3>3 DEF Concluded, ReturnedMeansCommitted, ReadingIsAnswered
  <2> QED BY <2>1, <2>2, <2>3
<1> QED BY <1>2, <1>3, <1>4, <1>5 DEF Safe

(* Whoever decides to run again, or to report a plain failure, has a       *)
(* settled attempt behind it.                                              *)
LEMMA DecideSafe == IInv /\ UNCHANGED call /\ Decide => Safe'
<1> SUFFICES ASSUME IInv, UNCHANGED call, Decide PROVE Safe'
  OBVIOUS
<1> USE DEF Retry, GiveUp, End
<1>1. pc = "deciding" /\ UNCHANGED <<number, committing, tid, exc, status, wrote, inFlight>>
  BY DEF Decide, serverVars
<1>2. pc' \in {"start", "raised", "settling", "returned", "unresolved"}
  BY DEF Decide
<1>3. Future' /\ Past'
  BY <1>1, SameAttempt
<1>4. Uncommitted'
  BY <1>2 DEF Uncommitted
<1>5. pc' = "settling" => tid # 0
  BY DEF Decide
<1>6. Named'
  BY <1>1, <1>2, <1>5 DEF IInv, Named
<1>7. ~call.idempotent /\ pc' \in {"start", "raised"} => Settled(number)
  <2> SUFFICES ASSUME ~call.idempotent, pc' \in {"start", "raised"} PROVE Settled(number)
    OBVIOUS
  <2>1. Recovery(exc, LostCommit, call.merging) # "unknown"
    BY DEF Decide
  <2>2. committing => LostCommit = TRUE
    BY DEF IInv, TypeOK, LostCommit
  <2> QED BY <1>1, <2>1, <2>2 DEF IInv, Concluded
<1>8. pc' = "returned" => number \notin wrote
  <2> SUFFICES ASSUME pc' = "returned" PROVE number \notin wrote
    OBVIOUS
  <2>1. tid = 0 /\ committing /\ call.trackCommit
    BY DEF Decide, WroteNothing
  <2>2. number \in Tries
    BY <1>1 DEF IInv, Counted
  <2> QED BY <1>1, <2>1, <2>2 DEF IInv, Named, Tries
<1>9. pc' \in {"settling", "unresolved"} =>
         (committing /\ ~call.idempotent) \/ Recovery(exc, FALSE, FALSE) = "unknown"
  <2> SUFFICES ASSUME pc' \in {"settling", "unresolved"}
               PROVE  LostCommit \/ Recovery(exc, FALSE, FALSE) = "unknown"
    BY DEF LostCommit
  <2>1. Recovery(exc, LostCommit, call.merging) = "unknown"
    BY DEF Decide
  <2>2. LostCommit \in BOOLEAN /\ call.merging \in BOOLEAN
    BY DEF IInv, TypeOK, Calls, LostCommit
  <2> QED BY <2>1, <2>2, UnknownFromWhere
<1>10. (pc' = "settling" => number \in wrote) /\ ReadingIsAnswered'
  <2>1. tid # 0 => number \in wrote
    BY <1>1 DEF IInv, Named
  <2>2. pc' = "unresolved" => tid = 0 /\ ~(committing /\ call.trackCommit)
    BY DEF Decide, WroteNothing
  <2> QED BY <1>1, <1>5, <2>1, <2>2 DEF ReadingIsAnswered
<1>11. Concluded'
  BY <1>1, <1>2, <1>7, <1>8, <1>9, <1>10
     DEF Concluded, Settled, Dead, ReturnedMeansCommitted, ResultIsReal
<1> QED BY <1>3, <1>4, <1>6, <1>11 DEF Safe

(* What _settle is told is what became of the attempt.                     *)
LEMMA SettleSafe == IInv /\ UNCHANGED call /\ Settle => Safe'
<1> SUFFICES ASSUME IInv, UNCHANGED call, Settle PROVE Safe'
  OBVIOUS
<1> USE DEF Settle, Retry, GiveUp, End
<1>1. pc = "settling" /\ UNCHANGED <<number, committing, tid, exc, status, wrote, inFlight>>
  BY DEF serverVars
<1>2. tid = number /\ number \in Tries
  BY <1>1 DEF IInv, Named, Counted
<1>3. Future' /\ Past'
  BY <1>1, SameAttempt
<1>4. pc' \in {"start", "raised", "returned", "unresolved"}
  OBVIOUS
<1>5. Uncommitted' /\ Named'
  BY <1>4 DEF Uncommitted, Named
<1>6. pc' \in {"start", "raised"} => status[number] = "aborted"
  BY <1>2 DEF SafeToRunAgain
<1>7. pc' = "returned" => status[number] = "committed"
  BY <1>2
<1>8. Concluded'
  BY <1>1, <1>2, <1>4, <1>6, <1>7
     DEF IInv, Concluded, Settled, Dead, ReturnedMeansCommitted, ResultIsReal,
         ReadingIsAnswered, Applied
<1> QED BY <1>3, <1>5, <1>8 DEF Safe

(* A call cancelled from outside is left as it was, answered with neither. *)
LEMMA CancelSafe == IInv /\ UNCHANGED call /\ Cancel => Safe'
<1> SUFFICES ASSUME IInv, UNCHANGED call, Cancel PROVE Safe'
  OBVIOUS
<1>1. pc' = "cancelled" /\ UNCHANGED <<number, status, wrote, inFlight>>
  BY DEF Cancel
<1>2. Future' /\ Past'
  BY <1>1, SameAttempt
<1> QED BY <1>1, <1>2 DEF Safe, Uncommitted, Named, Concluded, ReturnedMeansCommitted, ReadingIsAnswered

(* The server commits only what was sent, so only what is not settled.     *)
LEMMA ServerSafe == IInv /\ UNCHANGED call /\ Server => Safe'
<1> SUFFICES ASSUME IInv, UNCHANGED call, Server PROVE Safe'
  OBVIOUS
<1>1. UNCHANGED <<pc, number, committing, tid, exc, wrote>>
  BY DEF Server, CarryOut, LoseCommit, EndSession, clientVars
<1>2. PICK k \in Tries : CarryOut(k) \/ LoseCommit(k) \/ EndSession(k)
  BY DEF Server
<1>3. \A j \in Tries : j # k => status'[j] = status[j] /\ (j \in inFlight' <=> j \in inFlight)
  BY <1>2 DEF CarryOut, LoseCommit, EndSession, IInv, TypeOK
<1>4. status'[k] # status[k] => status[k] = "active"
  BY <1>2 DEF CarryOut, LoseCommit, EndSession, IInv, TypeOK
<1>5. inFlight' \subseteq inFlight
  BY <1>2 DEF CarryOut, LoseCommit, EndSession
<1>6. k \notin inFlight => status'[k] # "committed" \/ status[k] = "committed"
  BY <1>2 DEF CarryOut, LoseCommit, EndSession, IInv, TypeOK
<1>7. \A j \in Tries : Settled(j) => Settled(j)'
  <2>1. Dead(k) => Dead(k)'
    BY <1>2 DEF CarryOut, LoseCommit, EndSession, IInv, TypeOK, Dead
  <2>2. \A j \in Tries : j # k /\ Dead(j) => Dead(j)'
    BY <1>3 DEF Dead
  <2> QED BY <1>1, <2>1, <2>2 DEF Settled
<1>8. Future'
  BY <1>1, <1>3, <1>4, <1>5 DEF IInv, Future
<1>9. Past'
  BY <1>1, <1>7 DEF IInv, Past
<1>10. pc \notin {"start", "cancelled"} => number \in Tries
  BY DEF IInv, Counted
<1>11. Uncommitted'
  BY <1>1, <1>3, <1>5, <1>6, <1>10 DEF IInv, Uncommitted
<1>12. Named'
  BY <1>1 DEF IInv, Named
<1>13. ReturnedMeansCommitted' /\ ReadingIsAnswered'
  BY <1>1, <1>3, <1>4, <1>10
     DEF IInv, Concluded, ReturnedMeansCommitted, ResultIsReal, ReadingIsAnswered, Applied
<1>14. pc = "start" => Settled(number)' \/ number \in Tries
  BY <1>1 DEF IInv, TypeOK, Settled
<1>15. Concluded'
  BY <1>1, <1>7, <1>10, <1>13, <1>14 DEF IInv, Concluded
<1> QED BY <1>8, <1>9, <1>11, <1>12, <1>15 DEF Safe

(* Nothing moves, nothing is lost.                                         *)
LEMMA StutterSafe == IInv /\ UNCHANGED vars => Safe'
<1> SUFFICES ASSUME IInv, UNCHANGED vars PROVE Safe'
  OBVIOUS
<1>1. UNCHANGED <<call, pc, number, committing, tid, exc, status, wrote, inFlight>>
  BY DEF vars, clientVars, serverVars
<1>2. Future' /\ Past'
  BY <1>1, SameAttempt
<1>3. Uncommitted' /\ Named'
  BY <1>1 DEF IInv, Uncommitted, Named
<1>4. Concluded'
  BY <1>1 DEF IInv, Concluded, Settled, Dead, ReturnedMeansCommitted, ResultIsReal, ReadingIsAnswered, Applied
<1> QED BY <1>2, <1>3, <1>4 DEF Safe

(* The invariant is inductive.                                             *)
LEMMA StepIInv == IInv /\ [Next]_vars => IInv'
<1> SUFFICES ASSUME IInv, [Next]_vars PROVE IInv'
  OBVIOUS
<1>1. TypeOK' /\ Counted'
  BY StepTypes
<1>2. Safe'
  BY BeginSafe, WorkSafe, TrackSafe, SendSafe, AnswerSafe, DecideSafe, SettleSafe,
     CancelSafe, ServerSafe, StutterSafe DEF Next, Client, Server
<1> QED BY <1>1, <1>2 DEF IInv, Safe

(* The inductive invariant holds throughout; the safety theorems below are *)
(* read off it.                                                            *)
THEOREM Invariance == Spec => []IInv
BY InitIInv, StepIInv, PTL DEF Spec

-----------------------------------------------------------------------------
(* Type correctness: the attempts stay within policy.attempts.             *)
THEOREM TypeCorrect == Spec => []TypeOK
<1>1. IInv => TypeOK
  BY DEF IInv
<1> QED BY <1>1, Invariance, PTL

(* No attempt but the last can have committed.                             *)
LEMMA OnlyTheLast ==
    ASSUME IInv, ~call.idempotent
    PROVE  Applied \subseteq {number}
<1> SUFFICES ASSUME NEW k \in Applied, k # number PROVE FALSE
  OBVIOUS
<1>1. k \in wrote /\ k \in Tries /\ status[k] = "committed"
  BY DEF Applied, IInv, TypeOK
<1>2. ~(k > number)
  BY <1>1 DEF IInv, Future
<1>3. k < number
  BY <1>1, <1>2, RunTransactionAssumption
     DEF RunTransactionAssumption, IInv, TypeOK, Tries
<1> QED BY <1>1, <1>3 DEF IInv, Past, Settled, Dead

(* The writes of work that is not idempotent are applied at most once, for *)
(* any number of attempts and any failures.                                *)
THEOREM AppliedOnce == Spec => []AtMostOnce
<1>1. IInv => AtMostOnce
  <2> SUFFICES ASSUME IInv, ~call.idempotent PROVE Cardinality(Applied) <= 1
    BY DEF AtMostOnce
  <2>1. IsFiniteSet({number}) /\ Cardinality({number}) = 1
    BY FS_Singleton
  <2>2. Cardinality(Applied) <= Cardinality({number})
    BY <2>1, OnlyTheLast, FS_Subset
  <2> QED BY <2>1, <2>2
<1> QED BY <1>1, Invariance, PTL

(* Where the COMMIT is the transaction block's own, success is reported    *)
(* only for a transaction that committed, or that wrote nothing.           *)
THEOREM SuccessIsReal == Spec => []ReturnedMeansCommitted
<1>1. IInv => ReturnedMeansCommitted
  BY DEF IInv, Concluded
<1> QED BY <1>1, Invariance, PTL

(* UnresolvedCommit is raised only where nobody can know: a commit was     *)
(* reached that may not be repeated, or the failure says so itself; and    *)
(* never for tracked work that wrote nothing.                              *)
THEOREM UnresolvedIsOpen == Spec => [](UnresolvedJustified /\ ReadingIsAnswered)
<1>1. IInv => UnresolvedJustified /\ ReadingIsAnswered
  BY DEF IInv, Concluded, UnresolvedJustified
<1> QED BY <1>1, Invariance, PTL

(* Another attempt is begun only when the one before it is settled, so if  *)
(* the last one is settled none is open.                                   *)
LEMMA AllSettled ==
    ASSUME IInv, ~call.idempotent, Settled(number)
    PROVE  \A k \in Tries : Settled(k)
BY RunTransactionAssumption
   DEF RunTransactionAssumption, IInv, TypeOK, Tries, Past, Future, Settled

(* A failure other than UnresolvedCommit means that no attempt was applied *)
(* and that no COMMIT still on its way can apply one (run_transaction's    *)
(* Raises section).                                                        *)
THEOREM FailureIsClean == Spec => []RaisedMeansNothing
<1>1. IInv => RaisedMeansNothing
  <2> SUFFICES ASSUME IInv, ~call.idempotent, pc = "raised"
               PROVE  Applied = {} /\ \A k \in wrote \cap inFlight : status[k] # "active"
    BY DEF RaisedMeansNothing
  <2>1. Settled(number)
    BY DEF IInv, Concluded
  <2>2. \A k \in Tries : Settled(k)
    BY <2>1, AllSettled
  <2> QED BY <2>2 DEF Applied, Settled, Dead, IInv, TypeOK
<1> QED BY <1>1, Invariance, PTL

-----------------------------------------------------------------------------
(* The refinement.  Effect and Word are what Contract's variables stand    *)
(* for.                                                                    *)
Effect == IF Covered /\ Applied # {} THEN "applied" ELSE "none"
Word == IF Covered THEN Told ELSE "pending"

Quiet == UNCHANGED Effect /\ UNCHANGED Word

(* What changes neither the effects nor the answer is no step of the       *)
(* contract.                                                               *)
LEMMA QuietIsStutter == Quiet => [Contract!Next]_(Contract!vars)
BY DEF Quiet, Effect, Word, Contract!vars

(* The two facts above, of the state after a step.                         *)
LEMMA OnlyTheLastNext == (IInv /\ ~call.idempotent => Applied \subseteq {number})'
<1>1. IInv /\ ~call.idempotent => Applied \subseteq {number}
  BY OnlyTheLast
<1> QED BY <1>1, PTL

(* The same of the attempts that are settled.                              *)
LEMMA AllSettledNext ==
    (IInv /\ ~call.idempotent /\ Settled(number) => \A k \in Tries : Settled(k))'
<1>1. IInv /\ ~call.idempotent /\ Settled(number) => \A k \in Tries : Settled(k)
  BY AllSettled
<1> QED BY <1>1, PTL

(* A step that commits nothing and does not answer the caller is a stutter.*)
LEMMA Unanswered ==
    ASSUME Applied' = Applied, UNCHANGED call,
           pc \notin Ended, pc' \notin Ended
    PROVE  Quiet
BY DEF Quiet, Effect, Word, Covered, Told, Ended

(* A call the contract does not cover is a stutter throughout.             *)
LEMMA UncoveredRefines ==
    ASSUME ~Covered, UNCHANGED call
    PROVE  [Contract!Next]_(Contract!vars)
BY QuietIsStutter DEF Quiet, Effect, Word, Covered

(* Each step of the client is one of the contract's or a stutter.          *)
LEMMA ClientRefines ==
    ASSUME Covered, IInv, IInv', Client
    PROVE  [Contract!Next]_(Contract!vars)
<1> USE DEF Ended
<1>0. UNCHANGED call /\ Covered'
  BY DEF Client, Covered
<1>1. Applied' = Applied
  <2>1. CASE Begin
    <3>1. \A k \in wrote : k # number' /\ k \in Tries
      BY <2>1 DEF IInv, TypeOK, Future, Begin, NextNumber, Tries
    <3>2. wrote' = wrote /\ \A k \in wrote : status'[k] = status[k]
      BY <2>1, <3>1 DEF Begin, NextNumber, IInv, TypeOK
    <3> QED BY <3>2 DEF Applied
  <2>2. CASE WorkReturns \/ WorkRaises
    <3>1. pc = "working" /\ number \in Tries /\ number \notin wrote /\ status[number] # "committed"
      BY <2>2 DEF WorkReturns, WorkRaises, IInv, Counted, Uncommitted
    <3>2. CASE WorkReturns
      BY <3>1, <3>2 DEF WorkReturns, Applied
    <3>3. CASE WorkRaises
      BY <3>1, <3>3 DEF WorkRaises, Applied, IInv, TypeOK
    <3> QED BY <2>2, <3>2, <3>3
  <2>3. CASE ~(Begin \/ WorkReturns \/ WorkRaises)
    <3>1. UNCHANGED <<status, wrote>>
      BY <2>3 DEF Client, Track, TrackRaises, SendCommit, CommitUnsent, GivenUpLate,
                  CommitAnswered, CommitRefused, CommitLost, Decide, Settle, Retry,
                  GiveUp, End, serverVars
    <3> QED BY <3>1 DEF Applied
  <2> QED BY <2>1, <2>2, <2>3
<1>2. pc \notin Ended
  BY DEF Client, Begin, WorkReturns, WorkRaises, Track, TrackRaises, SendCommit, CommitUnsent,
         GivenUpLate, CommitAnswered, CommitRefused, CommitLost, Decide, Settle
<1>3. CASE pc' \notin Ended
  BY <1>0, <1>1, <1>2, <1>3, Unanswered, QuietIsStutter
<1>4. Told = "pending"
  BY <1>2 DEF Told
<1>5. CASE pc' = "returned" /\ number' \in wrote'
  <2>1. number' \in Applied' /\ Told' = "done"
    BY <1>0, <1>5 DEF Covered, IInv, Concluded, ReturnedMeansCommitted, ResultIsReal, Told
  <2>2. Applied # {}
    BY <1>1, <2>1
  <2> QED BY <1>0, <1>1, <1>4, <2>1, <2>2 DEF Contract!Next, Contract!TellDone
<1>6. CASE pc' = "returned" /\ number' \notin wrote'
  <2>1. Applied' = {}
    BY <1>0, <1>6, OnlyTheLastNext DEF Covered, Applied
  <2>2. Told' = "empty"
    BY <1>6 DEF Told
  <2> QED BY <1>0, <1>1, <1>4, <2>1, <2>2 DEF Contract!Next, Contract!TellNothing
<1>7. CASE pc' = "raised"
  <2>1. \A k \in Tries : Settled(k)'
    BY <1>0, <1>7, AllSettledNext DEF Covered, IInv, Concluded
  <2>2. Applied' = {}
    BY <2>1 DEF Applied, Settled, Dead, IInv, TypeOK
  <2>3. Told' = "failed"
    BY <1>7 DEF Told
  <2> QED BY <1>0, <1>1, <1>4, <2>2, <2>3 DEF Contract!Next, Contract!TellNothing
<1>8. CASE pc' \in {"unresolved", "cancelled"}
  <2>1. Told' = "unknown"
    BY <1>8 DEF Told
  <2> QED BY <1>0, <1>1, <1>4, <2>1 DEF Contract!Next, Contract!TellUnknown
<1> QED BY <1>3, <1>5, <1>6, <1>7, <1>8

(* A cancelled call answers nothing, which the contract sees as no step.   *)
LEMMA CancelRefines ==
    ASSUME Covered, Cancel, UNCHANGED call
    PROVE  [Contract!Next]_(Contract!vars)
<1>1. Told = "pending" /\ Told' = "unknown"
  BY DEF Cancel, Told, Ended, Steps
<1>2. Applied' = Applied
  BY DEF Cancel, Applied
<1>3. Covered'
  BY DEF Covered
<1> QED BY <1>1, <1>2, <1>3 DEF Contract!Next, Contract!TellUnknown

(* The only step that lands the writes is the server carrying out a COMMIT *)
(* of an attempt that is not settled: the last, whose caller was not yet   *)
(* told, or was told that nobody knows.                                    *)
LEMMA ServerRefines ==
    ASSUME Covered, IInv, IInv', Server
    PROVE  [Contract!Next]_(Contract!vars)
<1>1. UNCHANGED <<call, pc, number, wrote>> /\ UNCHANGED Told /\ Covered'
  BY DEF Server, CarryOut, LoseCommit, EndSession, clientVars, Told, Covered
<1>2. PICK k \in Tries : CarryOut(k) \/ LoseCommit(k) \/ EndSession(k)
  BY DEF Server
<1>3. CASE Applied' = Applied
  BY <1>1, <1>3, QuietIsStutter DEF Quiet, Effect, Word
<1>4. CASE Applied' # Applied
  <2>1. k \in wrote /\ k \in inFlight /\ status[k] = "active" /\ Applied' = Applied \cup {k}
    BY <1>1, <1>2, <1>4 DEF CarryOut, LoseCommit, EndSession, Applied, IInv, TypeOK
  <2>2. ~Settled(k)
    BY <2>1 DEF Settled, Dead
  <2>3. k = number
    BY <2>1, <2>2, RunTransactionAssumption
       DEF RunTransactionAssumption, IInv, TypeOK, Tries, Past, Future, Covered
  <2>4. Applied = {}
    BY <2>1, <2>3, OnlyTheLast DEF Applied, Covered
  <2>5. Applied' # {}
    BY <2>1
  <2>6. Told \in {"pending", "unknown"}
    BY <2>1, <2>2, <2>3
       DEF Told, Covered, IInv, Concluded, ReturnedMeansCommitted, ResultIsReal, Applied
  <2> QED BY <1>1, <2>4, <2>5, <2>6 DEF Contract!Next, Contract!Apply
<1> QED BY <1>3, <1>4

(* What the caller is told of the work, in one.                            *)
THEOREM AnswerIsTrue == Spec => []OutcomeTold
BY SuccessIsReal, FailureIsClean, UnresolvedIsOpen, PTL DEF OutcomeTold

(* run_transaction keeps its contract: for every number of attempts and    *)
(* every pattern of failures, crashes and late commits, the writes land at *)
(* most once and the caller's answer agrees with whether they did.         *)
THEOREM Refinement == Spec => ImplementsCommitOnce
<1>1. Init => Contract!Init
  BY DEF Init, Contract!Init, Applied, Told
<1>2. IInv /\ IInv' /\ [Next]_vars => [Contract!Next]_(Contract!vars)
  <2> SUFFICES ASSUME IInv, IInv', [Next]_vars PROVE [Contract!Next]_(Contract!vars)
    OBVIOUS
  <2>1. CASE UNCHANGED vars
    BY <2>1, QuietIsStutter
       DEF vars, clientVars, serverVars, Quiet, Effect, Word, Covered, Told, Applied
  <2>2. CASE Next
    <3>1. UNCHANGED call
      BY <2>2 DEF Next, Client, Server
    <3> QED BY <2>2, <3>1, UncoveredRefines, ClientRefines, CancelRefines, ServerRefines DEF Next
  <2> QED BY <2>1, <2>2
<1> QED BY <1>1, <1>2, Invariance, PTL DEF Spec, ImplementsCommitOnce, Contract!Spec

-----------------------------------------------------------------------------
(* The allowance.                                                          *)

(* Those who have been told yes and have not paid.                         *)
Allowed == {c \in Callers : doing[c] = "allowed"}

(* The most that the others can already have taken below the first token   *)
(* above half: HalfKept alone is not inductive, for it does not say that   *)
(* whoever has yet to pay was counted and has not taken it before.         *)
Taken == TransientCost * (Cardinality(Callers) - Cardinality(Allowed))

(* Whoever was allowed another attempt has one left.                       *)
LeftOver == \A c \in Callers : doing[c] = "allowed" => attempt[c] < MaxAttempts

AllowanceIInv == AllowanceTypeOK /\ LeftOver /\ tokens >= Half + 1 - Taken

-----------------------------------------------------------------------------
(* Half of a whole capacity leaves a token above it.                       *)
LEMMA HalfType == Half \in Nat /\ Half + 1 <= Capacity
  BY AllowanceAssumption DEF Half

(* _now never exceeds the capacity and never takes anything away.          *)
LEMMA NowType ==
  ASSUME tokens \in 0..Capacity, owed \in 0..Capacity
  PROVE  Now \in tokens..Capacity
  BY AllowanceAssumption DEF Now, AtMost

(* What the costs and the allowed weigh.                                   *)
LEMMA TakenType ==
  ASSUME NEW S \in SUBSET Callers
  PROVE  /\ Cardinality(Callers) \in Nat /\ Cardinality(S) \in Nat
         /\ Cardinality(S) <= Cardinality(Callers)
         /\ TransientCost * (Cardinality(Callers) - Cardinality(S)) \in Nat
         /\ TransientCost * (Cardinality(Callers) - Cardinality(S))
               <= TransientCost * Cardinality(Callers)
<1>1. Cardinality(Callers) \in Nat
  BY FS_CardinalityType, AllowanceAssumption
<1>2. Cardinality(S) \in Nat /\ Cardinality(S) <= Cardinality(Callers)
  BY FS_CardinalityType, FS_Subset, AllowanceAssumption
<1>3. \A t, n, k \in Nat : k <= n => t * (n - k) \in Nat /\ t * (n - k) <= t * n
  <2>1. SUFFICES ASSUME NEW t \in Nat, NEW n \in Nat, NEW k \in Nat, k <= n
                 PROVE  t * (n - k) \in Nat /\ t * (n - k) <= t * n
    OBVIOUS
  <2>2. t * (n - k) = t * n - t * k /\ t * k \in Nat
    BY <2>1
  <2>3. t * (n - k) \in Nat
    BY <2>1
  <2> QED BY <2>2, <2>3
<1> QED BY <1>1, <1>2, <1>3, AllowanceAssumption

(* One caller fewer among the allowed adds one cost to what may have been  *)
(* taken.                                                                  *)
LEMMA TakenWithout ==
  ASSUME NEW S \in SUBSET Callers, NEW c \in S
  PROVE  TransientCost * (Cardinality(Callers) - Cardinality(S \ {c}))
            = TransientCost * (Cardinality(Callers) - Cardinality(S)) + TransientCost
<1>1. Cardinality(S \ {c}) = Cardinality(S) - 1
  BY FS_RemoveElement, FS_Subset, AllowanceAssumption
<1>2. Cardinality(Callers) \in Nat /\ Cardinality(S) \in Nat
  BY TakenType
<1>3. \A t \in Nat : \A n, k \in Int : t * (n - (k - 1)) = t * (n - k) + t
  OBVIOUS
<1> QED BY <1>1, <1>2, <1>3, AllowanceAssumption

-----------------------------------------------------------------------------
(* Every action keeps the types, and what it takes from the bucket it      *)
(* takes from the part of whoever it moves out of the allowed.             *)
THEOREM AllowanceInvariance == AllowanceSpec => []AllowanceIInv
<1>1. AllowanceInit => AllowanceIInv
  <2>1. SUFFICES ASSUME AllowanceInit PROVE AllowanceIInv
    OBVIOUS
  <2>2. AllowanceTypeOK
    BY <2>1, AllowanceAssumption DEF AllowanceInit, AllowanceTypeOK, Costs
  <2>3. Allowed \in SUBSET Callers
    BY DEF Allowed
  <2>4. Taken \in Nat
    BY <2>3, TakenType DEF Taken
  <2>5. LeftOver
    BY <2>1 DEF AllowanceInit, LeftOver
  <2> QED BY <2>1, <2>2, <2>4, <2>5, HalfType, AllowanceAssumption DEF AllowanceIInv, AllowanceInit
<1>2. AllowanceIInv /\ [AllowanceNext]_allowance => AllowanceIInv'
  <2> SUFFICES ASSUME AllowanceIInv, [AllowanceNext]_allowance PROVE AllowanceIInv'
    OBVIOUS
  <2> USE AllowanceAssumption
  <2>a. /\ Allowed \in SUBSET Callers /\ Allowed' \in SUBSET Callers
        /\ Now \in tokens..Capacity /\ tokens \in 0..Capacity
        /\ Half \in Nat /\ Half' = Half
        /\ Taken \in Nat /\ Taken' \in Nat
    <3>1. Allowed \in SUBSET Callers /\ Allowed' \in SUBSET Callers
      BY DEF Allowed
    <3>2. Taken \in Nat /\ Taken' \in Nat
      BY <3>1, TakenType DEF Taken
    <3>3. Now \in tokens..Capacity /\ tokens \in 0..Capacity
      BY NowType DEF AllowanceIInv, AllowanceTypeOK
    <3> QED BY <3>1, <3>2, <3>3, HalfType DEF Half
  <2>b. tokens >= Half + 1 - Taken
    BY DEF AllowanceIInv
  <2>1. ASSUME NEW c \in Callers, FirstAttempt(c) PROVE AllowanceIInv'
    <3>1. AllowanceTypeOK' /\ LeftOver'
      BY <2>1 DEF AllowanceIInv, AllowanceTypeOK, FirstAttempt, LeftOver
    <3>2. Allowed' = Allowed
      BY <2>1 DEF FirstAttempt, Allowed, AllowanceIInv, AllowanceTypeOK
    <3> QED BY <2>1, <3>1, <3>2, <2>a, <2>b DEF AllowanceIInv, FirstAttempt, Taken
  <2>2. ASSUME NEW c \in Callers, Succeed(c) PROVE AllowanceIInv'
    <3>1. tokens' \in tokens..Capacity /\ owed' \in 0..Capacity
      BY <2>2, <2>a DEF Succeed, AtMost, AllowanceIInv, AllowanceTypeOK
    <3>2. AllowanceTypeOK' /\ LeftOver'
      BY <2>2, <3>1, <2>a DEF AllowanceIInv, AllowanceTypeOK, Succeed, LeftOver
    <3>3. Allowed' = Allowed
      BY <2>2 DEF Succeed, Allowed, AllowanceIInv, AllowanceTypeOK
    <3> QED BY <3>1, <3>2, <3>3, <2>a, <2>b DEF AllowanceIInv, Taken
  <2>3. ASSUME NEW c \in Callers, NEW r \in Recoveries, NotAgain(c, r) PROVE AllowanceIInv'
    <3>1. AllowanceTypeOK' /\ LeftOver'
      BY <2>3 DEF AllowanceIInv, AllowanceTypeOK, NotAgain, LeftOver
    <3>2. Allowed' = Allowed
      BY <2>3 DEF NotAgain, Allowed, AllowanceIInv, AllowanceTypeOK
    <3> QED BY <2>3, <3>1, <3>2, <2>a, <2>b DEF AllowanceIInv, NotAgain, Taken
  <2>4. ASSUME NEW c \in Callers, NEW r \in Recoveries, Ask(c, r) PROVE AllowanceIInv'
    <3>1. /\ tokens' = Now /\ owed' = 0
          /\ doing' \in [Callers -> {"idle", "trying", "allowed"}]
          /\ attempt' = attempt /\ cost' \in [Callers -> Costs]
      BY <2>4 DEF AllowanceIInv, AllowanceTypeOK, Ask, Price, Costs
    <3>2. AllowanceTypeOK' /\ LeftOver'
      <4>1. AllowanceTypeOK'
        BY <3>1, <2>a DEF AllowanceIInv, AllowanceTypeOK
      <4>2. LeftOver'
        BY <2>4, <3>1 DEF AllowanceIInv, AllowanceTypeOK, LeftOver, Ask, MoreAttempts
      <4> QED BY <4>1, <4>2
    <3>3. CASE AllowsRetry
      <4>1. tokens' >= Half + 1
        BY <3>1, <3>3, <2>a DEF AllowsRetry
      <4>2. tokens' \in Nat
        BY <3>1, <2>a
      <4>3. Half \in Nat /\ Half' = Half /\ Taken' \in Nat
        BY <2>a
      <4>4. \A t, h, k \in Nat : t >= h + 1 => t >= h + 1 - k
        OBVIOUS
      <4>5. tokens' >= Half' + 1 - Taken'
        BY <4>1, <4>2, <4>3, <4>4
      <4> QED BY <3>2, <4>5 DEF AllowanceIInv
    <3>4. CASE ~AllowsRetry
      <4>1. Allowed' = Allowed
        BY <2>4, <3>4 DEF Ask, Allowed, AllowanceIInv, AllowanceTypeOK
      <4> QED BY <3>1, <3>2, <4>1, <2>a, <2>b DEF AllowanceIInv, Taken
    <3> QED BY <3>3, <3>4
  <2>5. ASSUME NEW c \in Callers, TooLate(c) PROVE AllowanceIInv'
    <3>1. AllowanceTypeOK' /\ LeftOver'
      BY <2>5 DEF AllowanceIInv, AllowanceTypeOK, TooLate, LeftOver
    <3>2. Allowed' = Allowed \ {c} /\ c \in Allowed
      BY <2>5 DEF TooLate, Allowed, AllowanceIInv, AllowanceTypeOK
    <3>3. Taken' = Taken + TransientCost
      BY <3>2, <2>a, TakenWithout DEF Taken
    <3> QED BY <2>5, <3>1, <3>3, <2>a, <2>b DEF AllowanceIInv, TooLate
  <2>6. ASSUME NEW c \in Callers, Spend(c) PROVE AllowanceIInv'
    <3>1. cost[c] \in 0..TransientCost
      BY DEF AllowanceIInv, AllowanceTypeOK, Costs
    <3>2. tokens' \in 0..Capacity /\ tokens' >= tokens - TransientCost
      BY <2>6, <3>1, <2>a DEF Spend, AtLeast
    <3>3. Allowed' = Allowed \ {c} /\ c \in Allowed
      BY <2>6 DEF Spend, Allowed, AllowanceIInv, AllowanceTypeOK
    <3>4. Taken' = Taken + TransientCost
      BY <3>3, <2>a, TakenWithout DEF Taken
    <3>5. AllowanceTypeOK' /\ LeftOver'
      BY <2>6, <3>2 DEF AllowanceIInv, AllowanceTypeOK, Spend, NextAttempt, LeftOver
    <3> QED BY <3>2, <3>4, <3>5, <2>a, <2>b DEF AllowanceIInv
  <2>7. ASSUME Tick PROVE AllowanceIInv'
    <3>1. AllowanceTypeOK' /\ LeftOver'
      BY <2>7 DEF AllowanceIInv, AllowanceTypeOK, Tick, LeftOver
    <3> QED BY <2>7, <3>1, <2>a, <2>b DEF AllowanceIInv, Tick, Taken, Allowed
  <2>8. ASSUME UNCHANGED allowance PROVE AllowanceIInv'
    <3>1. AllowanceTypeOK' /\ LeftOver'
      BY <2>8 DEF AllowanceIInv, AllowanceTypeOK, allowance, LeftOver
    <3> QED BY <2>8, <3>1, <2>a, <2>b DEF AllowanceIInv, allowance, Taken, Allowed
  <2> QED BY <2>1, <2>2, <2>3, <2>4, <2>5, <2>6, <2>7, <2>8 DEF AllowanceNext, Step
<1> QED BY <1>1, <1>2, PTL DEF AllowanceSpec

(* The bucket stays between nothing and its capacity, and no caller makes  *)
(* more attempts than its policy allows, in any interleaving.              *)
THEOREM AllowanceTypeCorrect == AllowanceSpec => []AllowanceTypeOK
<1>1. AllowanceIInv => AllowanceTypeOK
  BY DEF AllowanceIInv
<1> QED BY <1>1, AllowanceInvariance, PTL

(* However many callers were allowed a retry before any of them paid, the  *)
(* bucket is never driven further below half than by one retry of each.    *)
THEOREM AllowanceKept == AllowanceSpec => []HalfKept
<1>1. AllowanceIInv => HalfKept
  <2>1. SUFFICES ASSUME AllowanceIInv PROVE HalfKept
    OBVIOUS
  <2>2. Allowed \in SUBSET Callers
    BY DEF Allowed
  <2>3. /\ Taken \in Nat /\ TransientCost * Cardinality(Callers) \in Nat
        /\ Taken <= TransientCost * Cardinality(Callers)
    <3>1. Cardinality(Callers) \in Nat
      BY TakenType, <2>2
    <3>2. TransientCost * Cardinality(Callers) \in Nat
      BY <3>1, AllowanceAssumption
    <3> QED BY <3>2, <2>2, TakenType DEF Taken
  <2> QED BY <2>1, <2>3, HalfType, AllowanceAssumption DEF AllowanceIInv, HalfKept, AllowanceTypeOK
<1> QED BY <1>1, AllowanceInvariance, PTL
=============================================================================
