------------------------------ MODULE Allowance ------------------------------
(***************************************************************************)
(* The retry policy and the allowance its callers share: TokenBucket and   *)
(* RetryPolicy.decide (retry.py).                                          *)
(*                                                                         *)
(* Asking whether a retry is allowed and paying for it are two takings of  *)
(* the bucket's lock, with the choice of a delay between them, so threads  *)
(* that share the bucket interleave there.  Time returns tokens, and is    *)
(* added when somebody looks: owed is what it has returned since then.     *)
(* The code's tokens are floats; here a tick of the clock is the time that *)
(* returns one.                                                            *)
(***************************************************************************)
EXTENDS Integers, FiniteSets, Retryability

CONSTANTS
    Callers,        \* threads with a policy that draws on the same bucket
    MaxAttempts,    \* policy.attempts
    Capacity,       \* bucket.capacity
    TransientCost, RejectionCost, SuccessCredit,
    Refills         \* FALSE: refill=math.inf, nothing comes back by itself

ASSUME AllowanceAssumption ==
    /\ IsFiniteSet(Callers)
    /\ MaxAttempts \in Nat \ {0}
    /\ Capacity \in Nat \ {0}
    /\ TransientCost \in Nat /\ RejectionCost \in 0..TransientCost
    /\ SuccessCredit \in Nat
    /\ Refills \in BOOLEAN

VARIABLES
    tokens,  \* bucket._tokens
    owed,    \* what time has returned since bucket._last
    doing,   \* "idle", "trying" an attempt, or "allowed" another
    attempt, \* the attempt, counted from one
    cost     \* what the retry that was allowed will cost

allowance == <<tokens, owed, doing, attempt, cost>>

Costs == {RejectionCost, TransientCost}

(* Types; the bucket holds at most its capacity and never less than        *)
(* nothing, and nobody attempts more often than its policy says.           *)
AllowanceTypeOK ==
    /\ tokens \in 0..Capacity
    /\ owed \in 0..Capacity
    /\ doing \in [Callers -> {"idle", "trying", "allowed"}]
    /\ attempt \in [Callers -> 0..MaxAttempts]
    /\ cost \in [Callers -> Costs]

AllowanceInit ==
    /\ tokens = Capacity /\ owed = 0
    /\ doing = [c \in Callers |-> "idle"]
    /\ attempt = [c \in Callers |-> 0]
    /\ cost = [c \in Callers |-> TransientCost]

-----------------------------------------------------------------------------
AtMost(limit, n) == IF n <= limit THEN n ELSE limit
AtLeast(limit, n) == IF n >= limit THEN n ELSE limit

(* TokenBucket._now: what there is, with what time has returned.           *)
NothingReturned == tokens
Now == AtMost(Capacity, tokens + owed)

(* TokenBucket.allows_retry: above half, and the tokens here are whole.    *)
Half == Capacity \div 2
AtHalfAllows == Now >= Half
AllowsRetry == Now > Half

FirstAttempt(c) ==
    /\ doing[c] = "idle"
    /\ doing' = [doing EXCEPT ![c] = "trying"]
    /\ attempt' = [attempt EXCEPT ![c] = 1]
    /\ UNCHANGED <<tokens, owed, cost>>

(* RetryPolicy.succeeded, which the caller may forget to call.             *)
Succeed(c) ==
    /\ doing[c] = "trying"
    /\ doing' = [doing EXCEPT ![c] = "idle"]
    /\ \/ tokens' = AtMost(Capacity, Now + SuccessCredit) /\ owed' = 0
       \/ UNCHANGED <<tokens, owed>>
    /\ UNCHANGED <<attempt, cost>>

(* RetryPolicy.decide, to its first lock: not retryable, or the last       *)
(* attempt, and the bucket is not asked.                                   *)
MoreAttempts(c) == attempt[c] < MaxAttempts

NotAgain(c, recovery) ==
    /\ doing[c] = "trying"
    /\ ~Retryable(recovery) \/ ~MoreAttempts(c)
    /\ doing' = [doing EXCEPT ![c] = "idle"]
    /\ UNCHANGED <<tokens, owed, attempt, cost>>

Price(recovery) == IF recovery = "backpressure" THEN RejectionCost ELSE TransientCost

Ask(c, recovery) ==
    /\ doing[c] = "trying"
    /\ Retryable(recovery) /\ MoreAttempts(c)
    /\ tokens' = Now /\ owed' = 0
    /\ IF AllowsRetry
       THEN /\ doing' = [doing EXCEPT ![c] = "allowed"]
            /\ cost' = [cost EXCEPT ![c] = Price(recovery)]
       ELSE /\ doing' = [doing EXCEPT ![c] = "idle"]
            /\ UNCHANGED cost
    /\ UNCHANGED attempt

(* The wait would outlast the budget.                                      *)
TooLate(c) ==
    /\ doing[c] = "allowed"
    /\ doing' = [doing EXCEPT ![c] = "idle"]
    /\ UNCHANGED <<tokens, owed, attempt, cost>>

(* TokenBucket.spend, and the attempt it pays for.                         *)
NextAttempt(c) == attempt[c] + 1

Spend(c) ==
    /\ doing[c] = "allowed"
    /\ tokens' = AtLeast(0, Now - cost[c]) /\ owed' = 0
    /\ doing' = [doing EXCEPT ![c] = "trying"]
    /\ attempt' = [attempt EXCEPT ![c] = NextAttempt(c)]
    /\ UNCHANGED cost

(* Time passes; a bucket that is owed its capacity can be owed no more.    *)
Tick ==
    /\ Refills /\ owed < Capacity
    /\ owed' = owed + 1
    /\ UNCHANGED <<tokens, doing, attempt, cost>>

Step(c) ==
    \/ Succeed(c) \/ TooLate(c) \/ Spend(c)
    \/ \E recovery \in Recoveries : NotAgain(c, recovery) \/ Ask(c, recovery)

AllowanceNext == Tick \/ \E c \in Callers : FirstAttempt(c) \/ Step(c)

AllowanceSpec == AllowanceInit /\ [][AllowanceNext]_allowance

(* The clock runs, and a caller that has begun goes on: an attempt ends.   *)
AllowanceFair == AllowanceSpec /\ WF_allowance(Tick) /\ \A c \in Callers : WF_allowance(Step(c))

-----------------------------------------------------------------------------
(* The allowance bounds the retries of all its callers together: below     *)
(* half nothing retries, so whatever they do the bucket is never driven    *)
(* further below than by one retry of each, allowed before the others had  *)
(* paid.                                                                   *)
HalfKept == tokens >= Half + 1 - TransientCost * Cardinality(Callers)

(* Time alone is enough: though no success is ever reported, a spent       *)
(* allowance comes to allow retries again.                                 *)
Recovers == []<>AllowsRetry

=============================================================================
