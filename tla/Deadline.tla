-------------------------------- MODULE Deadline -------------------------------
(***************************************************************************)
(* One budget of time spent by many statements (deadline.py): what is left *)
(* of it, what of that a statement may have, and whether a commit may still *)
(* be sent.  Times are milliseconds.                                       *)
(***************************************************************************)
EXTENDS Integers

CONSTANTS Budgets,    \* the lengths a budget may have; NoBudget if it has none
          Reserves,   \* what may be held back for the commit
          Spans,      \* how long things may take
          Horizon     \* bound: when the last statement begins

VARIABLES budget,     \* the Deadline
          clock,
          limit       \* the limit last given to a statement; 0 before the first

spending == <<budget, clock, limit>>

DefaultGap == 500           \* DEFAULT_GAP
GapFraction == 5            \* GAP_FRACTION, one part in five

Least(a, b) == IF a <= b THEN a ELSE b
Most(a, b) == IF a >= b THEN a ELSE b
NoBudget == -1              \* None: no budget, or no wait bounded
Expired == -2               \* raised

ASSUME DeadlineAssumption ==
    /\ Budgets \subseteq (Nat \ {0}) \cup {NoBudget}
    /\ Reserves \subseteq Nat /\ Spans \subseteq Nat /\ Horizon \in Nat

Deadline(seconds, reserve, now) == [at |-> now + seconds, reserve |-> reserve, total |-> seconds]
Unlimited(d) == d.total = NoBudget

Remaining(d, now) == d.at - now
Spent(d, now) == IF Unlimited(d) THEN 0 ELSE d.total - Remaining(d, now)
IsExpired(d, now) == ~Unlimited(d) /\ Remaining(d, now) <= 0
CheckBudget(d, now) == IF IsExpired(d, now) THEN Expired ELSE NoBudget

AllOfIt(d, now) == IF Unlimited(d) THEN NoBudget ELSE Most(Remaining(d, now), 0)
Available(d, now) == IF Unlimited(d) THEN NoBudget ELSE Most(Remaining(d, now) - d.reserve, 0)
CanCommit(d, now) == Unlimited(d) \/ Remaining(d, now) >= d.reserve
Bounded(d, now, wait) ==
    LET remaining == Most(Remaining(d, now), 0)
    IN IF Unlimited(d) THEN wait ELSE IF wait = NoBudget THEN remaining ELSE Least(wait, remaining)

(* The limit sent with a statement leaves a gap for its answer to come in,  *)
(* and none of less than a millisecond is sent.                            *)
LessTheGap(available) ==
    IF available \div GapFraction >= DefaultGap THEN available - DefaultGap
    ELSE (available * (GapFraction - 1)) \div GapFraction
StatementTimeout(d, now) ==
    IF Unlimited(d) THEN NoBudget
    ELSE IF LessTheGap(Available(d, now)) < 1 THEN Expired
    ELSE LessTheGap(Available(d, now))

(* A borrower's limit is rounded up within the gap, so that the connection  *)
(* often has it already.                                                   *)
RoundedUp(most) == ((most + 99) \div 100) * 100
BorrowersLimit(d, now) ==
    LET most == StatementTimeout(d, now)
    IN IF most > 0 /\ RoundedUp(most) < Available(d, now) THEN RoundedUp(most) ELSE most
MayBeGiven(d, now) == {StatementTimeout(d, now), BorrowersLimit(d, now)}

-----------------------------------------------------------------------------
(* A budget spent by one statement after another, until one is refused.    *)
BudgetInit ==
    /\ \E seconds \in Budgets, reserve \in Reserves : budget = Deadline(seconds, reserve, 0)
    /\ clock = 0 /\ limit = 0

(* Nothing may be left for a statement: it is not sent.                    *)
RefuseStatement(idle) ==
    /\ limit # Expired /\ clock + idle <= Horizon
    /\ limit' \in MayBeGiven(budget, clock + idle) /\ limit' = Expired
    /\ clock' = clock + idle
    /\ UNCHANGED budget

(* A statement of deadline() or of a borrow ends by the limit it was given; *)
(* its answer is no later than the gap left for it.                        *)
RunStatement(idle, most, took, late) ==
    /\ limit # Expired /\ clock + idle <= Horizon
    /\ most \in MayBeGiven(budget, clock + idle) /\ most # Expired
    /\ ~Unlimited(budget) =>
          took <= most /\ late <= Most(Available(budget, clock + idle) - most, 0)
    /\ limit' = most
    /\ clock' = clock + idle + took + late
    /\ UNCHANGED budget

Spend ==
    \E idle \in Spans :
       \/ RefuseStatement(idle)
       \/ \E most \in MayBeGiven(budget, clock + idle) :
             LET gap == Available(budget, clock + idle) - most
             IN \E took \in (Spans \cup {most}) \cap Nat, late \in (Spans \cup {gap}) \cap Nat :
                   RunStatement(idle, most, took, late)

BudgetSpec == BudgetInit /\ [][Spend]_spending

(* However many statements share a budget, while they are given limits the *)
(* commit is left its reserve, and a limit is never 0, which the server    *)
(* takes for none; one is refused only when there is no whole millisecond  *)
(* to give, and then so is the next; and no wait is past the budget's end. *)
BudgetKept ==
    IF Unlimited(budget)
    THEN /\ limit \in {0, NoBudget} /\ CanCommit(budget, clock)
         /\ \A wait \in Spans \cup {NoBudget} : Bounded(budget, clock, wait) = wait
    ELSE /\ limit = 0 => clock = 0
         /\ limit > 0 => CanCommit(budget, clock) /\ limit < budget.total - budget.reserve
         /\ limit = Expired => /\ Available(budget, clock) <= 1
                               /\ StatementTimeout(budget, clock + 1) = Expired
         /\ CheckBudget(budget, clock) = Expired <=> Spent(budget, clock) >= budget.total
         /\ \A wait \in Spans \cup {NoBudget} :
               LET bound == Bounded(budget, clock, wait)
               IN /\ bound >= 0 /\ wait >= 0 => bound <= wait
                  /\ clock + bound <= Most(budget.total, clock)
===============================================================================
