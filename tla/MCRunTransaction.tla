-------------------------- MODULE MCRunTransaction --------------------------
EXTENDS RunTransaction

Failure(kind, state) == [kind |-> kind, state |-> state]

Conflict  == Failure("OperationalError", <<"40", "001">>)
Duplicate == Failure("Error", <<"23", "505">>)
Shutdown  == Failure("OperationalError", <<"57", "P01">>)
Lost      == Failure("OperationalError", NoState)
Stalled   == Failure("Stalled", NoState)
Mistake   == Failure("Exception", NoState)
Ambiguous == Failure("OperationalError", <<"40", "003">>)
TimedOut  == Failure("TimeoutError", NoState)

Borrowing == {Failure("PoolTimeout", NoState), Failure("StaleGeneration", NoState), Lost}
Working == {Conflict, Duplicate, Mistake, Lost, TimedOut, Failure("StaleLabelCache", NoState)}
Committing == {Conflict, Duplicate, Shutdown, Lost, Stalled, Ambiguous}
=============================================================================
