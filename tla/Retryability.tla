---------------------------- MODULE Retryability ----------------------------
(***************************************************************************)
(* What recovery a failure admits: retryability() in errors.py.            *)
(*                                                                         *)
(* A failure is its class and its SQLSTATE, the latter split where the     *)
(* code splits it: <<class, rest>>, and NoState for None.                  *)
(***************************************************************************)

NoState == <<"", "">>

OwnKinds == {"Stalled", "Expired", "StaleLabelCache", "StaleGeneration",
             "UnresolvedCommit", "ConfigurationError", "CapabilityError",
             "PoolClosed", "PoolTimeout", "TooManyRequests"}

(* psycopg's Error and its subclass, and what is not psycopg's at all.     *)
ForeignKinds == {"Error", "OperationalError", "TimeoutError", "OSError", "Exception"}

Failures == [kind : OwnKinds \cup ForeignKinds, state : STRING \X STRING]

Recoveries == {"safe", "reconnect", "backpressure", "reset_state",
               "refresh_labels", "unknown", "fatal"}

Retryable(recovery) ==
    recovery \in {"safe", "reconnect", "backpressure", "reset_state", "refresh_labels"}

-----------------------------------------------------------------------------
(* _OURS: the classes that say what they mean.                             *)
OwnAnswer ==
    [Stalled |-> "reconnect", Expired |-> "safe", StaleLabelCache |-> "refresh_labels",
     StaleGeneration |-> "reconnect", UnresolvedCommit |-> "unknown",
     ConfigurationError |-> "fatal", CapabilityError |-> "fatal", PoolClosed |-> "fatal",
     PoolTimeout |-> "backpressure", TooManyRequests |-> "backpressure"]

(* _BY_STATE, then _BY_CLASS, then fatal.                                  *)
ClassAnswer(class) ==
    CASE class = "08" -> "reconnect"
      [] class = "53" -> "backpressure"
      [] class = "57" -> "reconnect"
      [] OTHER        -> "fatal"

StateAnswer(state) ==
    CASE state \in {<<"40", "001">>, <<"40", "P01">>} -> "safe"
      [] state \in {<<"40", "003">>, <<"08", "007">>} -> "unknown"
      [] state \in {<<"57", "P01">>, <<"57", "P02">>, <<"57", "P03">>,
                    <<"57", "P05">>, <<"25", "P03">>} -> "reconnect"
      [] state \in {<<"53", "200">>, <<"53", "300">>,
                    <<"55", "006">>, <<"55", "P03">>} -> "backpressure"
      [] state = <<"26", "000">> -> "reset_state"
      [] state = <<"57", "014">> -> "fatal"
      [] OTHER -> ClassAnswer(state[1])

(* _classify_foreign.                                                      *)
ForeignAnswer(exc) ==
    CASE exc.kind \in {"Error", "OperationalError"} /\ exc.state # NoState -> StateAnswer(exc.state)
      [] exc.kind = "OperationalError" /\ exc.state = NoState -> "reconnect"
      [] exc.kind = "TimeoutError" -> "unknown"
      [] exc.kind = "OSError" -> "reconnect"
      [] OTHER -> "fatal"

Answer(exc) ==
    IF exc.kind \in OwnKinds THEN OwnAnswer[exc.kind] ELSE ForeignAnswer(exc)

(* _is_someone_else_first.                                                 *)
SomeoneElseFirst(exc) ==
    /\ exc.kind \in {"Error", "OperationalError"}
    /\ exc.state \in {<<"23", "505">>, <<"42", "P07">>}

(* retryability(exc, wrote=..., merging=...).                              *)
Recovery(exc, wrote, merging) ==
    CASE merging /\ Answer(exc) = "fatal" /\ SomeoneElseFirst(exc) -> "safe"
      [] wrote /\ Answer(exc) = "reconnect" -> "unknown"
      [] OTHER -> Answer(exc)

=============================================================================
