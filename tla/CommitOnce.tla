----------------------------- MODULE CommitOnce -----------------------------
(***************************************************************************)
(* What run_transaction promises for work that must not run twice: its     *)
(* writes take effect at most once, and what the caller is told agrees     *)
(* with whether they did - or the caller is told that nobody knows.        *)
(***************************************************************************)
VARIABLES effect,  \* "none" or "applied": what the database holds
          told     \* what the caller has been told so far

vars == <<effect, told>>

Init == effect = "none" /\ told = "pending"

(* The writes land: while the caller waits, or when it was told that they  *)
(* might, and never after it was told that they did not.                   *)
Apply ==
    /\ effect = "none" /\ told \in {"pending", "unknown"}
    /\ effect' = "applied"
    /\ UNCHANGED told

TellDone ==
    /\ told = "pending" /\ effect = "applied"
    /\ told' = "done"
    /\ UNCHANGED effect

(* The work came to nothing that needed writing, or it failed.             *)
TellNothing ==
    /\ told = "pending" /\ effect = "none"
    /\ told' \in {"empty", "failed"}
    /\ UNCHANGED effect

TellUnknown ==
    /\ told = "pending"
    /\ told' = "unknown"
    /\ UNCHANGED effect

Next == Apply \/ TellDone \/ TellNothing \/ TellUnknown

Spec == Init /\ [][Next]_vars

=============================================================================
