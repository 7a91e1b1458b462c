----------------------------- MODULE MCWatchdog -----------------------------
(* One connection whose blocks may be nested: two watches in the heap.     *)
EXTENDS Watchdog, TLC

CONSTANT c1

Nesting == c1 :> 2
=============================================================================
