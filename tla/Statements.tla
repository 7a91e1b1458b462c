------------------------------ MODULE Statements ------------------------------
(***************************************************************************)
(* One connection that reads in pipelines (Pipeline) and merges elements   *)
(* (Upsert), a call at a time, in its caller's transactions or in          *)
(* autocommit.  The other session takes steps between any two statements.  *)
(***************************************************************************)
EXTENDS Pipeline, Upsert

vars == <<tx, auto, pipeline, upsert>>

Idle == step = "resting" /\ at = "resting"
Started == base' = IF tx = "idle" THEN scan ELSE base

Init ==
    /\ tx = "idle" /\ auto \in BOOLEAN
    /\ PipelineInit /\ UpsertInit

Reads == /\ at = "resting"
         /\ PipelineNext
         /\ Started /\ UNCHANGED <<kind, unique, store, mine, lastId, scan, wanted, at, call, cut>>
Writes == step = "resting" /\ UpsertNext /\ Started /\ UNCHANGED <<auto, pipeline>>

(* The caller's own transaction, and its own setting of the planner.       *)
Begin ==
    /\ Idle /\ auto /\ tx = "idle" /\ tx' = "open"
    /\ Started /\ UpsertBegins /\ UNCHANGED <<auto, pipeline>>
Commit ==
    /\ Idle /\ tx = "open" /\ tx' = "idle"
    /\ Started /\ UpsertCommits /\ UNCHANGED <<auto, pipeline>>
RollBack ==
    /\ Idle /\ tx # "idle" /\ tx' = "idle"
    /\ Started /\ UpsertRollsBack /\ UNCHANGED <<auto, pipeline>>

Next == Reads \/ Writes \/ Begin \/ Commit \/ RollBack
Spec == Init /\ [][Next]_vars

TypeOK == PipelineTypeOK /\ UpsertTypeOK
===============================================================================
