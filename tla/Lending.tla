------------------------------ MODULE Lending ------------------------------
(***************************************************************************)
(* What a pool of connections promises the callers of connection(): what   *)
(* is lent is lent to one caller at a time, was made since the last        *)
(* invalidate(), and carries nothing of the caller before that was         *)
(* noticed; and a caller is turned away only because the pool was          *)
(* invalidated again while it asked.  A lock or an interruption nobody     *)
(* notices is outside the promise: it may be handed on.                    *)
(* The queue, the workers, the checks and the flag are not spoken of.      *)
(***************************************************************************)
EXTENDS Integers

CONSTANTS Conns, Borrowers, NoConn,
          Steady      \* TRUE: the pool keeps the size it was made with

VARIABLES generation, \* raised by invalidate()
          made,       \* the generation each connection was made in
          noticed,    \* connections something noticed was left behind on
          call,       \* "idle", "waiting", "served" or "refused"
          holds,      \* the connection each borrower may use
          asked       \* the generation when it asked, 0 out of a call

vars == <<generation, made, noticed, call, holds, asked>>

Free(c) == \A b \in Borrowers : holds[b] # c

Init ==
    /\ generation = 0
    /\ made = [c \in Conns |-> 0]
    /\ noticed = {}
    /\ call = [b \in Borrowers |-> "idle"]
    /\ holds = [b \in Borrowers |-> NoConn]
    /\ asked = [b \in Borrowers |-> 0]

Ask(b) ==
    /\ call[b] = "idle"
    /\ call' = [call EXCEPT ![b] = "waiting"]
    /\ asked' = [asked EXCEPT ![b] = generation]
    /\ UNCHANGED <<generation, made, noticed, holds>>

Serve(b, c) ==
    /\ call[b] = "waiting"
    /\ Free(c)
    /\ made[c] = generation
    /\ c \notin noticed
    /\ call' = [call EXCEPT ![b] = "served"]
    /\ holds' = [holds EXCEPT ![b] = c]
    /\ UNCHANGED <<generation, made, noticed, asked>>

(* A pool that is made smaller may refuse without that reason.             *)
Refuse(b) ==
    /\ call[b] = "waiting"
    /\ Steady => generation > asked[b]
    /\ call' = [call EXCEPT ![b] = "refused"]
    /\ UNCHANGED <<generation, made, noticed, holds, asked>>

(* The wait is given up, or the refusal has reached the caller.            *)
GoAway(b) ==
    /\ call[b] \in {"waiting", "refused"}
    /\ call' = [call EXCEPT ![b] = "idle"]
    /\ asked' = [asked EXCEPT ![b] = 0]
    /\ UNCHANGED <<generation, made, noticed, holds>>

GiveBack(b) ==
    /\ call[b] = "served"
    /\ call' = [call EXCEPT ![b] = "idle"]
    /\ holds' = [holds EXCEPT ![b] = NoConn]
    /\ asked' = [asked EXCEPT ![b] = 0]
    /\ UNCHANGED <<generation, made, noticed>>

(* Only who holds a connection leaves anything behind on it.               *)
Soil(b) ==
    /\ call[b] = "served"
    /\ noticed' = noticed \cup {holds[b]}
    /\ UNCHANGED <<generation, made, call, holds, asked>>

(* Tidied up, or stamped as made now, and never while somebody holds it.   *)
Tidy(c) ==
    /\ Free(c)
    /\ noticed' = noticed \ {c}
    /\ UNCHANGED <<generation, made, call, holds, asked>>

Make(c) ==
    /\ Free(c)
    /\ made' = [made EXCEPT ![c] = generation]
    /\ UNCHANGED <<generation, noticed, call, holds, asked>>

Invalidate ==
    /\ generation' = generation + 1
    /\ UNCHANGED <<made, noticed, call, holds, asked>>

Next ==
    \/ \E b \in Borrowers :
          \/ Ask(b) \/ Refuse(b) \/ GoAway(b) \/ GiveBack(b) \/ Soil(b)
          \/ \E c \in Conns : Serve(b, c)
    \/ \E c \in Conns : Tidy(c) \/ Make(c)
    \/ Invalidate

Spec == Init /\ [][Next]_vars

=============================================================================
