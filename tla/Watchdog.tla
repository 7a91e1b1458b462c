------------------------------- MODULE Watchdog -------------------------------
(***************************************************************************)
(* The watchdog: one thread that shuts down the socket of a connection     *)
(* whose server has gone quiet (_watchdog.py), the blocks with a budget    *)
(* that arm it (deadline in connection_async.py, _watch, _unwatch and      *)
(* _hearing in _core.py), and the network it is there for.                 *)
(*                                                                         *)
(* Time is relative: how long until a watch is due, how long since the     *)
(* server was heard, so the clock runs for ever in finitely many states.   *)
(* The socket, the server's own statement_timeout and the network are      *)
(* external.  The thread holds the watchdog's lock except while it sleeps; *)
(* a connection's own thread or task never holds it while it waits.        *)
(*                                                                         *)
(* The server is heard when the connection's own thread or event loop next *)
(* steps the wait, not when its bytes arrive: an event loop may be kept    *)
(* busy, and a thread off the processor, for as long as it likes.          *)
(***************************************************************************)
EXTENDS Integers

CONSTANTS
    Connections,
    Limits,        \* the limits a block may ask for, in ticks
    Grace,         \* GRACE, in ticks
    Depth,         \* how deep a connection's blocks may be nested
    NoLimit, Unheard, NotReady, Forever, Nobody

MaxLimit == CHOOSE l \in Limits : \A k \in Limits : k <= l
Longest == MaxLimit + Grace      \* the longest a watch is ever armed for

ASSUME WatchdogAssumption ==
    /\ Limits \subseteq Nat \ {0} /\ Grace \in Nat \ {0}
    /\ Limits # {} /\ \E l \in Limits : \A k \in Limits : k <= l
    /\ Depth \in [Connections -> Nat]
    /\ NoLimit \notin Nat /\ Unheard \notin Int /\ NotReady \notin Int /\ Forever \notin Nat

Watches == UNION {{<<c, d>> : d \in 1..Depth[c]} : c \in Connections}

ASSUME NobodyAssumption == Nobody \notin Watches

VARIABLES
    due,       \* in how long each armed watch is to be victim at; Forever if it is not armed
    dead,      \* in how long the cancelled watches still in the heap come to its top
    thread,    \* the watchdog's thread
    wake,      \* in how long its wait times out
    victim,    \* the watch it has decided to fire
    fired,     \* the watches that have fired
    depth,     \* how many blocks are open on each connection
    note,      \* _agens_statement_timeout_ms
    heard,     \* how long ago the server was heard (_agens_heard_at)
    doing,     \* the statement or step each connection is in
    aim,       \* the limit it is setting
    server,    \* the limit the server holds
    ran,       \* how long the statement has been running, if the server counts
    ready,     \* how long ago the socket came ready, if nobody has stepped since
    unheeded,  \* those left ready for the grace, in the statement the thread
               \* last looked at (history)
    stalled,   \* the connections whose network has stopped
    shut,      \* those whose socket is shut down
    closed,    \* those closed by the driver
    lapsed     \* those whose server took a limit back without the note (history)

watchdog == <<due, dead, thread, wake, victim, fired>>
link == <<server, ran, ready, unheeded, stalled, shut, closed, lapsed>>
vars == <<watchdog, depth, note, heard, doing, aim, link>>

Statements == {"entering", "working", "leaving"}
Running(c) == doing[c] \in Statements
Armed == {w \in Watches : due[w] # Forever}
Free == thread # "firing"

TypeOK ==
    /\ due \in [Watches -> 0..Longest \cup {Forever}]
    /\ dead \subseteq 0..Longest
    /\ thread \in {"unborn", "awake", "asleep", "firing"}
    /\ wake \in 0..Longest \cup {Forever}
    /\ victim \in Watches \cup {Nobody}
    /\ fired \subseteq Watches
    /\ depth \in [Connections -> Nat] /\ \A c \in Connections : depth[c] <= Depth[c]
    /\ note \in [Connections -> Limits \cup {NoLimit}]
    /\ heard \in [Connections -> 0..Longest \cup {Unheard}]
    /\ doing \in [Connections -> Statements \cup {"nothing", "arming", "disarming"}]
    /\ aim \in [Connections -> Limits \cup {NoLimit}]
    /\ server \in [Connections -> Limits \cup {NoLimit}]
    /\ ran \in [Connections -> 0..MaxLimit]
    /\ ready \in [Connections -> 0..Grace \cup {NotReady}] /\ unheeded \subseteq Connections
    /\ stalled \subseteq Connections /\ shut \subseteq Connections
    /\ closed \subseteq Connections /\ lapsed \subseteq Connections

Init ==
    /\ due = [w \in Watches |-> Forever] /\ dead = {}
    /\ thread = "unborn" /\ wake = Forever
    /\ victim = Nobody
    /\ fired = {}
    /\ depth = [c \in Connections |-> 0]
    /\ note = [c \in Connections |-> NoLimit] /\ server = [c \in Connections |-> NoLimit]
    /\ heard = [c \in Connections |-> Unheard]
    /\ doing = [c \in Connections |-> "nothing"] /\ aim = [c \in Connections |-> NoLimit]
    /\ ran = [c \in Connections |-> 0]
    /\ ready = [c \in Connections |-> NotReady] /\ unheeded = {}
    /\ stalled = {} /\ shut = {} /\ closed = {} /\ lapsed = {}

-----------------------------------------------------------------------------
(* The connection's side.                                                  *)
GivenUp(c) == \E d \in 1..depth[c] : <<c, d>> \in fired

Do(c, what) == doing' = [doing EXCEPT ![c] = what]

(* The connection's own thread or loop steps its wait.                     *)
Step(c) ==
    /\ ready' = [ready EXCEPT ![c] = NotReady]
    /\ unheeded' = IF Free THEN unheeded \ {c} ELSE unheeded

SendUnheard(c, what) ==
    /\ c \notin closed
    /\ Do(c, what) /\ Step(c)
    /\ ran' = [ran EXCEPT ![c] = 0]
    /\ UNCHANGED heard

(* _hearing: the sending is heard of, if anything is armed.                *)
Send(c, what) ==
    /\ c \notin closed
    /\ Do(c, what) /\ Step(c)
    /\ ran' = [ran EXCEPT ![c] = 0]
    /\ heard' = [heard EXCEPT ![c] = IF depth[c] > 0 THEN 0 ELSE Unheard]

Enter(c, limit) ==
    /\ doing[c] = "nothing" /\ depth[c] < Depth[c]
    /\ Send(c, "entering")
    /\ aim' = [aim EXCEPT ![c] = limit]
    /\ UNCHANGED <<watchdog, depth, note, server, stalled, shut, closed, lapsed>>

Work(c) ==
    /\ doing[c] = "nothing"
    /\ Send(c, "working")
    /\ UNCHANGED <<watchdog, depth, note, aim, server, stalled, shut, closed, lapsed>>

(* The limit is put back, unless there is nobody to send it to or the      *)
(* transaction has failed.                                                 *)
PutBack(c) ==
    /\ doing[c] = "nothing" /\ depth[c] > 0 /\ ~GivenUp(c)
    /\ Send(c, "leaving")
    /\ aim' = [aim EXCEPT ![c] = NoLimit]
    /\ UNCHANGED <<watchdog, depth, note, server, stalled, shut, closed, lapsed>>

LeaveAsItIs(c) ==
    /\ doing[c] = "nothing" /\ depth[c] > 0
    /\ Do(c, "disarming")
    /\ UNCHANGED <<watchdog, depth, note, heard, aim, link>>

(* The network moves: there is something to read, or room to write on.     *)
Ready(c) ==
    /\ Running(c) /\ c \notin stalled \cup shut
    /\ ready[c] = NotReady
    /\ ready' = [ready EXCEPT ![c] = 0]
    /\ UNCHANGED <<watchdog, depth, note, heard, doing, aim, server, ran, unheeded, stalled, shut,
                   closed, lapsed>>

(* Part of an answer, or of the asking.                                    *)
Hear(c) ==
    /\ Running(c) /\ ready[c] # NotReady
    /\ heard' = [heard EXCEPT ![c] = IF depth[c] > 0 THEN 0 ELSE Unheard]
    /\ Step(c)
    /\ UNCHANGED <<watchdog, depth, note, doing, aim, server, ran, stalled, shut, closed, lapsed>>

(* The answer: a limit is then the server's, and the note follows.         *)
Answer(c) ==
    /\ Running(c) /\ ready[c] # NotReady
    /\ Step(c)
    /\ heard' = [heard EXCEPT ![c] = Unheard]
    /\ IF doing[c] = "working" THEN UNCHANGED <<note, server>>
       ELSE /\ server' = [server EXCEPT ![c] = aim[c]]
            /\ note' = [note EXCEPT ![c] = aim[c]]
    /\ Do(c, CASE doing[c] = "working" -> "nothing"
               [] doing[c] = "entering" -> "arming"
               [] doing[c] = "leaving" -> "disarming")
    /\ aim' = [aim EXCEPT ![c] = NoLimit]
    /\ ran' = [ran EXCEPT ![c] = 0]
    /\ UNCHANGED <<watchdog, depth, stalled, shut, closed, lapsed>>

(* The socket has been shut down under the statement: wait() says Stalled. *)
Break(c) ==
    /\ Running(c) /\ c \in shut
    /\ heard' = [heard EXCEPT ![c] = Unheard]
    /\ Do(c, IF doing[c] = "leaving" THEN "disarming" ELSE "nothing")
    /\ aim' = [aim EXCEPT ![c] = NoLimit]
    /\ Step(c)
    /\ UNCHANGED <<watchdog, depth, note, server, ran, stalled, shut, closed, lapsed>>

(* A savepoint is rolled back: the limit set since goes back on the        *)
(* server, and the note does not (see Session).                            *)
RollBack(c, limit) ==
    /\ doing[c] = "nothing" /\ depth[c] > 0 /\ c \notin shut \cup stalled
    /\ limit # server[c]
    /\ server' = [server EXCEPT ![c] = limit]
    /\ lapsed' = lapsed \cup {c}
    /\ UNCHANGED <<watchdog, depth, note, heard, doing, aim, ran, ready, unheeded, stalled, shut, closed>>

Stall(c) ==
    /\ c \notin stalled
    /\ stalled' = stalled \cup {c}
    /\ UNCHANGED <<watchdog, depth, note, heard, doing, aim, server, ran, ready, unheeded, shut, closed,
                   lapsed>>

-----------------------------------------------------------------------------
(* How long the server may go unheard.                                     *)
QuietAllowed(c) == note[c] + Grace

(* Arming and disarming, under the lock.                                   *)
Earliest(t) == (\A w \in Armed : t <= due[w]) /\ (\A t2 \in dead : t <= t2)
AlwaysLater(t) == FALSE
Sooner(t) == (\A w \in Armed : t < due[w]) /\ (\A t2 \in dead : t < t2)

Arm(c) ==
    /\ doing[c] = "arming" /\ Free
    /\ LET t == QuietAllowed(c)
           w == <<c, depth[c] + 1>>
       IN /\ due' = [due EXCEPT ![w] = t]
          /\ fired' = fired \ {w}
          /\ IF thread = "unborn" \/ Sooner(t) THEN thread' = "awake" /\ wake' = Forever
             ELSE UNCHANGED <<thread, wake>>
    /\ depth' = [depth EXCEPT ![c] = @ + 1]
    /\ Do(c, "nothing")
    /\ UNCHANGED <<dead, victim, note, heard, aim, link>>

(* Marked rather than searched for; when most of the heap is marked it is  *)
(* swept.                                                                  *)
NoLockNeeded == TRUE
LockFree == Free

Disarm(c) ==
    LET w == <<c, depth[c]>>
    IN /\ doing[c] = "disarming" /\ LockFree
       /\ due' = [due EXCEPT ![w] = Forever]
       /\ dead' \in IF w \in Armed THEN {dead \cup {due[w]}, {}} ELSE {dead}
       /\ closed' = IF w \in fired THEN closed \cup {c} ELSE closed
       /\ depth' = [depth EXCEPT ![c] = @ - 1]
       /\ Do(c, "nothing")
       /\ UNCHANGED <<thread, wake, victim, fired, note, heard, aim, server, ran, ready, unheeded,
                      stalled, shut, lapsed>>

-----------------------------------------------------------------------------
(* The thread.                                                             *)
Wake ==
    /\ thread = "asleep" /\ wake = 0
    /\ thread' = "awake" /\ wake' = Forever
    /\ UNCHANGED <<due, dead, victim, fired, depth, note, heard, doing, aim, link>>

Sweep ==
    /\ thread = "awake"
    /\ \E t \in dead : Earliest(t) /\ dead' = dead \ {t}
    /\ UNCHANGED <<due, thread, wake, victim, fired, depth, note, heard, doing, aim, link>>

Sleep ==
    /\ thread = "awake" /\ dead = {}
    /\ \/ Armed = {} /\ wake' = Forever
       \/ \E w \in Armed : Earliest(due[w]) /\ due[w] > 0 /\ wake' = due[w]
    /\ thread' = "asleep"
    /\ UNCHANGED <<due, dead, victim, fired, depth, note, heard, doing, aim, link>>

(* _look_again_at.  What it reads, a block's beginning or end changes only *)
(* under the lock, but for when the server was heard.                      *)
Overdue(c) ==
    /\ note[c] # NoLimit /\ heard[c] # Unheard
    /\ heard[c] >= QuietAllowed(c)

Later(c) ==
    IF note[c] = NoLimit THEN Grace
    ELSE IF heard[c] = Unheard THEN QuietAllowed(c)
    ELSE QuietAllowed(c) - heard[c]

Look(w) ==
    /\ thread = "awake"
    /\ w \in Armed /\ due[w] = 0
    /\ IF Overdue(w[1])
       THEN /\ thread' = "firing" /\ victim' = w
            /\ UNCHANGED due
       ELSE /\ due' = [due EXCEPT ![w] = Later(w[1])]
            /\ UNCHANGED <<thread, victim>>
    /\ UNCHANGED <<dead, wake, fired, depth, note, heard, doing, aim, link>>

(* The answer may have come since.  A connection closed is left alone.     *)
Fire ==
    LET c == victim[1]
    IN /\ thread = "firing"
       /\ fired' = fired \cup {victim}
       /\ due' = [due EXCEPT ![victim] = Forever]
       /\ shut' = IF c \in closed THEN shut ELSE shut \cup {c}
       /\ thread' = "awake" /\ victim' = Nobody
       /\ UNCHANGED <<dead, wake, depth, note, heard, doing, aim, server, ran, ready, unheeded,
                      stalled, closed, lapsed>>

(* Time passes, but not so far that a server which can be reached, and is  *)
(* not kept waiting by its client, has let a statement outlast its limit.  *)
Down(t) == IF t = Forever \/ t = 0 THEN t ELSE t - 1
Up(t) == IF t = Unheard \/ t = Longest THEN t ELSE t + 1
Older(t) == IF t = NotReady \/ t = Grace THEN t ELSE t + 1

Timed(c) == Running(c) /\ c \notin stalled \cup shut /\ server[c] # NoLimit
AtLimit(c) == ran[c] >= server[c]

Tick ==
    /\ \A c \in Connections : Timed(c) /\ AtLimit(c) => ready[c] # NotReady
    /\ due' = [w \in Watches |-> Down(due[w])]
    /\ dead' = {Down(t) : t \in dead}
    /\ wake' = Down(wake)
    /\ heard' = [c \in Connections |-> Up(heard[c])]
    /\ ran' = [c \in Connections |->
                  IF ~Timed(c) THEN 0 ELSE IF AtLimit(c) THEN ran[c] ELSE ran[c] + 1]
    /\ ready' = [c \in Connections |-> Older(ready[c])]
    /\ unheeded' = unheeded \cup {c \in Connections : ready'[c] = Grace}
    /\ UNCHANGED <<thread, victim, fired, depth, note, doing, aim, server, stalled, shut, closed,
                   lapsed>>

Thread == Wake \/ Sweep \/ Sleep \/ (\E w \in Watches : Look(w)) \/ Fire

Next ==
    \/ \E c \in Connections :
          \/ \E l \in Limits : Enter(c, l)
          \/ Work(c) \/ PutBack(c) \/ LeaveAsItIs(c)
          \/ Ready(c) \/ Hear(c) \/ Answer(c) \/ Break(c) \/ Stall(c)
          \/ \E l \in Limits \cup {NoLimit} : RollBack(c, l)
          \/ Arm(c) \/ Disarm(c)
    \/ Thread \/ Tick

Spec == Init /\ [][Next]_vars

(* The clock runs, the thread is scheduled, and a caller whose socket was  *)
(* shut down finds out.                                                    *)
FairSpec ==
    /\ Spec /\ WF_vars(Tick) /\ WF_vars(Thread)
    /\ \A c \in Connections : WF_vars(Break(c))

-----------------------------------------------------------------------------
(* The thread never sleeps past a watch: whoever arms one that is due      *)
(* before the thread would wake has woken it.                              *)
NeverOversleeps ==
    /\ Armed # {} => thread # "unborn"
    /\ thread = "asleep" =>
          \A w \in Armed : wake # Forever /\ wake <= due[w]

(* A statement that is merely slow is ended by the server: a connection    *)
(* loses its socket only to a network that stopped, or to its own thread   *)
(* or event loop, if that has left the socket ready for as long as the     *)
(* grace - provided the note is the server's limit.  And a block that      *)
(* ended in time is not shut down after.                                   *)
ShutJustified ==
    [][\A c \in shut' \ shut : c \in stalled \cup unheeded \cup lapsed /\ depth[c] > 0]_vars

(* A caller in a block is freed from a network that stopped - unless an    *)
(* inner block has put the server's default back, which leaves the client  *)
(* nothing to measure silence against, or it is the SET that begins the    *)
(* outermost block, which nothing watches yet.                             *)
StalledIsFreed ==
    \A c \in Connections :
        (Running(c) /\ c \in stalled /\ depth[c] > 0 /\ note[c] # NoLimit) ~> ~Running(c)
=============================================================================
