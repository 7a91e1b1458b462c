--------------------------- MODULE WatchdogProofs ---------------------------
(***************************************************************************)
(* Proofs about Watchdog, for any number of connections, any nesting of    *)
(* their blocks and any limits.                                            *)
(*                                                                         *)
(* Why a connection whose server keeps its limit, on a network that moves  *)
(* and with a client that steps, keeps its socket: the thread measures     *)
(* silence since the server was last heard, the server measures since the  *)
(* statement began.  Silence is longer by no more than what the client has *)
(* left lying, and that has to come to GRACE.  What the thread has decided *)
(* stays true until it acts, although the answer may come in between:      *)
(* blocks begin and end only under the lock it holds.                      *)
(*                                                                         *)
(* And about Deadline, which says what limit a block with a budget gives   *)
(* its next statement, for budgets and reserves of any length.             *)
(***************************************************************************)
EXTENDS Watchdog, Deadline, TLAPS

(* Where a block stands while it begins and ends.                          *)
Stepwise ==
    \A c \in Connections :
        /\ doing[c] \in {"entering", "arming"} => depth[c] < Depth[c]
        /\ doing[c] = "entering" => aim[c] \in Limits
        /\ doing[c] = "arming" => note[c] \in Limits
        /\ doing[c] \in {"leaving", "disarming"} => depth[c] > 0

(* Only blocks that are open are watched.                                  *)
WatchesAreOpen == \A w \in Watches : w \in Armed => w[2] <= depth[w[1]]

(* The thread is up once there is a watch, and wakes for what is first in  *)
(* its heap, a cancelled watch included.                                   *)
WakesInTime ==
    /\ Armed # {} => thread # "unborn"
    /\ thread = "asleep" =>
          /\ \A w \in Armed : wake # Forever /\ wake <= due[w]
          /\ \A t \in dead : wake # Forever /\ wake <= t

(* Silence is measured while a statement runs, on a connection whose server *)
(* and note agree; the server, if it can be reached, is ahead of it but    *)
(* for what the client has left lying.                                     *)
Agrees(c) == note[c] = server[c]
Lying(c) == IF ready[c] = NotReady THEN 0 ELSE ready[c]
Blamed == stalled \cup lapsed

SilenceIsShorter ==
    \A c \in Connections :
        /\ c \notin lapsed => Agrees(c)
        /\ heard[c] # Unheard => Running(c)
        /\ ready[c] = Grace => c \in unheeded
        /\ c \notin Blamed \cup shut /\ server[c] # NoLimit => ran[c] <= server[c]
        /\ c \notin Blamed \cup shut \cup unheeded /\ server[c] # NoLimit /\ heard[c] # Unheard =>
              heard[c] <= ran[c] + Lying(c)

(* Whom the thread has decided to shut down.                               *)
VictimBlamed ==
    thread = "firing" =>
        /\ victim \in Watches /\ victim \in Armed
        /\ victim[1] \in Blamed \cup unheeded \cup shut

IInv ==
    TypeOK /\ Stepwise /\ WatchesAreOpen /\ WakesInTime /\ SilenceIsShorter /\ VictimBlamed

-----------------------------------------------------------------------------
(* The longest limit is one of them, and no other is longer.               *)
LEMMA LimitType ==
    /\ MaxLimit \in Limits /\ MaxLimit \in Nat /\ Longest \in Nat
    /\ \A k \in Limits : k \in Nat /\ 0 < k /\ k <= MaxLimit /\ k + Grace \in 0..Longest
    /\ Grace \in Nat /\ 0 < Grace /\ Grace \in 0..Longest
<1>1. MaxLimit \in Limits /\ \A k \in Limits : k <= MaxLimit
  BY WatchdogAssumption DEF WatchdogAssumption, MaxLimit
<1> QED BY <1>1, WatchdogAssumption DEF WatchdogAssumption, Longest

(* A watch is a connection's, at a depth of its blocks.                    *)
LEMMA WatchType ==
    /\ \A w \in Watches :
          /\ w[1] \in Connections /\ w[2] \in 1..Depth[w[1]]
          /\ w = <<w[1], w[2]>>
    /\ \A c \in Connections : \A d \in 1..Depth[c] : <<c, d>> \in Watches
BY DEF Watches

LEMMA InitIInv == Init => IInv
<1> SUFFICES ASSUME Init PROVE IInv
  OBVIOUS
<1> USE WatchdogAssumption DEF WatchdogAssumption, Init
<1>1. TypeOK
  BY LimitType DEF TypeOK
<1>2. Armed = {}
  BY DEF Armed
<1>3. Stepwise /\ WatchesAreOpen /\ WakesInTime /\ SilenceIsShorter /\ VictimBlamed
  BY <1>2 DEF Stepwise, WatchesAreOpen, WakesInTime, SilenceIsShorter, Agrees, Lying,
       VictimBlamed
<1> QED BY <1>1, <1>3 DEF IInv

-----------------------------------------------------------------------------
(* What a connection does by itself leaves the thread and the watches alone. *)
ByItself(c) ==
    \/ \E l \in Limits : Enter(c, l)
    \/ Work(c) \/ PutBack(c) \/ LeaveAsItIs(c)
    \/ Ready(c) \/ Hear(c) \/ Answer(c) \/ Break(c) \/ Stall(c)
    \/ \E l \in Limits \cup {NoLimit} : RollBack(c, l)

LEMMA ThreadUntouched ==
    ASSUME NEW c \in Connections, ByItself(c)
    PROVE  /\ UNCHANGED <<watchdog, depth>>
           /\ stalled \subseteq stalled' /\ lapsed \subseteq lapsed' /\ shut' = shut
           /\ thread = "firing" => unheeded \subseteq unheeded'
BY DEF ByItself, Enter, Work, PutBack, LeaveAsItIs, Ready, Hear, Answer, Break, Stall, RollBack,
       Send, Step, Free, watchdog, link

LEMMA StepsOfAConnection ==
    ASSUME IInv, NEW c \in Connections, ByItself(c)
    PROVE  IInv'
<1> USE WatchdogAssumption DEF WatchdogAssumption, Statements, Running
<1>1. UNCHANGED <<due, dead, thread, wake, victim, fired, depth, shut>>
  BY ThreadUntouched DEF watchdog
<1>2. Armed' = Armed
  BY <1>1 DEF Armed
<1>3. TypeOK'
  BY <1>1, LimitType DEF IInv, TypeOK, Stepwise, ByItself, Enter, Work, PutBack, LeaveAsItIs,
     Ready, Hear, Answer, Break, Stall, RollBack, Send, Step, Do, link
<1>4. Stepwise'
  BY <1>1 DEF IInv, TypeOK, Stepwise, ByItself, Enter, Work, PutBack, LeaveAsItIs, Ready, Hear,
     Answer, Break, Stall, RollBack, Send, Step, Do, link
<1>5. WatchesAreOpen' /\ WakesInTime'
  BY <1>1, <1>2 DEF IInv, WatchesAreOpen, WakesInTime
<1>6. VictimBlamed'
  BY <1>1, <1>2, ThreadUntouched DEF IInv, VictimBlamed, Blamed
<1>7. SilenceIsShorter'
  <2>0. server[c] # NoLimit => server[c] \in Nat /\ 0 <= server[c]
    <3>1. server[c] # NoLimit => server[c] \in Limits
      BY DEF IInv, TypeOK
    <3>2. server[c] # NoLimit => server[c] \in Nat
      BY <3>1, LimitType
    <3> QED BY <3>2
  <2> USE LimitType, <1>1
      DEF IInv, TypeOK, SilenceIsShorter, Agrees, Lying, Blamed, Step, Do, link
  <2>1. CASE (\E l \in Limits : Enter(c, l)) \/ Work(c) \/ PutBack(c)
    <3>1. /\ UNCHANGED <<note, server, stalled, shut, lapsed>> /\ Running(c)'
          /\ heard'[c] \in {0, Unheard} /\ ran'[c] = 0 /\ ready'[c] = NotReady
      BY <2>1 DEF Enter, Work, PutBack, Send
    <3>2. \A d \in Connections \ {c} :
             /\ heard'[d] = heard[d] /\ ran'[d] = ran[d] /\ ready'[d] = ready[d]
             /\ doing'[d] = doing[d] /\ (d \in unheeded' <=> d \in unheeded)
      BY <2>1 DEF Enter, Work, PutBack, Send
    <3> QED BY <3>1, <3>2, <2>0
  <2>3. CASE LeaveAsItIs(c) \/ Stall(c) \/ Break(c)
    BY <2>3 DEF LeaveAsItIs, Stall, Break
  <2>4. CASE Ready(c)
    BY <2>4 DEF Ready
  <2>5. CASE Hear(c)
    BY <2>5 DEF Hear
  <2>6. CASE Answer(c)
    BY <2>6 DEF Answer
  <2>7. CASE \E l \in Limits \cup {NoLimit} : RollBack(c, l)
    BY <2>7 DEF RollBack
  <2> QED BY <2>1, <2>3, <2>4, <2>5, <2>6, <2>7 DEF ByItself
<1> QED BY <1>3, <1>4, <1>5, <1>6, <1>7 DEF IInv

-----------------------------------------------------------------------------
(* A watch is armed over the newest block, and wakes the thread if it is   *)
(* to be the first.                                                        *)
LEMMA StepArm ==
    ASSUME IInv, NEW c \in Connections, Arm(c)
    PROVE  IInv'
<1> DEFINE t == QuietAllowed(c)
           w == <<c, depth[c] + 1>>
<1> USE WatchdogAssumption DEF WatchdogAssumption, IInv
<1>1. /\ doing[c] = "arming" /\ thread # "firing"
      /\ due' = [due EXCEPT ![w] = t] /\ fired' = fired \ {w}
      /\ depth' = [depth EXCEPT ![c] = @ + 1] /\ doing' = [doing EXCEPT ![c] = "nothing"]
      /\ UNCHANGED <<dead, victim, note, heard, aim, link>>
      /\ \/ (thread = "unborn" \/ Sooner(t)) /\ thread' = "awake" /\ wake' = Forever
         \/ thread # "unborn" /\ ~Sooner(t) /\ UNCHANGED <<thread, wake>>
  BY DEF Arm, Free, Do
<1>2. t \in 0..Longest /\ w \in Watches /\ depth[c] < Depth[c]
  BY <1>1, LimitType, WatchType DEF TypeOK, Stepwise, QuietAllowed
<1>3. Armed' = Armed \cup {w}
  BY <1>1, <1>2, LimitType DEF Armed, TypeOK
<1>4. TypeOK'
  BY <1>1, <1>2 DEF TypeOK, link
<1>5. Stepwise'
  BY <1>1 DEF TypeOK, Stepwise
<1>6. WatchesAreOpen'
  BY <1>1, <1>2, <1>3, WatchType DEF TypeOK, WatchesAreOpen
<1>7. WakesInTime'
  <2>1. CASE thread' = "awake"
    BY <2>1 DEF WakesInTime
  <2>2. CASE thread' = thread /\ wake' = wake /\ thread = "asleep" /\ ~Sooner(t)
    <3>1. wake # Forever /\ wake <= t
      BY <2>2, <1>2, LimitType DEF WakesInTime, Sooner, TypeOK, Armed
    <3> QED BY <3>1, <2>2, <1>1, <1>2, <1>3 DEF WakesInTime, TypeOK, Armed
  <2> QED BY <2>1, <2>2, <1>1 DEF WakesInTime, TypeOK
<1>8. SilenceIsShorter'
  BY <1>1 DEF TypeOK, SilenceIsShorter, Agrees, Lying, Blamed, Running, Statements, link
<1>9. VictimBlamed'
  BY <1>1 DEF VictimBlamed
<1> QED BY <1>4, <1>5, <1>6, <1>7, <1>8, <1>9

(* The newest block's watch is cancelled; it may stay in the heap.         *)
LEMMA StepDisarm ==
    ASSUME IInv, NEW c \in Connections, Disarm(c)
    PROVE  IInv'
<1> DEFINE w == <<c, depth[c]>>
<1> USE WatchdogAssumption DEF WatchdogAssumption, IInv
<1>1. /\ doing[c] = "disarming" /\ thread # "firing"
      /\ due' = [due EXCEPT ![w] = Forever]
      /\ dead' = dead \/ dead' = {} \/ (w \in Armed /\ dead' = dead \cup {due[w]})
      /\ closed' = closed \/ closed' = closed \cup {c}
      /\ depth' = [depth EXCEPT ![c] = @ - 1] /\ doing' = [doing EXCEPT ![c] = "nothing"]
      /\ UNCHANGED <<thread, wake, victim, fired, note, heard, aim, server, ran, ready, unheeded,
                     stalled, shut, lapsed>>
  BY DEF Disarm, LockFree, Free, Do
<1>2. depth[c] > 0 /\ w \in Watches
  BY <1>1, WatchType DEF TypeOK, Stepwise
<1>3. Armed' = Armed \ {w}
  BY <1>1, <1>2 DEF Armed, TypeOK
<1>4. TypeOK'
  <2>1. due' \in [Watches -> 0..Longest \cup {Forever}]
    BY <1>1 DEF TypeOK
  <2>2. dead' \subseteq 0..Longest
    <3>1. w \in Armed => due[w] \in 0..Longest
      BY DEF TypeOK, Armed
    <3>2. dead \subseteq 0..Longest
      BY DEF TypeOK
    <3>3. dead' = dead \/ dead' = {} \/ (w \in Armed /\ dead' = dead \cup {due[w]})
      BY <1>1
    <3> QED BY <3>1, <3>2, <3>3
  <2>3. depth' \in [Connections -> Nat] /\ \A d \in Connections : depth'[d] <= Depth[d]
    BY <1>1, <1>2 DEF TypeOK
  <2>4. doing' \in [Connections -> Statements \cup {"nothing", "arming", "disarming"}]
    BY <1>1 DEF TypeOK
  <2> QED BY <1>1, <2>1, <2>2, <2>3, <2>4 DEF TypeOK
<1>5. Stepwise'
  BY <1>1 DEF TypeOK, Stepwise
<1>6. WatchesAreOpen'
  <2> SUFFICES ASSUME NEW u \in Watches, u \in Armed, u # w PROVE u[2] <= depth'[u[1]]
    BY <1>3 DEF WatchesAreOpen
  <2>1. u[1] \in Connections /\ u[2] \in Nat /\ u[2] <= depth[u[1]] /\ u = <<u[1], u[2]>>
    BY WatchType, WatchdogAssumption DEF WatchdogAssumption, WatchesAreOpen
  <2>2. u[1] = c => u[2] # depth[c]
    BY <2>1
  <2>3. depth[u[1]] \in Nat /\ depth'[u[1]] = IF u[1] = c THEN depth[u[1]] - 1 ELSE depth[u[1]]
    BY <1>1, <2>1 DEF TypeOK
  <2>4. CASE u[1] = c
    BY <2>1, <2>2, <2>3, <2>4
  <2>5. CASE u[1] # c
    BY <2>1, <2>3, <2>5
  <2> QED BY <2>4, <2>5
<1>7. WakesInTime'
  BY <1>1, <1>3 DEF WakesInTime, Armed, TypeOK
<1>8. SilenceIsShorter'
  BY <1>1 DEF TypeOK, SilenceIsShorter, Agrees, Lying, Blamed, Running, Statements
<1>9. VictimBlamed'
  BY <1>1 DEF VictimBlamed
<1> QED BY <1>4, <1>5, <1>6, <1>7, <1>8, <1>9

-----------------------------------------------------------------------------
(* The thread decides only on a connection that stalled, or left its       *)
(* socket ready: another, which its server's limit could reach, has not    *)
(* been silent for so long.                                                *)
LEMMA OverdueIsBlamed ==
    ASSUME IInv, NEW c \in Connections, Overdue(c)
    PROVE  c \in Blamed \cup unheeded \cup shut
<1> SUFFICES ASSUME c \notin Blamed \cup unheeded \cup shut PROVE FALSE
  OBVIOUS
<1>1. note[c] \in Limits /\ server[c] = note[c] /\ heard[c] # Unheard
  BY DEF Overdue, IInv, TypeOK, SilenceIsShorter, Agrees, Blamed
<1>2. heard[c] <= ran[c] + Lying(c) /\ ran[c] <= note[c]
  BY <1>1, WatchdogAssumption DEF WatchdogAssumption, IInv, SilenceIsShorter
<1>3. heard[c] >= note[c] + Grace
  BY DEF Overdue, QuietAllowed
<1>4. heard[c] \in Nat /\ ran[c] \in Nat
  BY <1>1, LimitType DEF IInv, TypeOK
<1>5. note[c] \in Nat /\ Grace \in Nat /\ Grace > 0
  BY <1>1, LimitType
<1>6. Lying(c) \in Nat /\ Lying(c) < Grace
  <2>1. ready[c] \in 0..Grace \cup {NotReady} /\ ready[c] # Grace
    BY DEF IInv, TypeOK, SilenceIsShorter
  <2> QED BY <1>5, <2>1 DEF Lying
<1> QED BY <1>2, <1>3, <1>4, <1>5, <1>6

(* When the thread looks again lies ahead.                                 *)
LEMMA LaterType ==
    ASSUME TypeOK, NEW c \in Connections, ~Overdue(c)
    PROVE  Later(c) \in 0..Longest
<1>1. CASE note[c] = NoLimit
  BY <1>1, LimitType DEF Later
<1>2. CASE note[c] \in Limits /\ heard[c] = Unheard
  <2>1. note[c] # NoLimit
    BY <1>2, WatchdogAssumption DEF WatchdogAssumption
  <2>2. Later(c) = note[c] + Grace
    BY <1>2, <2>1, Zenon DEF Later, QuietAllowed
  <2> QED BY <1>2, <2>2, LimitType
<1>3. CASE note[c] \in Limits /\ heard[c] # Unheard
  <2>1. note[c] # NoLimit
    BY <1>3, WatchdogAssumption DEF WatchdogAssumption
  <2>2. note[c] + Grace \in 0..Longest
    BY <1>3, LimitType
  <2>3. heard[c] \in 0..Longest
    BY <1>3 DEF TypeOK
  <2>4. ~(heard[c] >= note[c] + Grace)
    BY <1>3, <2>1 DEF Overdue, QuietAllowed
  <2>5. Later(c) = (note[c] + Grace) - heard[c]
    BY <1>3, <2>1 DEF Later, QuietAllowed
  <2>6. note[c] \in Nat /\ Grace \in Nat /\ Longest \in Nat
    BY <1>3, LimitType
  <2> QED BY <2>2, <2>3, <2>4, <2>5, <2>6
<1> QED BY <1>1, <1>2, <1>3 DEF TypeOK

LEMMA StepsOfTheThread ==
    ASSUME IInv, Thread
    PROVE  IInv'
<1> USE WatchdogAssumption DEF WatchdogAssumption, IInv
<1>1. UNCHANGED <<depth, note, heard, doing, aim, server, ran, ready, unheeded, stalled, lapsed,
                  closed>>
      /\ shut \subseteq shut'
  BY DEF Thread, Wake, Sweep, Sleep, Look, Fire, link
<1>2. Stepwise' /\ SilenceIsShorter'
  BY <1>1 DEF Stepwise, SilenceIsShorter, Agrees, Lying, Blamed, Running, Statements
<1>3. CASE Wake
  BY <1>1, <1>2, <1>3 DEF Wake, link, TypeOK, Armed, WatchesAreOpen, WakesInTime, VictimBlamed
<1>4. CASE Sweep
  BY <1>1, <1>2, <1>4 DEF Sweep, link, TypeOK, Armed, WatchesAreOpen, WakesInTime, VictimBlamed
<1>5. CASE Sleep
  <2>1. TypeOK'
    BY <1>5 DEF Sleep, link, TypeOK, Armed
  <2>2. WakesInTime'
    BY <1>5 DEF Sleep, WakesInTime, Armed, TypeOK, Earliest
  <2> QED BY <1>1, <1>2, <1>5, <2>1, <2>2 DEF Sleep, Armed, WatchesAreOpen, VictimBlamed
<1>6. ASSUME NEW w \in Watches, Look(w) PROVE IInv'
  <2>1. CASE Overdue(w[1])
    BY <1>1, <1>2, <1>6, <2>1, OverdueIsBlamed, WatchType
       DEF Look, link, TypeOK, Armed, WatchesAreOpen, WakesInTime, VictimBlamed, Blamed
  <2>2. CASE ~Overdue(w[1])
    <3>1. /\ due' = [due EXCEPT ![w] = Later(w[1])] /\ thread = "awake" /\ w \in Armed
          /\ UNCHANGED <<dead, thread, wake, victim, fired, shut>>
      BY <1>6, <2>2 DEF Look, link
    <3>2. Later(w[1]) \in 0..Longest
      BY <2>2, LaterType, WatchType
    <3>3. TypeOK'
      BY <1>1, <3>1, <3>2 DEF TypeOK
    <3>4. Armed' = Armed
      BY <3>1, <3>2, LimitType DEF Armed, TypeOK
    <3> QED BY <1>1, <1>2, <3>1, <3>3, <3>4 DEF WatchesAreOpen, WakesInTime, VictimBlamed
  <2> QED BY <2>1, <2>2
<1>7. CASE Fire
  <2>1. victim \in Watches /\ victim[1] \in Connections
    BY <1>7, WatchType DEF Fire, VictimBlamed
  <2>2. TypeOK'
    BY <1>1, <1>7, <2>1 DEF Fire, TypeOK
  <2>3. Armed' = Armed \ {victim} /\ thread' = "awake"
    BY <1>7, <2>1 DEF Fire, Armed, TypeOK
  <2> QED BY <1>1, <1>2, <2>2, <2>3 DEF WatchesAreOpen, WakesInTime, VictimBlamed
<1> QED BY <1>3, <1>4, <1>5, <1>6, <1>7 DEF Thread

(* Time passes for the thread and for the servers alike.                   *)
LEMMA StepTick ==
    ASSUME IInv, Tick
    PROVE  IInv'
<1> USE WatchdogAssumption DEF WatchdogAssumption, IInv, Tick
<1>1. /\ \A t \in 0..Longest : Down(t) \in 0..Longest /\ Down(t) # Forever
      /\ Down(Forever) = Forever
      /\ \A t, u \in 0..Longest : t <= u => Down(t) <= Down(u)
  BY LimitType DEF Down
<1>2. /\ \A t \in 0..Longest : Up(t) \in 0..Longest /\ Up(t) <= t + 1
      /\ Up(Unheard) = Unheard
      /\ \A t \in 0..Longest : Up(t) # Unheard
  BY LimitType DEF Up
<1>3. \A t \in 0..Grace \cup {NotReady} :
         Older(t) \in 0..Grace \cup {NotReady} /\ (Older(t) = NotReady <=> t = NotReady)
         /\ (t # NotReady /\ Older(t) # Grace => Older(t) = t + 1)
  BY LimitType DEF Older
<1>4. Armed' = Armed
  BY <1>1 DEF Armed, TypeOK
<1>5. ASSUME NEW c \in Connections, c \notin Blamed \cup shut, Timed(c)
      PROVE  /\ server[c] \in Limits /\ ran[c] \in Nat /\ ran[c] <= server[c]
             /\ ran'[c] = IF AtLimit(c) THEN ran[c] ELSE ran[c] + 1
             /\ AtLimit(c) => ready[c] # NotReady
             /\ ~AtLimit(c) => ran[c] < server[c]
  <2>1. server[c] \in Limits /\ ran[c] \in 0..MaxLimit
    BY <1>5 DEF Timed, TypeOK
  <2>2. ran[c] <= server[c]
    BY <1>5 DEF Timed, SilenceIsShorter
  <2>3. ran'[c] = (IF AtLimit(c) THEN ran[c] ELSE ran[c] + 1) /\ (AtLimit(c) => ready[c] # NotReady)
    BY <1>5
  <2>4. server[c] \in Nat /\ MaxLimit \in Nat
    BY <2>1, LimitType
  <2> QED BY <2>1, <2>2, <2>3, <2>4 DEF AtLimit
<1>6. ran' \in [Connections -> 0..MaxLimit]
  <2> SUFFICES ASSUME NEW c \in Connections PROVE ran'[c] \in 0..MaxLimit
    OBVIOUS
  <2>1. CASE ~Timed(c)
    BY <2>1, LimitType
  <2>2. CASE Timed(c) /\ AtLimit(c)
    BY <2>2 DEF TypeOK
  <2>3. CASE Timed(c) /\ ~AtLimit(c)
    <3>1. ran'[c] = ran[c] + 1 /\ server[c] \in Limits /\ ran[c] \in 0..MaxLimit
      BY <2>3 DEF TypeOK, Timed
    <3>2. server[c] \in Nat /\ server[c] <= MaxLimit /\ MaxLimit \in Nat
      BY <3>1, LimitType
    <3>3. ran[c] < server[c]
      BY <2>3, <3>1, <3>2 DEF AtLimit
    <3> QED BY <3>1, <3>2, <3>3
  <2> QED BY <2>1, <2>2, <2>3
<1>7. TypeOK'
  <2>1. due' \in [Watches -> 0..Longest \cup {Forever}] /\ dead' \subseteq 0..Longest
        /\ wake' \in 0..Longest \cup {Forever}
    BY <1>1 DEF TypeOK
  <2>2. heard' \in [Connections -> 0..Longest \cup {Unheard}]
    BY <1>2 DEF TypeOK
  <2>3. ready' \in [Connections -> 0..Grace \cup {NotReady}] /\ unheeded' \subseteq Connections
    BY <1>3 DEF TypeOK
  <2> QED BY <1>6, <2>1, <2>2, <2>3 DEF TypeOK
<1>8. Stepwise' /\ WatchesAreOpen' /\ VictimBlamed'
  BY <1>4 DEF Stepwise, WatchesAreOpen, VictimBlamed, Blamed
<1>9. WakesInTime'
  BY <1>1, <1>4 DEF WakesInTime, TypeOK, Armed
<1>10. SilenceIsShorter'
  <2> SUFFICES ASSUME NEW c \in Connections
               PROVE  /\ heard'[c] # Unheard => Running(c)'
                      /\ ready'[c] = Grace => c \in unheeded'
                      /\ c \notin Blamed \cup shut /\ server[c] # NoLimit => ran'[c] <= server[c]
                      /\ c \notin Blamed \cup shut \cup unheeded' /\ server[c] # NoLimit
                         /\ heard'[c] # Unheard => heard'[c] <= ran'[c] + Lying(c)'
    BY DEF SilenceIsShorter, Agrees, Blamed
  <2>1. heard'[c] = Up(heard[c]) /\ (heard'[c] # Unheard => heard[c] # Unheard)
    BY <1>2
  <2>2. heard'[c] # Unheard => Running(c)'
    BY <2>1 DEF SilenceIsShorter, Running
  <2>3. ready'[c] = Grace => c \in unheeded'
    OBVIOUS
  <2>4. c \notin Blamed \cup shut /\ server[c] # NoLimit => ran'[c] <= server[c]
    <3>1. CASE Timed(c)
      <4>1. server[c] \in Limits => server[c] \in Nat
        BY LimitType
      <4> QED BY <1>5, <3>1, <4>1
    <3>2. CASE ~Timed(c)
      <4>1. server[c] # NoLimit => server[c] \in Nat
        BY LimitType DEF TypeOK
      <4> QED BY <3>2, <4>1
    <3> QED BY <3>1, <3>2
  <2>5. ASSUME c \notin Blamed \cup shut \cup unheeded', server[c] # NoLimit, heard'[c] # Unheard
        PROVE  heard'[c] <= ran'[c] + Lying(c)'
    <3>1. Timed(c) /\ heard[c] # Unheard
      BY <2>1, <2>5 DEF SilenceIsShorter, Timed, Blamed
    <3>2. heard[c] <= ran[c] + Lying(c)
      BY <2>5, <3>1 DEF SilenceIsShorter
    <3>3. heard[c] \in Nat /\ heard'[c] \in Nat /\ heard'[c] <= heard[c] + 1
      <4>1. heard[c] \in 0..Longest
        BY <3>1 DEF TypeOK
      <4>2. Up(heard[c]) \in 0..Longest /\ Up(heard[c]) <= heard[c] + 1
        BY <1>2, <4>1
      <4> QED BY <2>1, <4>1, <4>2, LimitType
    <3>4. ran[c] \in Nat /\ ran'[c] = IF AtLimit(c) THEN ran[c] ELSE ran[c] + 1
      BY <1>5, <2>5, <3>1
    <3>5. AtLimit(c) => ready[c] # NotReady
      BY <1>5, <2>5, <3>1
    <3>6. ready[c] \in 0..Grace \cup {NotReady} /\ ready'[c] = Older(ready[c]) /\ ready'[c] # Grace
      BY <2>5 DEF TypeOK
    <3>7. CASE ready[c] = NotReady
      <4>1. ready'[c] = NotReady
        BY <1>3, <3>6, <3>7
      <4>2. Lying(c) = 0 /\ Lying(c)' = 0
        BY <3>7, <4>1 DEF Lying
      <4> QED BY <3>2, <3>3, <3>4, <3>5, <3>7, <4>2
    <3>8. CASE ready[c] # NotReady
      <4>1. ready'[c] = ready[c] + 1 /\ ready'[c] # NotReady /\ ready[c] \in Nat
        BY <1>3, <3>6, <3>8, LimitType
      <4>2. Lying(c) = ready[c] /\ Lying(c)' = ready[c] + 1
        BY <3>8, <4>1 DEF Lying
      <4> QED BY <3>2, <3>3, <3>4, <4>1, <4>2
    <3> QED BY <3>7, <3>8
  <2> QED BY <2>2, <2>3, <2>4, <2>5
<1> QED BY <1>7, <1>8, <1>9, <1>10

-----------------------------------------------------------------------------
LEMMA StepIInv == IInv /\ [Next]_vars => IInv'
<1> SUFFICES ASSUME IInv, [Next]_vars PROVE IInv'
  OBVIOUS
<1>1. ASSUME NEW c \in Connections, ByItself(c) PROVE IInv'
  BY <1>1, StepsOfAConnection
<1>2. ASSUME NEW c \in Connections, Arm(c) \/ Disarm(c) PROVE IInv'
  BY <1>2, StepArm, StepDisarm
<1>3. CASE Thread \/ Tick
  BY <1>3, StepsOfTheThread, StepTick
<1>4. CASE UNCHANGED vars
  BY <1>4 DEF IInv, vars, watchdog, link, TypeOK, Stepwise, WatchesAreOpen, Armed, WakesInTime,
     SilenceIsShorter, Agrees, Lying, Blamed, Running, Statements, VictimBlamed
<1> QED BY <1>1, <1>2, <1>3, <1>4 DEF Next, ByItself

(* The inductive invariant holds throughout; the facts below follow of it. *)
THEOREM Invariance == Spec => []IInv
BY InitIInv, StepIInv, PTL DEF Spec

(* Every variable keeps its type: no watch is armed for longer than the    *)
(* longest limit and the grace, however blocks nest.                       *)
THEOREM TypeCorrect == Spec => []TypeOK
<1>1. IInv => TypeOK
  BY DEF IInv
<1> QED BY <1>1, Invariance, PTL

(* The thread never sleeps past a watch (Watchdog.arm wakes it).           *)
THEOREM WokenInTime == Spec => []NeverOversleeps
<1>1. IInv => NeverOversleeps
  BY DEF IInv, WakesInTime, NeverOversleeps
<1> QED BY <1>1, Invariance, PTL

(* A socket is shut down only under a block that is open: on a network     *)
(* that stopped, on a client that left the socket ready for the grace, or  *)
(* with a limit the server no longer holds.                                *)
THEOREM OnlyTheStalledAreShut == Spec => ShutJustified
<1>1. ASSUME IInv, [Next]_vars, NEW c \in shut' \ shut
      PROVE  c \in stalled \cup unheeded \cup lapsed /\ depth[c] > 0
  <2>1. Fire /\ c = victim[1]
    <3>1. ASSUME NEW d \in Connections, ByItself(d) PROVE FALSE
      BY <1>1, <3>1, ThreadUntouched
    <3>2. ASSUME NEW d \in Connections, Arm(d) \/ Disarm(d) PROVE FALSE
      BY <1>1, <3>2 DEF Arm, Disarm, link
    <3> QED BY <1>1, <3>1, <3>2 DEF Next, ByItself, Thread, Wake, Sweep, Sleep, Look, Fire,
             Tick, vars, link
  <2>2. victim \in Armed /\ victim \in Watches /\ c \in Blamed \cup unheeded
    BY <1>1, <2>1 DEF IInv, VictimBlamed, Fire
  <2>3. /\ c \in Connections /\ Depth[c] \in Nat
        /\ victim[2] \in 1..Depth[c] /\ victim[2] <= depth[c]
    BY <1>1, <2>1, <2>2, WatchType, WatchdogAssumption DEF IInv, WatchesAreOpen,
         WatchdogAssumption
  <2>4. depth[c] \in Nat
    BY <1>1, <2>3 DEF IInv, TypeOK
  <2> QED BY <2>2, <2>3, <2>4 DEF Blamed
<1>2. IInv /\ [Next]_vars =>
        [\A c \in shut' \ shut : c \in stalled \cup unheeded \cup lapsed /\ depth[c] > 0]_vars
  BY <1>1
<1> QED BY <1>2, Invariance, PTL DEF Spec, ShutJustified

-----------------------------------------------------------------------------
(* Deadline.  What is given is whole milliseconds, at least one, and less  *)
(* than there is.                                                          *)
LEMMA GapIsLeft ==
    ASSUME NEW available \in Nat
    PROVE  /\ LessTheGap(available) \in Nat
           /\ available > 0 => LessTheGap(available) < available
           /\ available = 0 => LessTheGap(available) = 0
           /\ LessTheGap(available) < 1 => available <= 1
BY DEF LessTheGap, GapFraction, DefaultGap

BudgetType ==
    /\ budget.total \in Budgets /\ budget.reserve \in Nat
    /\ ~Unlimited(budget) => budget.at = budget.total
    /\ clock \in Nat /\ limit \in Nat \cup {NoBudget, Expired}

LEMMA LimitOfAStatement ==
    ASSUME NEW d, d.total \in Nat, d.reserve \in Nat, d.at = d.total, NEW now \in Nat
    PROVE  /\ Available(d, now) \in Nat
           /\ \/ StatementTimeout(d, now) = Expired /\ Available(d, now) <= 1
              \/ /\ StatementTimeout(d, now) \in Nat \ {0}
                 /\ StatementTimeout(d, now) < Available(d, now)
                 /\ now + Available(d, now) = d.total - d.reserve
<1>1. ~Unlimited(d)
  BY DEF Unlimited, NoBudget
<1>2. /\ Available(d, now) \in Nat
      /\ Available(d, now) > 0 => now + Available(d, now) = d.total - d.reserve
  BY <1>1 DEF Available, Most, Remaining
<1>3. /\ LessTheGap(Available(d, now)) \in Nat
      /\ LessTheGap(Available(d, now)) < 1 => Available(d, now) <= 1
      /\ LessTheGap(Available(d, now)) >= 1 =>
            Available(d, now) > 0 /\ LessTheGap(Available(d, now)) < Available(d, now)
  BY <1>2, GapIsLeft
<1>4. CASE LessTheGap(Available(d, now)) < 1
  <2>1. StatementTimeout(d, now) = Expired
    BY <1>1, <1>4 DEF StatementTimeout
  <2> QED BY <1>2, <1>3, <1>4, <2>1
<1>5. CASE LessTheGap(Available(d, now)) >= 1
  <2>1. StatementTimeout(d, now) = LessTheGap(Available(d, now))
    BY <1>1, <1>3, <1>5 DEF StatementTimeout
  <2> QED BY <1>2, <1>3, <1>5, <2>1
<1> QED BY <1>3, <1>4, <1>5

(* Rounding up stays within what there is.                                 *)
LEMMA AnyLimitGiven ==
    ASSUME NEW d, d.total \in Nat, d.reserve \in Nat, d.at = d.total, NEW now \in Nat,
           NEW most \in MayBeGiven(d, now)
    PROVE  \/ most = Expired /\ Available(d, now) <= 1
           \/ /\ most \in Nat \ {0} /\ most < Available(d, now)
              /\ now + Available(d, now) = d.total - d.reserve
<1>1. \/ StatementTimeout(d, now) = Expired /\ Available(d, now) <= 1
      \/ /\ StatementTimeout(d, now) \in Nat \ {0}
         /\ StatementTimeout(d, now) < Available(d, now)
         /\ now + Available(d, now) = d.total - d.reserve
  BY LimitOfAStatement
<1>2. CASE most = StatementTimeout(d, now)
  BY <1>1, <1>2
<1>3. CASE most # StatementTimeout(d, now)
  <2>1. /\ most = RoundedUp(StatementTimeout(d, now))
        /\ StatementTimeout(d, now) > 0 /\ RoundedUp(StatementTimeout(d, now)) < Available(d, now)
    BY <1>3 DEF MayBeGiven, BorrowersLimit
  <2>2. StatementTimeout(d, now) \in Nat \ {0} /\ now + Available(d, now) = d.total - d.reserve
    BY <1>1, <2>1 DEF Expired
  <2>3. RoundedUp(StatementTimeout(d, now)) \in Nat \ {0}
    BY <2>2 DEF RoundedUp
  <2> QED BY <2>1, <2>2, <2>3
<1> QED BY <1>2, <1>3

LEMMA NoneIsGiven ==
    ASSUME NEW d, Unlimited(d), NEW now, NEW most \in MayBeGiven(d, now)
    PROVE  most = NoBudget
BY DEF MayBeGiven, BorrowersLimit, StatementTimeout, NoBudget

LEMMA BudgetLength ==
    ASSUME BudgetType, ~Unlimited(budget)
    PROVE  budget.total \in Nat /\ budget.reserve \in Nat /\ budget.at = budget.total
BY DeadlineAssumption DEF DeadlineAssumption, BudgetType, Unlimited, NoBudget

(* The step of a statement, or of one that is not sent.                    *)
LEMMA SpendStep ==
    ASSUME BudgetType, Spend
    PROVE  \E begun \in Nat :
              /\ UNCHANGED budget /\ limit' \in MayBeGiven(budget, begun)
              /\ \/ limit' = Expired /\ clock' = begun
                 \/ /\ limit' # Expired /\ clock' \in Nat /\ clock' >= begun
                    /\ ~Unlimited(budget) => clock' <= begun + Available(budget, begun)
<1>1. PICK idle \in Spans :
         \/ RefuseStatement(idle)
         \/ \E most \in MayBeGiven(budget, clock + idle) :
               \E took \in Nat, late \in Nat : RunStatement(idle, most, took, late)
  BY DEF Spend
<1>2. clock + idle \in Nat
  BY DeadlineAssumption DEF DeadlineAssumption, BudgetType
<1>3. CASE RefuseStatement(idle)
  BY <1>2, <1>3 DEF RefuseStatement
<1>4. ASSUME NEW most \in MayBeGiven(budget, clock + idle), NEW took \in Nat, NEW late \in Nat,
             RunStatement(idle, most, took, late)
      PROVE  /\ limit' # Expired /\ clock' \in Nat /\ clock' >= clock + idle
             /\ ~Unlimited(budget) => clock' <= clock + idle + Available(budget, clock + idle)
             /\ UNCHANGED budget /\ limit' \in MayBeGiven(budget, clock + idle)
  <2>0. limit' = most /\ most # Expired /\ UNCHANGED budget
    BY <1>4 DEF RunStatement
  <2>1. clock' \in Nat /\ clock' >= clock + idle
    BY <1>2, <1>4 DEF RunStatement, BudgetType
  <2>2. ASSUME ~Unlimited(budget)
        PROVE  clock' <= clock + idle + Available(budget, clock + idle)
    <3>1. /\ budget.total \in Nat /\ budget.reserve \in Nat /\ budget.at = budget.total
      BY <2>2, BudgetLength
    <3>2. Available(budget, clock + idle) \in Nat
      BY <1>2, <3>1, LimitOfAStatement
    <3>3. most \in Nat /\ most < Available(budget, clock + idle)
      BY <1>2, <2>0, <3>1, AnyLimitGiven
    <3>4. /\ took <= most /\ late <= Most(Available(budget, clock + idle) - most, 0)
          /\ clock' = clock + idle + took + late
      BY <1>4, <2>2 DEF RunStatement
    <3>5. took + late <= Available(budget, clock + idle)
      BY <3>2, <3>3, <3>4 DEF Most
    <3>6. clock' = (clock + idle) + (took + late)
      BY <3>4, DeadlineAssumption DEF DeadlineAssumption, BudgetType
    <3> QED BY <1>2, <3>2, <3>5, <3>6
  <2> QED BY <2>0, <2>1, <2>2
<1> QED BY <1>1, <1>2, <1>3, <1>4

LEMMA BudgetTypeInv == BudgetSpec => []BudgetType
<1>1. BudgetInit => BudgetType
  BY DeadlineAssumption
     DEF DeadlineAssumption, BudgetInit, BudgetType, Deadline, Unlimited
<1>2. ASSUME BudgetType, [Spend]_spending PROVE BudgetType'
  <2>1. CASE UNCHANGED spending
    BY <1>2, <2>1 DEF spending, BudgetType
  <2>2. CASE Spend
    <3>1. PICK begun \in Nat : /\ UNCHANGED budget /\ limit' \in MayBeGiven(budget, begun)
                              /\ clock' \in Nat
      BY <1>2, <2>2, SpendStep
    <3>2. limit' \in Nat \cup {NoBudget, Expired}
      <4>1. CASE Unlimited(budget)
        BY <3>1, <4>1, NoneIsGiven
      <4>2. CASE ~Unlimited(budget)
        BY <1>2, <3>1, <4>2, BudgetLength, AnyLimitGiven
      <4> QED BY <4>1, <4>2
    <3> QED BY <1>2, <3>1, <3>2 DEF BudgetType
  <2> QED BY <1>2, <2>1, <2>2
<1> QED BY <1>1, <1>2, PTL DEF BudgetSpec

(* What is so of any budget at any time: it is spent when its length has   *)
(* gone, and a wait held to it is past the end of neither.                 *)
LEMMA WaitsAreBounded ==
    ASSUME NEW d, d.total \in Nat, d.at = d.total, NEW now \in Nat
    PROVE  /\ CheckBudget(d, now) = Expired <=> Spent(d, now) >= d.total
           /\ \A wait \in Spans \cup {NoBudget} :
                 /\ Bounded(d, now, wait) >= 0
                 /\ wait >= 0 => Bounded(d, now, wait) <= wait
                 /\ now + Bounded(d, now, wait) <= Most(d.total, now)
<1>1. ~Unlimited(d)
  BY DEF Unlimited, NoBudget
<1>2. CheckBudget(d, now) = Expired <=> Spent(d, now) >= d.total
  BY <1>1 DEF CheckBudget, IsExpired, Spent, Remaining, Expired, NoBudget
<1>3. ASSUME NEW wait \in Nat \cup {NoBudget}
      PROVE  /\ Bounded(d, now, wait) >= 0
             /\ wait >= 0 => Bounded(d, now, wait) <= wait
             /\ now + Bounded(d, now, wait) <= Most(d.total, now)
  BY <1>1, <1>3 DEF Bounded, Remaining, Most, Least, NoBudget
<1> QED BY <1>2, <1>3, DeadlineAssumption DEF DeadlineAssumption

(* A budget is kept by any number of statements, whatever its length and   *)
(* its reserve, however long each of them takes.                           *)
THEOREM BudgetIsKept == BudgetSpec => []BudgetKept
<1>1. BudgetInit /\ BudgetType => BudgetKept
  <2> SUFFICES ASSUME BudgetInit, BudgetType PROVE BudgetKept
    OBVIOUS
  <2>1. limit = 0 /\ clock = 0
    BY DEF BudgetInit
  <2>2. CASE Unlimited(budget)
    BY <2>1, <2>2 DEF BudgetKept, CanCommit, Bounded
  <2>3. CASE ~Unlimited(budget)
    <3>1. budget.total \in Nat /\ budget.at = budget.total /\ clock \in Nat
      BY <2>3, DeadlineAssumption DEF BudgetType, DeadlineAssumption, Unlimited, NoBudget
    <3> QED BY <2>1, <2>3, <3>1, WaitsAreBounded DEF BudgetKept, Expired
  <2> QED BY <2>2, <2>3
<1>2. ASSUME BudgetType, BudgetType', BudgetKept, [Spend]_spending PROVE BudgetKept'
  <2>1. CASE UNCHANGED spending
    BY <1>2, <2>1 DEF spending, BudgetKept
  <2>2. CASE Spend
    <3>1. PICK begun \in Nat :
              /\ UNCHANGED budget /\ limit' \in MayBeGiven(budget, begun)
              /\ \/ limit' = Expired /\ clock' = begun
                 \/ /\ limit' # Expired /\ clock' \in Nat /\ clock' >= begun
                    /\ ~Unlimited(budget) => clock' <= begun + Available(budget, begun)
      BY <1>2, <2>2, SpendStep
    <3>2. CASE Unlimited(budget)
      <4>1. limit' = NoBudget /\ Unlimited(budget')
        BY <3>1, <3>2, NoneIsGiven DEF Unlimited
      <4> QED BY <4>1 DEF BudgetKept, CanCommit, Bounded
    <3>3. CASE ~Unlimited(budget)
      <4>1. /\ CheckBudget(budget', clock') = Expired <=> Spent(budget', clock') >= budget'.total
            /\ \A wait \in Spans \cup {NoBudget} :
                 /\ Bounded(budget', clock', wait) >= 0
                 /\ wait >= 0 => Bounded(budget', clock', wait) <= wait
                 /\ clock' + Bounded(budget', clock', wait) <= Most(budget'.total, clock')
        <5>1. budget'.total \in Nat /\ budget'.at = budget'.total /\ clock' \in Nat
          BY <1>2, <3>1, <3>3, DeadlineAssumption
             DEF BudgetType, DeadlineAssumption, Unlimited, NoBudget
        <5> QED BY <5>1, WaitsAreBounded
      <4>2. budget'.total = budget.total /\ budget'.reserve = budget.reserve /\ budget'.at = budget.total
        BY <1>2, <3>1, <3>3 DEF BudgetType
      <4>0. budget.total \in Nat /\ budget.reserve \in Nat
        BY <1>2, <3>3, DeadlineAssumption DEF BudgetType, DeadlineAssumption, Unlimited, NoBudget
      <4>3. CASE limit' = Expired
        <5>0. clock' = begun
          BY <3>1, <4>3
        <5>1. Available(budget, begun) <= 1
          BY <1>2, <3>1, <3>3, <4>3, BudgetLength, AnyLimitGiven DEF Expired
        <5>2. Available(budget, begun + 1) = 0
          BY <1>2, <3>3, <4>0, <5>1 DEF Available, Most, Remaining, BudgetType
        <5>3. StatementTimeout(budget, begun + 1) = Expired
          BY <3>3, <5>2, GapIsLeft DEF StatementTimeout
        <5>4. limit' # 0 /\ ~(limit' > 0)
          BY <4>3 DEF Expired
        <5> QED BY <3>1, <3>3, <4>1, <5>0, <5>1, <5>3, <5>4 DEF BudgetKept
      <4>4. CASE limit' # Expired
        <5>1. limit' \in Nat \ {0} /\ limit' < Available(budget, begun)
              /\ begun + Available(budget, begun) = budget.total - budget.reserve
          BY <1>2, <3>1, <3>3, <4>4, BudgetLength, AnyLimitGiven
        <5>2. Available(budget, begun) \in Nat /\ clock' <= begun + Available(budget, begun)
          BY <1>2, <3>1, <3>3, <4>4, BudgetLength, LimitOfAStatement
        <5>3. clock' <= budget.total - budget.reserve /\ limit' < budget.total - budget.reserve
          BY <3>1, <4>0, <5>1, <5>2
        <5>4. CanCommit(budget', clock')
          BY <3>1, <4>0, <4>2, <5>3 DEF CanCommit, Remaining
        <5> QED BY <3>1, <3>3, <4>1, <4>4, <5>1, <5>3, <5>4 DEF BudgetKept
      <4> QED BY <4>3, <4>4
    <3> QED BY <3>2, <3>3
  <2> QED BY <1>2, <2>1, <2>2
<1> QED BY <1>1, <1>2, BudgetTypeInv, PTL DEF BudgetSpec
===============================================================================
