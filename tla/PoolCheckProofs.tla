-------------------------- MODULE PoolCheckProofs ---------------------------
(***************************************************************************)
(* Proofs about PoolCheck, for any number of connections and borrowers,    *)
(* any check_after_idle, and however often the server restarts.            *)
(*                                                                         *)
(* Why one failure is enough although a check is skipped again as soon as  *)
(* the window closes: the window is as long as a return stays fresh.  A    *)
(* connection that is fresh when the window has closed was stamped after   *)
(* the failure that opened it.  So it was in somebody's hands then, or was *)
(* taken since - and then it was tested, or had been stamped after the     *)
(* failure itself.  What was in hand is answered since by the server that  *)
(* came up, or is one of those recorded as late.                           *)
(***************************************************************************)
EXTENDS PoolCheck, TLAPS

Owning == {"checking", "taken", "holding", "exiting"}

Ownership ==
    /\ \A b \in Borrowers : pc[b] \in Owning => has[b] \in Conns /\ place[has[b]] = "out"
    /\ \A b, d \in Borrowers :
          pc[b] \in Owning /\ pc[d] \in Owning /\ has[b] = has[d] => b = d

(* Nothing is known of a restart before it, nor a return before it.        *)
Behind ==
    /\ noticed <= epoch
    /\ \A c \in Conns : born[c] <= epoch /\ returnedAt[c] <= now
    /\ \A b \in Borrowers :
          knew[b].noticed <= epoch /\ knew[b].warned <= epoch

(* From after the last restart that was noticed, or recorded as late.      *)
Known(c) == born[c] >= noticed \/ c \in late

Working == {"taken", "holding", "exiting"}

(* What is stamped since the notice is known, and what will be.            *)
Sound ==
    /\ \A c \in Conns : returnedAt[c] > until - CheckAfter => Known(c)
    /\ \A c \in Conns : place[c] = "returning" => Known(c)
    /\ \A b \in Borrowers : pc[b] \in Working => Known(has[b])

Handed ==
    \A b \in Borrowers : pc[b] \in Working =>
        /\ born[has[b]] >= knew[b].warned
        /\ born[has[b]] >= knew[b].noticed \/ has[b] \in late

IInv == TypeOK /\ Ownership /\ Behind /\ Sound /\ Handed

-----------------------------------------------------------------------------
(* Before anything is lent or restarted the invariant holds.               *)
LEMMA InitIInv == Init => IInv
<1> SUFFICES ASSUME Init PROVE IInv
  OBVIOUS
<1> USE PoolCheckAssumption DEF PoolCheckAssumption, Init
<1>1. TypeOK
  BY DEF TypeOK, Never
<1>2. Ownership /\ Handed
  BY DEF Ownership, Owning, Handed, Working
<1>3. Behind
  BY DEF Behind, Never
<1>4. Sound
  BY DEF Sound, Known, Working
<1> QED BY <1>1, <1>2, <1>3, <1>4 DEF IInv

(* Every step keeps the types, and the window within check_after_idle.     *)
LEMMA StepTypes ==
    ASSUME IInv, [Next]_vars
    PROVE  TypeOK'
<1> USE PoolCheckAssumption DEF PoolCheckAssumption, IInv, TypeOK, Never, connVars
<1>1. CASE Tick \/ Restart
  BY <1>1 DEF Tick, Restart
<1>2. ASSUME NEW c \in Conns, Connect(c) \/ CheckAll(c) \/ Reset(c) \/ ResetFails(c) PROVE TypeOK'
  BY <1>2 DEF Connect, CheckAll, Reset, ResetFails, Answered
<1>3. ASSUME NEW b \in Borrowers, NEW c \in Conns, Take(b, c) PROVE TypeOK'
  <2>1. knew' \in [Borrowers -> [noticed : 0..MaxEpoch, warned : 0..MaxEpoch]]
    BY <1>3 DEF Take
  <2>2. UNCHANGED <<now, epoch, until, born, returnedAt, late, noticed>>
    BY <1>3 DEF Take
  <2>3. place' \in [Conns -> {"new", "idle", "out", "returning"}]
        /\ has' \in [Borrowers -> Conns \cup {NoConn}]
        /\ pc' \in [Borrowers -> {"idle", "checking", "taken", "holding", "exiting"}]
    BY <1>3 DEF Take
  <2> QED BY <2>1, <2>2, <2>3
<1>4. ASSUME NEW b \in Borrowers,
             \/ CheckPasses(b) \/ Prepare(b) \/ PrepareSendsNothing(b) \/ Work(b)
             \/ EndUncommitted(b)
      PROVE  TypeOK'
  BY <1>4 DEF CheckPasses, Prepare, PrepareSendsNothing, Work, EndUncommitted, Answered
<1>5. ASSUME NEW b \in Borrowers,
             CheckFails(b) \/ PrepareFails(b) \/ WorkFails(b) \/ CommitFails(b)
      PROVE  TypeOK'
  <2>1. has[b] \in Conns
    BY <1>5 DEF CheckFails, PrepareFails, WorkFails, CommitFails, Ownership, Owning
  <2>2. place' \in [Conns -> {"new", "idle", "out", "returning"}]
        /\ has' \in [Borrowers -> Conns \cup {NoConn}]
        /\ pc' \in [Borrowers -> {"idle", "checking", "taken", "holding", "exiting"}]
    BY <1>5, <2>1 DEF CheckFails, PrepareFails, WorkFails, CommitFails, Lose
  <2>3. UNCHANGED <<now, epoch, born, returnedAt, knew>>
    BY <1>5 DEF CheckFails, PrepareFails, WorkFails, CommitFails, Lose
  <2>4. until' \in Nat /\ until' <= now' + CheckAfter
    BY <1>5, <2>3 DEF CheckFails, PrepareFails, WorkFails, CommitFails, WindowOpened
  <2>5. noticed' \in 0..MaxEpoch /\ late' \subseteq Conns
    BY <1>5 DEF CheckFails, PrepareFails, WorkFails, CommitFails
  <2> QED BY <2>2, <2>3, <2>4, <2>5
<1>6. ASSUME NEW b \in Borrowers, EndBlock(b) \/ CommitAnswered(b)
      PROVE  TypeOK'
  <2>1. has[b] \in Conns
    BY <1>6 DEF EndBlock, CommitAnswered, Ownership, Owning
  <2>2. place' \in [Conns -> {"new", "idle", "out", "returning"}]
        /\ has' \in [Borrowers -> Conns \cup {NoConn}]
        /\ pc' \in [Borrowers -> {"idle", "checking", "taken", "holding", "exiting"}]
    BY <1>6, <2>1 DEF EndBlock, CommitAnswered, GiveBack
  <2>3. UNCHANGED <<now, epoch, until, born, returnedAt, noticed, knew>> /\ late' \subseteq late
    BY <1>6 DEF EndBlock, CommitAnswered, GiveBack, Answered
  <2> QED BY <2>2, <2>3
<1>7. CASE UNCHANGED vars
  BY <1>7 DEF vars
<1> QED BY <1>1, <1>2, <1>3, <1>4, <1>5, <1>6, <1>7 DEF Next

(* No two borrowers own one connection.                                    *)
LEMMA OwnersDiffer ==
    ASSUME Ownership, NEW b \in Borrowers, NEW d \in Borrowers, b # d,
           pc[b] \in Owning, pc[d] \in Owning
    PROVE  has[b] # has[d]
BY DEF Ownership

(* A borrower of a connection lets it go, or keeps it.                     *)
LEMMA StepOwnership ==
    ASSUME IInv, [Next]_vars
    PROVE  Ownership'
<1> USE PoolCheckAssumption DEF PoolCheckAssumption, IInv, TypeOK, Owning
<1>1. CASE Tick \/ Restart \/ UNCHANGED vars
  BY <1>1 DEF Tick, Restart, vars, connVars, Ownership
<1>2. ASSUME NEW c \in Conns, Connect(c) \/ CheckAll(c) \/ Reset(c) \/ ResetFails(c)
      PROVE  Ownership'
  BY <1>2 DEF Connect, CheckAll, Reset, ResetFails, Ownership
<1>3. ASSUME NEW b \in Borrowers, NEW c \in Conns, Take(b, c) PROVE Ownership'
  <2>1. \A d \in Borrowers : pc[d] \in Owning => has[d] # c
    BY <1>3 DEF Take, Ownership
  <2> QED BY <1>3, <2>1 DEF Take, Ownership
<1>4. ASSUME NEW b \in Borrowers,
             \/ CheckPasses(b) \/ Prepare(b) \/ PrepareSendsNothing(b) \/ Work(b)
             \/ EndUncommitted(b)
      PROVE  Ownership'
  <2>1. pc[b] \in Owning /\ has' = has /\ place' = place
    BY <1>4 DEF CheckPasses, Prepare, PrepareSendsNothing, Work, EndUncommitted, connVars
  <2>2. \A d \in Borrowers : pc'[d] \in Owning => pc[d] \in Owning
    BY <1>4 DEF CheckPasses, Prepare, PrepareSendsNothing, Work, EndUncommitted
  <2> QED BY <2>1, <2>2 DEF Ownership
<1>5. ASSUME NEW b \in Borrowers, pc[b] \in Owning, Lose(b) \/ GiveBack(b)
      PROVE  Ownership'
  <2>1. \A d \in Borrowers \ {b} : pc[d] \in Owning => has[d] # has[b]
    BY <1>5, OwnersDiffer
  <2>2. pc' = [pc EXCEPT ![b] = "idle"] /\ \A d \in Borrowers \ {b} : has'[d] = has[d]
    BY <1>5 DEF Lose, GiveBack
  <2>3. \A c \in Conns \ {has[b]} : place'[c] = place[c]
    BY <1>5 DEF Lose, GiveBack
  <2> QED BY <2>1, <2>2, <2>3 DEF Ownership
<1> QED BY <1>1, <1>2, <1>3, <1>4, <1>5
        DEF Next, CheckFails, PrepareFails, WorkFails, CommitFails, EndBlock, CommitAnswered

-----------------------------------------------------------------------------
(* Nine of the steps leave the clock, the restarts and the connections'    *)
(* sessions alone; what a borrower knew is written when it takes one.      *)
LEMMA StepBehind ==
    ASSUME IInv, [Next]_vars
    PROVE  Behind'
<1> USE PoolCheckAssumption DEF PoolCheckAssumption, IInv, TypeOK, Behind
<1>1. CASE Tick \/ Restart \/ UNCHANGED vars
  <2>1. UNCHANGED <<born, returnedAt, noticed, knew>>
    BY <1>1 DEF Tick, Restart, vars, connVars
  <2>2. now' >= now /\ epoch' >= epoch /\ now' \in Nat /\ epoch' \in Nat
    BY <1>1 DEF Tick, Restart, vars
  <2> QED BY <2>1, <2>2 DEF Never
<1>2. ASSUME NEW c \in Conns, Connect(c) \/ CheckAll(c) \/ ResetFails(c) PROVE Behind'
  BY <1>2 DEF Connect, CheckAll, ResetFails, Never
<1>3. ASSUME NEW b \in Borrowers, NEW c \in Conns, Take(b, c) PROVE Behind'
  <2>1. knew'[b].noticed = noticed /\ knew'[b].warned \in {noticed, 0}
    BY <1>3 DEF Take
  <2>2. \A d \in Borrowers \ {b} : knew'[d] = knew[d]
    BY <1>3 DEF Take
  <2>3. UNCHANGED <<now, epoch, born, returnedAt, noticed>>
    BY <1>3 DEF Take
  <2> QED BY <2>1, <2>2, <2>3
<1>4. ASSUME NEW c \in Conns, Reset(c) PROVE Behind'
  <2>1. UNCHANGED <<now, epoch, born, noticed, knew>>
    BY <1>4 DEF Reset
  <2>2. \A d \in Conns : returnedAt'[d] = returnedAt[d] \/ returnedAt'[d] = now
    BY <1>4 DEF Reset
  <2> QED BY <2>1, <2>2
<1>5. ASSUME NEW b \in Borrowers, pc[b] # "idle", UNCHANGED <<now, epoch, born, returnedAt, knew>>,
             noticed' \in {noticed, epoch}
      PROVE  Behind'
  BY <1>5
<1> QED BY <1>1, <1>2, <1>3, <1>4, <1>5
        DEF Next, CheckPasses, CheckFails, Prepare, PrepareSendsNothing, PrepareFails, Work,
            WorkFails, EndBlock, EndUncommitted, CommitAnswered, CommitFails, Lose, GiveBack, connVars

(* The heart of it: a failure noticed makes every earlier stamp stale to   *)
(* the window's far edge, and what is in hand then is recorded as late.    *)
LEMMA StepSound ==
    ASSUME IInv, [Next]_vars
    PROVE  Sound'
<1> USE PoolCheckAssumption DEF PoolCheckAssumption, IInv, TypeOK, Known, Working
<1>1. CASE Tick \/ Restart \/ UNCHANGED vars
  BY <1>1 DEF Tick, Restart, vars, connVars, Sound
<1>2. ASSUME NEW c \in Conns, Connect(c) PROVE Sound'
  <2>1. returnedAt'[c] = Never /\ born'[c] = epoch /\ UNCHANGED <<until, noticed, pc, has>>
    BY <1>2 DEF Connect
  <2>2. \A d \in Conns \ {c} : returnedAt'[d] = returnedAt[d] /\ born'[d] = born[d]
        /\ place'[d] = place[d] /\ (d \in late' <=> d \in late)
    BY <1>2 DEF Connect
  <2>3. \A b \in Borrowers : pc[b] \in Working => has[b] \in Conns \ {c}
    BY <1>2 DEF Connect, Ownership, Owning
  <2> QED BY <2>1, <2>2, <2>3 DEF Sound, Behind
<1>3. ASSUME NEW c \in Conns, CheckAll(c) \/ ResetFails(c) PROVE Sound'
  <2>1. UNCHANGED <<until, born, returnedAt, late, pc, has, noticed>>
    BY <1>3 DEF CheckAll, ResetFails
  <2>2. \A d \in Conns : place'[d] = "returning" => place[d] = "returning"
    BY <1>3 DEF CheckAll, ResetFails
  <2> QED BY <2>1, <2>2 DEF Sound
<1>4. ASSUME NEW c \in Conns, Reset(c) PROVE Sound'
  <2>1. UNCHANGED <<until, born, pc, has, noticed>>
        /\ \A d \in Conns \ {c} : returnedAt'[d] = returnedAt[d] /\ (d \in late' <=> d \in late)
    BY <1>4 DEF Reset, Answered
  <2>2. \A d \in Conns : place'[d] = "returning" => place[d] = "returning"
    BY <1>4 DEF Reset
  <2>3. Known(c)'
    BY <1>4 DEF Reset, Answered, Alive, Sound, Behind
  <2>4. \A d \in Conns : Known(d) => Known(d)'
    BY <2>1, <2>3
  <2> QED BY <2>1, <2>2, <2>3, <2>4 DEF Sound, Ownership, Owning
<1>5. ASSUME NEW b \in Borrowers, NEW c \in Conns, Take(b, c) PROVE Sound'
  <2>1. UNCHANGED <<now, until, born, returnedAt, late, noticed>> /\ has'[b] = c
        /\ \A d \in Borrowers \ {b} : pc'[d] = pc[d] /\ has'[d] = has[d]
    BY <1>5 DEF Take
  <2>2. \A d \in Conns : place'[d] = "returning" => place[d] = "returning"
    BY <1>5 DEF Take
  <2>3. pc'[b] \in Working => now >= until /\ now - returnedAt[c] < CheckAfter
    BY <1>5 DEF Take, SkipCheck
  <2>4. pc'[b] \in Working => returnedAt[c] > until - CheckAfter
    BY <2>3 DEF Never
  <2> QED BY <2>1, <2>2, <2>4 DEF Sound
<1>6. ASSUME NEW b \in Borrowers,
             CheckPasses(b) \/ Prepare(b) \/ Work(b) \/ CommitAnswered(b)
      PROVE  Sound'
  <2>1. has[b] \in Conns /\ UNCHANGED <<until, born, returnedAt, noticed>>
    BY <1>6 DEF CheckPasses, Prepare, Work, CommitAnswered, GiveBack, Ownership, Owning
  <2>2. born[has[b]] = epoch /\ late' = late \ {has[b]}
    BY <1>6 DEF CheckPasses, Prepare, Work, CommitAnswered, Answered, Alive
  <2>3. born[has[b]] >= noticed
    BY <2>1, <2>2 DEF Behind
  <2>4. \A d \in Conns : Known(d) \/ d = has[b] => Known(d)'
    <3> SUFFICES ASSUME NEW d \in Conns, Known(d) \/ d = has[b] PROVE born[d] >= noticed \/ d \in late'
      BY <2>1
    <3>1. CASE d = has[b]
      BY <2>3, <3>1
    <3>2. CASE d # has[b] /\ (born[d] >= noticed \/ d \in late)
      BY <2>2, <3>2
    <3> QED BY <3>1, <3>2
  <2>5. \A d \in Conns : place'[d] = "returning" => place[d] = "returning" \/ d = has[b]
    BY <1>6 DEF CheckPasses, Prepare, Work, CommitAnswered, GiveBack
  <2>6. \A d \in Borrowers \ {b} : pc'[d] = pc[d] /\ has'[d] = has[d]
    BY <1>6 DEF CheckPasses, Prepare, Work, CommitAnswered, GiveBack
  <2>7. pc'[b] \in Working => has'[b] = has[b]
    BY <1>6 DEF CheckPasses, Prepare, Work, CommitAnswered, GiveBack
  <2>8. \A d \in Borrowers : pc[d] \in Working => has[d] \in Conns
    BY DEF Ownership, Owning
  <2>9. (\A d \in Conns : returnedAt[d] > until - CheckAfter => Known(d))'
    BY <2>1, <2>4 DEF Sound
  <2>10. (\A d \in Conns : place[d] = "returning" => Known(d))'
    BY <2>4, <2>5 DEF Sound
  <2>11. (\A d \in Borrowers : pc[d] \in Working => Known(has[d]))'
    <3>1. ASSUME NEW d \in Borrowers \ {b}, pc'[d] \in Working PROVE Known(has[d])'
      BY <3>1, <2>4, <2>6, <2>8 DEF Sound
    <3>2. ASSUME pc'[b] \in Working PROVE Known(has[b])'
      BY <3>2, <2>1, <2>4, <2>7
    <3> QED BY <3>1, <3>2
  <2> QED BY <2>9, <2>10, <2>11 DEF Sound
<1>7. ASSUME NEW b \in Borrowers, PrepareSendsNothing(b) \/ EndUncommitted(b) \/ EndBlock(b)
      PROVE  Sound'
  <2>1. UNCHANGED <<until, born, returnedAt, late, noticed>>
    BY <1>7 DEF PrepareSendsNothing, EndUncommitted, EndBlock, GiveBack, connVars
  <2>2. \A d \in Borrowers : pc'[d] \in Working => pc[d] \in Working /\ has'[d] = has[d]
    BY <1>7 DEF PrepareSendsNothing, EndUncommitted, EndBlock, GiveBack
  <2>3. \A d \in Conns : place'[d] = "returning" =>
            place[d] = "returning" \/ (d = has[b] /\ pc[b] \in Working)
    BY <1>7 DEF PrepareSendsNothing, EndUncommitted, EndBlock, GiveBack, connVars
  <2> QED BY <2>1, <2>2, <2>3 DEF Sound
<1>8. ASSUME NEW b \in Borrowers, CheckFails(b) \/ PrepareFails(b) \/ CommitFails(b)
      PROVE  Sound'
  <2>1. UNCHANGED <<until, born, returnedAt, late, noticed>>
    BY <1>8 DEF CheckFails, PrepareFails, CommitFails, Lose
  <2>2. \A d \in Borrowers : pc'[d] \in Working => pc[d] \in Working /\ has'[d] = has[d]
    BY <1>8 DEF CheckFails, PrepareFails, CommitFails, Lose
  <2>3. \A d \in Conns : place'[d] = "returning" => place[d] = "returning"
    BY <1>8 DEF CheckFails, PrepareFails, CommitFails, Lose
  <2> QED BY <2>1, <2>2, <2>3 DEF Sound
<1>9. ASSUME NEW b \in Borrowers, WorkFails(b) PROVE Sound'
  <2>1. until' = now + CheckAfter /\ UNCHANGED <<now, returnedAt>>
    BY <1>9 DEF WorkFails, WindowOpened, Lose
  <2>2. \A c \in Conns : returnedAt'[c] <= until' - CheckAfter
    BY <2>1 DEF Behind, Never
  <2>3. has[b] \in Conns /\ \A d \in Borrowers \ {b} :
           pc[d] \in Working => has[d] \in Conns \ {has[b]} /\ place[has[d]] = "out"
    BY <1>9 DEF WorkFails, Ownership, Owning
  <2>4. \A d \in Borrowers : pc'[d] \in Working => d # b /\ pc[d] \in Working /\ has'[d] = has[d]
    BY <1>9 DEF WorkFails, Lose
  <2>5. \A d \in Borrowers : pc'[d] \in Working => has'[d] \in late'
    BY <1>9, <2>3, <2>4 DEF WorkFails
  <2>6. \A c \in Conns : place'[c] = "returning" => c \in late'
    BY <1>9, <2>3 DEF WorkFails, Lose
  <2> QED BY <2>1, <2>2, <2>5, <2>6 DEF Sound, Never
<1> QED BY <1>1, <1>2, <1>3, <1>4, <1>5, <1>6, <1>7, <1>8, <1>9 DEF Next

(* What a borrower is handed: tested, or fresh with the window closed.     *)
LEMMA StepHanded ==
    ASSUME IInv, [Next]_vars
    PROVE  Handed'
<1> USE PoolCheckAssumption DEF PoolCheckAssumption, IInv, TypeOK, Working
<1>1. CASE Tick \/ Restart \/ UNCHANGED vars
  BY <1>1 DEF Tick, Restart, vars, connVars, Handed
<1>2. ASSUME NEW c \in Conns, Connect(c) \/ CheckAll(c) \/ Reset(c) \/ ResetFails(c) PROVE Handed'
  <2>1. \A b \in Borrowers : pc[b] \in Working => has[b] \in Conns \ {c}
    BY <1>2 DEF Connect, CheckAll, Reset, ResetFails, Ownership, Owning
  <2>2. UNCHANGED <<pc, has, knew>>
        /\ \A d \in Conns \ {c} : born'[d] = born[d] /\ (d \in late' <=> d \in late)
    BY <1>2 DEF Connect, CheckAll, Reset, ResetFails, Answered
  <2> QED BY <2>1, <2>2 DEF Handed
<1>3. ASSUME NEW b \in Borrowers, NEW c \in Conns, Take(b, c) PROVE Handed'
  <2>1. \A d \in Borrowers \ {b} : pc'[d] = pc[d] /\ has'[d] = has[d] /\ knew'[d] = knew[d]
    BY <1>3 DEF Take
  <2>2. UNCHANGED <<born, late>> /\ has'[b] = c /\ knew'[b].noticed = noticed
        /\ knew'[b].warned = (IF now < until THEN noticed ELSE 0)
    BY <1>3 DEF Take
  <2>3. pc'[b] \in Working => now >= until /\ now - returnedAt[c] < CheckAfter
    BY <1>3 DEF Take, SkipCheck
  <2>4. pc'[b] \in Working => returnedAt[c] > until - CheckAfter
    BY <2>3 DEF Never
  <2>5. pc'[b] \in Working => born[c] >= knew'[b].warned
    BY <2>2, <2>3
  <2>6. pc'[b] \in Working => born[c] >= knew'[b].noticed \/ c \in late
    BY <2>2, <2>4 DEF Sound, Known
  <2> QED BY <2>1, <2>2, <2>5, <2>6 DEF Handed
<1>4. ASSUME NEW b \in Borrowers, CheckPasses(b) \/ Prepare(b) \/ Work(b) PROVE Handed'
  <2>1. born[has[b]] = epoch /\ UNCHANGED <<born, has, knew>> /\ late' = late \ {has[b]}
    BY <1>4 DEF CheckPasses, Prepare, Work, Answered, Alive
  <2>2. \A d \in Borrowers \ {b} : pc'[d] = pc[d]
    BY <1>4 DEF CheckPasses, Prepare, Work
  <2>3. \A d \in Borrowers \ {b} : pc[d] \in Working => has[d] # has[b]
    BY <1>4, OwnersDiffer DEF CheckPasses, Prepare, Work, Owning
  <2> QED BY <2>1, <2>2, <2>3 DEF Handed, Behind
<1>5. ASSUME NEW b \in Borrowers, PrepareSendsNothing(b) \/ EndUncommitted(b)
      PROVE  Handed'
  BY <1>5 DEF PrepareSendsNothing, EndUncommitted, connVars, Handed
<1>6. ASSUME NEW b \in Borrowers,
             \/ CheckFails(b) \/ PrepareFails(b) \/ WorkFails(b) \/ CommitFails(b)
             \/ EndBlock(b) \/ CommitAnswered(b)
      PROVE  Handed'
  <2>1. pc[b] \in Owning /\ (Lose(b) \/ GiveBack(b))
    BY <1>6 DEF CheckFails, PrepareFails, WorkFails, CommitFails, EndBlock, CommitAnswered, Owning
  <2>2. \A d \in Borrowers \ {b} : pc[d] \in Working =>
            has[d] \in Conns \ {has[b]} /\ place[has[d]] = "out"
    BY <2>1, OwnersDiffer DEF Owning, Ownership
  <2>3. pc'[b] = "idle" /\ UNCHANGED <<born, knew>>
        /\ \A d \in Borrowers \ {b} : pc'[d] = pc[d] /\ has'[d] = has[d]
    BY <2>1 DEF Lose, GiveBack
  <2>4. \A c \in Conns \ {has[b]} : c \in late /\ place[c] = "out" => c \in late'
    BY <1>6 DEF CheckFails, PrepareFails, WorkFails, CommitFails, EndBlock, CommitAnswered, Answered
  <2> QED BY <2>2, <2>3, <2>4 DEF Handed
<1> QED BY <1>1, <1>2, <1>3, <1>4, <1>5, <1>6 DEF Next

(* The invariant is inductive.                                             *)
LEMMA StepIInv == IInv /\ [Next]_vars => IInv'
BY StepTypes, StepOwnership, StepBehind, StepSound, StepHanded DEF IInv

(* The inductive invariant holds throughout; the three facts below are     *)
(* parts of it.                                                            *)
THEOREM Invariance == Spec => []IInv
BY InitIInv, StepIInv, PTL DEF Spec

-----------------------------------------------------------------------------
(* Type correctness.                                                       *)
THEOREM TypeCorrect == Spec => []TypeOK
<1>1. IInv => TypeOK
  BY DEF IInv
<1> QED BY <1>1, Invariance, PTL

(* While the window is open nobody is handed a connection from before the  *)
(* restart that opened it, whatever its last borrower did with it.         *)
THEOREM WindowHolds == Spec => []WarnedOnce
<1>1. IInv => WarnedOnce
  BY DEF IInv, Handed, Served, Working, WarnedOnce
<1> QED BY <1>1, Invariance, PTL

(* And not after it closes either, unless it was in somebody's hands, or   *)
(* on its way to the worker, when the failure was noticed and has not been *)
(* answered since: one noticed failure is enough for all that waited.      *)
THEOREM OneNoticeIsEnough == Spec => []NoticedOnce
<1>1. IInv => NoticedOnce
  BY DEF IInv, Handed, Served, Working, NoticedOnce
<1> QED BY <1>1, Invariance, PTL

(* Both, for any timing and any number of connections and callers.         *)
THEOREM FailureIsEnough == Spec => []OneFailureIsEnough
BY WindowHolds, OneNoticeIsEnough, PTL DEF OneFailureIsEnough
=============================================================================
