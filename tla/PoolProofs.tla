----------------------------- MODULE PoolProofs -----------------------------
(***************************************************************************)
(* Proofs about Pool, for any number of connections and borrowers.         *)
(*                                                                         *)
(* The argument is one of ownership: a connection that is out is one       *)
(* borrower's, so what another borrower or a worker does to a connection   *)
(* of theirs leaves it alone.  From that follow what the flag may be       *)
(* (EntitledNotRefused needs that giving back and clearing are one step,   *)
(* which is the assumption ~Threads), which generation a holder's          *)
(* connection has, and that a connection is unmarked wherever it waits.    *)
(***************************************************************************)
EXTENDS Pool, FiniteSetTheorems, TLAPS

Owning == {"checking", "taken", "preparing", "holding", "leaving"}

(* A connection that is out is one borrower's.                             *)
Ownership ==
    /\ \A b \in Borrowers : pc[b] \in Owning => has[b] \in Conns /\ place[has[b]] = "out"
    /\ \A b, d \in Borrowers :
          pc[b] \in Owning /\ pc[d] \in Owning /\ has[b] = has[d] => b = d
    /\ \A b \in Borrowers : pc[b] \in {"idle", "asking", "stale"} => has[b] = NoConn
    /\ ~Threads => \A b \in Borrowers : pc[b] # "clearing"

(* The loop of connection() has an iteration left while it is in it.       *)
Counting ==
    \A b \in Borrowers : pc[b] \in {"asking", "checking", "taken"} => left[b] > 0

(* No connection and no caller is ahead of the pool.                       *)
Generations ==
    /\ \A c \in Conns : stamp[c] <= generation
    /\ \A b \in Borrowers : asked[b] <= generation
    /\ \A b \in Borrowers : pc[b] \in {"preparing", "holding"} => stamp[has[b]] >= asked[b]

(* What has to be undone before a connection is lent again, by where it is.*)
Clean ==
    /\ locked \ lockUnseen \subseteq ranOthers
    /\ \A c \in Conns : place[c] \in {"none", "new", "configuring", "idle"} => c \notin Noticed
    /\ \A c \in Conns : place[c] = "resetting" => c \notin cancelled
    /\ \A b \in Borrowers : pc[b] \in {"checking", "taken", "preparing"} => has[b] \notin Noticed

(* Why a flag may be up.                                                   *)
Doomed(c) == c \in shut \/ stamp[c] < generation

Explained(c) ==
    \/ place[c] \in {"configuring", "resetting"}
    \/ place[c] = "returning" /\ Doomed(c)
    \/ \E b \in Borrowers : has[b] = c

AllExplained == \A c \in lent : Explained(c)

Flags ==
    /\ AllExplained
    /\ ~Threads => EntitledNotRefused

IInv == TypeOK /\ Ownership /\ Counting /\ Generations /\ Clean /\ Flags

-----------------------------------------------------------------------------
(* A pool nobody has borrowed from satisfies the invariant.                *)
LEMMA InitIInv == Init => IInv
<1> SUFFICES ASSUME Init PROVE IInv
  OBVIOUS
<1> USE PoolAssumption DEF PoolAssumption, Init
<1>1. TypeOK
  <2>1. PICK first \in SUBSET Conns : place = [c \in Conns |-> IF c \in first THEN "new" ELSE "none"]
    OBVIOUS
  <2>2. place \in [Conns -> Places]
    BY <2>1 DEF Places
  <2> QED BY <2>2 DEF TypeOK, Steps
<1>2. Ownership /\ Counting
  BY DEF Ownership, Counting, Owning
<1>3. Generations
  BY DEF Generations
<1>4. Clean
  BY DEF Clean, Noticed
<1>5. Flags
  <2>1. \A c \in Conns : place[c] # "resetting"
    OBVIOUS
  <2> QED BY <2>1 DEF Flags, AllExplained, EntitledNotRefused, HolderNotRefused, Using
<1> QED BY <1>1, <1>2, <1>3, <1>4, <1>5 DEF IInv

(* Every step keeps the types, the count of turns left in the loop         *)
(* included.                                                               *)
LEMMA StepTypes ==
    ASSUME IInv, [Next]_vars
    PROVE  TypeOK'
<1> USE PoolAssumption DEF PoolAssumption, IInv, TypeOK, Places, Steps, connVars, residue, callVars
<1>1. ASSUME NEW c \in Conns, Grow(c) \/ Shrink(c) \/ Configure(c) \/ Configured(c)
      PROVE  TypeOK'
  BY <1>1 DEF Grow, Shrink, Configure, Configured
<1>2. ASSUME NEW c \in Conns, Discard(c)
      PROVE  TypeOK'
  BY <1>2 DEF Discard
<1>3. ASSUME NEW c \in Conns, ResetKeeps(c) \/ ResetHook(c) \/ ResetHookDone(c)
      PROVE  TypeOK'
  BY <1>3 DEF ResetKeeps, ResetHook, ResetHookDone
<1>4. ASSUME NEW b \in Borrowers, Ask(b) \/ GiveUp(b) \/ RaiseStale(b) \/ Prepare(b) \/ EndBlock(b)
      PROVE  TypeOK'
  BY <1>4 DEF Ask, GiveUp, RaiseStale, Prepare, EndBlock, Tries
<1>5. ASSUME NEW b \in Borrowers, NEW c \in Conns, Take(b, c)
      PROVE  TypeOK'
  BY <1>5 DEF Take
<1>6. ASSUME NEW b \in Borrowers, CheckPasses(b) \/ CheckFails(b) \/ Accept(b) \/ PrepareFails(b)
      PROVE  TypeOK'
  <2>1. has[b] \in Conns
    BY <1>6 DEF CheckPasses, CheckFails, Accept, PrepareFails, Ownership, Owning
  <2> QED BY <1>6, <2>1 DEF CheckPasses, CheckFails, Accept, PrepareFails, CutOff, Marked, GivenBack
<1>7. ASSUME NEW b \in Borrowers, Reject(b)
      PROVE  TypeOK'
  <2>1. has[b] \in Conns /\ left[b] > 0
    BY <1>7 DEF Reject, Ownership, Owning, Counting
  <2> QED BY <1>7, <2>1 DEF Reject, Marked, GivenBack
<1>8. ASSUME NEW b \in Borrowers, RunOthersText(b) \/ LockUnseen(b) \/ Interrupt(b) \/ Break(b)
      PROVE  TypeOK'
  <2>1. has[b] \in Conns
    BY <1>8 DEF RunOthersText, LockUnseen, CutOff, Interrupt, Break, Ownership, Owning
  <2> QED BY <1>8, <2>1 DEF RunOthersText, LockUnseen, CutOff, Interrupt, Break
<1>9. ASSUME NEW b \in Borrowers, Leave(b) \/ ClearLent(b)
      PROVE  TypeOK'
  BY <1>9 DEF Leave, ClearLent, Unmarked, GivenBack, Ownership, Owning
<1>10. CASE Invalidate \/ Resize
  BY <1>10 DEF Invalidate, Resize
<1>11. CASE UNCHANGED vars
  BY <1>11 DEF vars
<1> QED BY <1>1, <1>2, <1>3, <1>4, <1>5, <1>6, <1>7, <1>8, <1>9, <1>10, <1>11
        DEF Next, Caller, Worker, Sizing, ConfigureFails, ResetDiscards, ResetHookFails

(* What one borrower has is out, and is that borrower's alone.             *)
LEMMA OwnersDiffer ==
    ASSUME Ownership, NEW b \in Borrowers, NEW d \in Borrowers, b # d,
           pc[b] \in Owning, pc[d] \in Owning
    PROVE  has[b] # has[d]
BY DEF Ownership

(* A step of a worker, on a connection that is not out.                    *)
LEMMA WorkerKeepsOwnership ==
    ASSUME IInv, NEW c \in Conns, Worker(c) \/ Grow(c) \/ Shrink(c)
    PROVE  Ownership' /\ Counting'
<1> USE DEF IInv, TypeOK
<1>1. place[c] # "out" /\ pc' = pc /\ left' = left /\ \A d \in Conns \ {c} : place'[d] = place[d]
  BY DEF Worker, Grow, Shrink, Configure, Configured, ConfigureFails, ResetDiscards,
         ResetKeeps, ResetHook, ResetHookDone, ResetHookFails, Discard, residue, callVars
<1>2. has' = has \/ has' = [b \in Borrowers |-> IF has[b] = c THEN NoConn ELSE has[b]]
  BY DEF Worker, Grow, Shrink, Configure, Configured, ConfigureFails, ResetDiscards,
         ResetKeeps, ResetHook, ResetHookDone, ResetHookFails, Discard, residue, callVars
<1>3. \A b \in Borrowers : pc[b] \in Owning => has[b] \in Conns \ {c}
  BY <1>1 DEF Ownership
<1>4. \A b \in Borrowers : pc[b] \in Owning => has'[b] = has[b]
  BY <1>2, <1>3
<1>5. \A b \in Borrowers : has[b] = NoConn => has'[b] = NoConn
  BY <1>2
<1>6. Ownership'
  BY <1>1, <1>3, <1>4, <1>5 DEF Ownership
<1> QED BY <1>1, <1>6 DEF Counting

(* A step of a caller, which touches only the connection it has.           *)
LEMMA CallerKeepsOwnership ==
    ASSUME IInv, NEW b \in Borrowers, Caller(b)
    PROVE  Ownership' /\ Counting'
<1> USE PoolAssumption DEF PoolAssumption, IInv, TypeOK, Owning
<1>1. \A d \in Borrowers \ {b} : pc'[d] = pc[d] /\ has'[d] = has[d] /\ left'[d] = left[d]
  BY DEF Caller, Ask, GiveUp, Take, CheckPasses, CheckFails, Accept, Reject, RaiseStale, Prepare,
         PrepareFails, RunOthersText, LockUnseen, CutOff, Interrupt, Break,
         EndBlock, Leave, ClearLent, connVars, residue, callVars
<1>2. CASE Ask(b) \/ GiveUp(b) \/ RaiseStale(b)
  <2>1. place' = place /\ has' = has
    BY <1>2 DEF Ask, GiveUp, RaiseStale, connVars, residue
  <2>2. pc'[b] \in {"asking", "idle"} /\ has[b] = NoConn /\ (pc'[b] = "asking" => left'[b] > 0)
    BY <1>2 DEF Ask, GiveUp, RaiseStale, Ownership, Tries
  <2> QED BY <1>1, <2>1, <2>2 DEF Ownership, Counting
<1>3. ASSUME NEW c \in Conns, Take(b, c)
      PROVE  Ownership' /\ Counting'
  <2>1. \A d \in Borrowers : pc[d] \in Owning => has[d] # c
    BY <1>3 DEF Take, Ownership
  <2>2. has'[b] = c /\ place'[c] = "out" /\ pc'[b] \in {"checking", "taken"} /\ left'[b] > 0
    BY <1>3 DEF Take, Counting
  <2>3. \A d \in Conns \ {c} : place'[d] = place[d]
    BY <1>3 DEF Take
  <2> QED BY <1>1, <2>1, <2>2, <2>3 DEF Ownership, Counting
<1>4. CASE CheckPasses(b) \/ Accept(b) \/ Prepare(b) \/ PrepareFails(b) \/ EndBlock(b)
           \/ RunOthersText(b) \/ LockUnseen(b) \/ Interrupt(b) \/ Break(b)
  <2>1. place' = place /\ has' = has /\ pc[b] \in Owning /\ pc'[b] \in Owning
    BY <1>4 DEF CheckPasses, Accept, Prepare, PrepareFails, EndBlock, RunOthersText,
                LockUnseen, CutOff, Interrupt, Break, connVars, residue, callVars
  <2>2. pc'[b] \in {"checking", "taken"} => pc[b] \in {"checking", "taken"} /\ left' = left
    BY <1>4 DEF CheckPasses, Accept, Prepare, PrepareFails, EndBlock, RunOthersText,
                LockUnseen, CutOff, Interrupt, Break, connVars, residue, callVars
  <2> QED BY <1>1, <2>1, <2>2 DEF Ownership, Counting
<1>5. CASE CheckFails(b) \/ Reject(b) \/ Leave(b)
  <2>1. pc[b] \in Owning /\ pc'[b] \in {"asking", "stale", "idle", "clearing"}
        /\ (pc'[b] # "clearing" => has'[b] = NoConn)
        /\ (pc'[b] = "clearing" => Threads)
    BY <1>5 DEF CheckFails, Reject, Leave
  <2>2. \A c \in Conns \ {has[b]} : place'[c] = place[c]
    BY <1>5 DEF CheckFails, Reject, Leave, GivenBack
  <2>3. pc'[b] = "asking" => left'[b] > 0
    BY <1>5 DEF CheckFails, Reject, Leave, Counting
  <2>4. \A d \in Borrowers \ {b} : pc[d] \in Owning => has[d] # has[b]
    BY <2>1, OwnersDiffer
  <2> QED BY <1>1, <2>1, <2>2, <2>3, <2>4 DEF Ownership, Counting
<1>6. CASE ClearLent(b)
  <2>1. place' = place /\ pc'[b] = "idle" /\ has'[b] = NoConn
    BY <1>6 DEF ClearLent
  <2> QED BY <1>1, <2>1 DEF Ownership, Counting
<1> QED BY <1>2, <1>3, <1>4, <1>5, <1>6 DEF Caller

(* Every step keeps ownership exclusive and the loop's count in step.      *)
LEMMA StepOwnership ==
    ASSUME IInv, [Next]_vars
    PROVE  Ownership' /\ Counting'
<1>1. CASE Invalidate \/ Resize \/ UNCHANGED vars
  <2>1. UNCHANGED <<place, pc, has, left>>
    BY <1>1 DEF Invalidate, Resize, vars, connVars, residue, callVars
  <2> QED BY <2>1 DEF IInv, Ownership, Counting
<1> QED BY <1>1, WorkerKeepsOwnership, CallerKeepsOwnership DEF Next, Sizing

-----------------------------------------------------------------------------
(* No stamp and no caller's memory of it is ahead of the pool's            *)
(* generation.                                                             *)
LEMMA StepGenerations ==
    ASSUME IInv, [Next]_vars
    PROVE  Generations'
<1> USE PoolAssumption DEF PoolAssumption, IInv, TypeOK
<1>1. CASE Invalidate \/ Resize \/ UNCHANGED vars
  <2>1. UNCHANGED <<stamp, asked, pc, has>> /\ generation' \in Nat /\ generation' >= generation
    BY <1>1 DEF Invalidate, Resize, vars, connVars, residue, callVars
  <2> QED BY <2>1 DEF Generations
<1>2. ASSUME NEW c \in Conns, Worker(c) \/ Grow(c) \/ Shrink(c)
      PROVE  Generations'
  <2>1. UNCHANGED <<generation, asked, pc>>
    BY <1>2 DEF Worker, Grow, Shrink, Configure, Configured, ConfigureFails, ResetDiscards,
         ResetKeeps, ResetHook, ResetHookDone, ResetHookFails, Discard, residue, callVars
  <2>2. place[c] # "out" /\ \A d \in Conns \ {c} : stamp'[d] = stamp[d]
    BY <1>2 DEF Worker, Grow, Shrink, Configure, Configured, ConfigureFails, ResetDiscards,
         ResetKeeps, ResetHook, ResetHookDone, ResetHookFails, Discard, residue
  <2>3. stamp'[c] <= generation
    BY <1>2 DEF Worker, Grow, Shrink, Configure, Configured, ConfigureFails, ResetDiscards,
         ResetKeeps, ResetHook, ResetHookDone, ResetHookFails, Discard, residue, Generations
  <2>4. has' = has \/ has' = [b \in Borrowers |-> IF has[b] = c THEN NoConn ELSE has[b]]
    BY <1>2 DEF Worker, Grow, Shrink, Configure, Configured, ConfigureFails, ResetDiscards,
         ResetKeeps, ResetHook, ResetHookDone, ResetHookFails, Discard, residue, callVars
  <2>5. \A b \in Borrowers : pc[b] \in {"preparing", "holding"} =>
           has'[b] = has[b] /\ has[b] \in Conns \ {c}
    BY <2>2, <2>4 DEF Ownership, Owning
  <2> QED BY <2>1, <2>2, <2>3, <2>5 DEF Generations
<1>3. ASSUME NEW b \in Borrowers, Caller(b)
      PROVE  Generations'
  <2>1. UNCHANGED <<generation, stamp>>
    BY <1>3 DEF Caller, Ask, GiveUp, Take, CheckPasses, CheckFails, Accept, Reject, RaiseStale,
         Prepare, PrepareFails, RunOthersText, LockUnseen, CutOff, Interrupt, Break,
         EndBlock, Leave, ClearLent, connVars, residue
  <2>2. \A d \in Borrowers \ {b} : pc'[d] = pc[d] /\ has'[d] = has[d] /\ asked'[d] = asked[d]
    BY <1>3 DEF Caller, Ask, GiveUp, Take, CheckPasses, CheckFails, Accept, Reject, RaiseStale,
         Prepare, PrepareFails, RunOthersText, LockUnseen, CutOff, Interrupt, Break,
         EndBlock, Leave, ClearLent,
         connVars, residue, callVars
  <2>3. asked'[b] <= generation
    BY <1>3 DEF Caller, Ask, GiveUp, Take, CheckPasses, CheckFails, Accept, Reject, RaiseStale,
         Prepare, PrepareFails, RunOthersText, LockUnseen, CutOff, Interrupt, Break,
         EndBlock, Leave, ClearLent,
         connVars, residue, callVars, Generations
  <2>4. pc'[b] \in {"preparing", "holding"} =>
           \/ Accept(b)
           \/ pc[b] \in {"preparing", "holding"} /\ UNCHANGED <<has, asked>>
    BY <1>3 DEF Caller, Ask, GiveUp, Take, CheckPasses, CheckFails, Accept, Reject, RaiseStale,
         Prepare, PrepareFails, RunOthersText, LockUnseen, CutOff, Interrupt, Break,
         EndBlock, Leave, ClearLent,
         connVars, residue, callVars
  <2>5. Accept(b) => stamp[has[b]] = generation /\ UNCHANGED <<has, asked>>
    BY DEF Accept, Current
  <2>6. pc'[b] \in {"preparing", "holding"} => stamp'[has'[b]] >= asked'[b]
    BY <2>1, <2>4, <2>5 DEF Generations
  <2> QED BY <2>1, <2>2, <2>3, <2>6 DEF Generations
<1> QED BY <1>1, <1>2, <1>3 DEF Next, Sizing

-----------------------------------------------------------------------------
(* What _reset lets through has nothing left on it.                        *)
LEMMA StepClean ==
    ASSUME IInv, [Next]_vars
    PROVE  Clean'
<1> USE PoolAssumption DEF PoolAssumption, IInv, TypeOK, Noticed
<1>1. CASE Invalidate \/ Resize \/ UNCHANGED vars
  <2>1. UNCHANGED <<place, cancelled, ranOthers, locked, lockUnseen, pc, has>>
    BY <1>1 DEF Invalidate, Resize, vars, connVars, residue, callVars
  <2> QED BY <2>1 DEF Clean
<1>2. ASSUME NEW c \in Conns, Worker(c) \/ Grow(c) \/ Shrink(c)
      PROVE  Clean'
  <2>1. pc' = pc /\ place[c] # "out" /\ \A d \in Conns \ {c} : place'[d] = place[d]
    BY <1>2 DEF Worker, Grow, Shrink, Configure, Configured, ConfigureFails, ResetDiscards,
         ResetKeeps, ResetHook, ResetHookDone, ResetHookFails, Discard, residue, callVars
  <2>2. cancelled' \subseteq cancelled /\ ranOthers' \subseteq ranOthers 
        /\ locked' \ lockUnseen' \subseteq locked \ lockUnseen
    BY <1>2 DEF Worker, Grow, Shrink, Configure, Configured, ConfigureFails, ResetDiscards,
         ResetKeeps, ResetHook, ResetHookDone, ResetHookFails, Discard, residue
  <2>3. has' = has \/ has' = [b \in Borrowers |-> IF has[b] = c THEN NoConn ELSE has[b]]
    BY <1>2 DEF Worker, Grow, Shrink, Configure, Configured, ConfigureFails, ResetDiscards,
         ResetKeeps, ResetHook, ResetHookDone, ResetHookFails, Discard, residue, callVars
  <2>4. locked' \ lockUnseen' \subseteq ranOthers'
    BY <1>2 DEF Worker, Grow, Shrink, Configure, Configured, ConfigureFails, ResetDiscards,
         ResetKeeps, ResetHook, ResetHookDone, ResetHookFails, Discard, residue, Clean
  <2>5. place'[c] \in {"none", "new", "configuring", "idle"} => c \notin Noticed'
    <3>1. CASE Grow(c) \/ Shrink(c) \/ Configure(c) \/ Configured(c)
      BY <3>1 DEF Grow, Shrink, Configure, Configured, residue, Clean
    <3>2. CASE Discard(c)
      BY <3>2 DEF Discard
    <3>3. CASE ResetKeeps(c) \/ ResetHook(c) \/ ResetHookDone(c)
      BY <3>3 DEF ResetKeeps, ResetHook, ResetHookDone, residue, Unfit, NeedsHook, Clean
    <3> QED BY <1>2, <3>1, <3>2, <3>3 DEF Worker, ConfigureFails, ResetDiscards, ResetHookFails
  <2>6. place'[c] = "resetting" => c \notin cancelled'
    BY <1>2 DEF Worker, Grow, Shrink, Configure, Configured, ConfigureFails, ResetDiscards,
         ResetKeeps, ResetHook, ResetHookDone, ResetHookFails, Discard, residue, Unfit, Clean
  <2>7. \A b \in Borrowers : pc[b] \in Owning => has'[b] = has[b]
    BY <2>1, <2>3 DEF Ownership
  <2> QED BY <2>1, <2>2, <2>4, <2>5, <2>6, <2>7 DEF Clean, Owning
<1>3. ASSUME NEW b \in Borrowers, Caller(b)
      PROVE  Clean'
  <2>1. \A d \in Borrowers \ {b} : pc'[d] = pc[d] /\ has'[d] = has[d]
    BY <1>3 DEF Caller, Ask, GiveUp, Take, CheckPasses, CheckFails, Accept, Reject, RaiseStale,
         Prepare, PrepareFails, RunOthersText, LockUnseen, CutOff, Interrupt, Break,
         EndBlock, Leave, ClearLent,
         connVars, residue, callVars
  <2>2. CASE RunOthersText(b) \/ LockUnseen(b) \/ Interrupt(b) \/ PrepareFails(b)
    <3>1. pc[b] \in {"holding", "preparing"} /\ has[b] \in Conns /\ place[has[b]] = "out"
      BY <2>2 DEF RunOthersText, LockUnseen, CutOff, Interrupt, PrepareFails, Ownership, Owning
    <3>2. UNCHANGED <<place, has>> /\ pc'[b] \notin {"checking", "taken", "preparing"}
      BY <2>2 DEF RunOthersText, LockUnseen, CutOff, Interrupt, PrepareFails, callVars
    <3>3. \A c \in Conns \ {has[b]} : c \notin Noticed => c \notin Noticed'
      BY <2>2 DEF RunOthersText, LockUnseen, CutOff, Interrupt, PrepareFails
    <3>4. \A d \in Borrowers \ {b} : pc[d] \in Owning => has[d] # has[b]
      BY <3>1, OwnersDiffer DEF Owning
    <3>5. locked' \ lockUnseen' \subseteq ranOthers'
      BY <2>2 DEF RunOthersText, LockUnseen, CutOff, Interrupt, PrepareFails, Clean
    <3>6. \A c \in Conns : place[c] = "resetting" => c \notin cancelled'
      BY <2>2, <3>1 DEF RunOthersText, LockUnseen, CutOff, Interrupt, PrepareFails, Clean
    <3>7. \A c \in Conns : place[c] \in {"none", "new", "configuring", "idle"} => c \notin Noticed'
      BY <3>1, <3>3 DEF Clean
    <3>8. \A d \in Borrowers \ {b} : pc[d] \in {"checking", "taken", "preparing"} => has[d] \notin Noticed'
      BY <3>3, <3>4 DEF Clean, Owning, Ownership
    <3> QED BY <2>1, <3>2, <3>5, <3>6, <3>7, <3>8 DEF Clean
  <2>3. CASE ~(RunOthersText(b) \/ LockUnseen(b) \/ Interrupt(b) \/ PrepareFails(b))
    <3>1. UNCHANGED <<cancelled, ranOthers, locked, lockUnseen>>
      BY <1>3, <2>3 DEF Caller, Ask, GiveUp, Take, CheckPasses, CheckFails, Accept, Reject,
           RaiseStale, Prepare, Break, EndBlock, Leave, ClearLent, connVars, residue
    <3>2. \A c \in Conns : place'[c] = place[c] \/ place'[c] \in {"out", "returning"}
      BY <1>3, <2>3 DEF Caller, Ask, GiveUp, Take, CheckPasses, CheckFails, Accept, Reject,
           RaiseStale, Prepare, Break, EndBlock, Leave, ClearLent, connVars, residue, GivenBack
    <3>3. pc'[b] \in {"checking", "taken", "preparing"} => has'[b] \notin Noticed
      BY <1>3, <2>3 DEF Caller, Ask, GiveUp, Take, CheckPasses, CheckFails, Accept, Reject,
           RaiseStale, Prepare, Break, EndBlock, Leave, ClearLent, connVars, residue, callVars, Clean
    <3> QED BY <2>1, <3>1, <3>2, <3>3 DEF Clean
  <2> QED BY <2>2, <2>3
<1> QED BY <1>1, <1>2, <1>3 DEF Next, Sizing

-----------------------------------------------------------------------------
(* A flag stays explained while its connection stays where it is and with  *)
(* whom it is.                                                             *)
LEMMA StaysExplained ==
    ASSUME AllExplained, NEW b \in Borrowers, NEW d \in lent, d # has[b],
           place'[d] = place[d], UNCHANGED <<generation, stamp>>, shut \subseteq shut',
           \A e \in Borrowers \ {b} : has'[e] = has[e]
    PROVE  Explained(d)'
<1>1. CASE \E e \in Borrowers : has[e] = d
  BY <1>1 DEF Explained
<1>2. CASE ~\E e \in Borrowers : has[e] = d
  BY <1>2 DEF AllExplained, Explained, Doomed
<1> QED BY <1>1, <1>2

(* A raised flag always has somebody who raised it and has not let go.     *)
LEMMA StepExplained ==
    ASSUME IInv, [Next]_vars
    PROVE  AllExplained'
<1> USE PoolAssumption DEF PoolAssumption, IInv, TypeOK, Doomed, Explained, Flags
<1>1. CASE Invalidate \/ Resize \/ UNCHANGED vars
  <2>1. UNCHANGED <<place, stamp, lent, shut, has>> /\ generation' \in Nat /\ generation' >= generation
    BY <1>1 DEF Invalidate, Resize, vars, connVars, residue, callVars
  <2> QED BY <2>1 DEF AllExplained
<1>2. ASSUME NEW c \in Conns, Worker(c) \/ Grow(c) \/ Shrink(c)
      PROVE  AllExplained'
  <2>1. UNCHANGED generation /\ \A d \in Conns \ {c} : place'[d] = place[d] /\ stamp'[d] = stamp[d]
    BY <1>2 DEF Worker, Grow, Shrink, Configure, Configured, ConfigureFails, ResetDiscards,
         ResetKeeps, ResetHook, ResetHookDone, ResetHookFails, Discard, residue, callVars
  <2>2. \A d \in Conns \ {c} : (d \in lent' <=> d \in lent) /\ (d \in shut' <=> d \in shut)
    BY <1>2 DEF Worker, Grow, Shrink, Configure, Configured, ConfigureFails, ResetDiscards,
         ResetKeeps, ResetHook, ResetHookDone, ResetHookFails, Discard, residue
  <2>3. has' = has \/ has' = [b \in Borrowers |-> IF has[b] = c THEN NoConn ELSE has[b]]
    BY <1>2 DEF Worker, Grow, Shrink, Configure, Configured, ConfigureFails, ResetDiscards,
         ResetKeeps, ResetHook, ResetHookDone, ResetHookFails, Discard, residue, callVars
  <2>4. \A d \in Conns \ {c} : d \in lent' => Explained(d)'
    BY <2>1, <2>2, <2>3 DEF AllExplained
  <2>5. c \in lent' => Explained(c)'
    <3>1. CASE Configured(c) \/ ResetHookDone(c) \/ Discard(c) \/ Shrink(c)
      BY <3>1 DEF Configured, ResetHookDone, Discard, Shrink
    <3>2. CASE Configure(c) \/ ResetHook(c)
      BY <3>2 DEF Configure, ResetHook
    <3>3. CASE Grow(c)
      BY <3>3 DEF Grow, callVars, AllExplained
    <3>4. CASE ResetKeeps(c)
      BY <3>4 DEF ResetKeeps, callVars, Unfit, AllExplained
    <3> QED BY <1>2, <3>1, <3>2, <3>3, <3>4 DEF Worker, ConfigureFails, ResetDiscards, ResetHookFails
  <2>6. lent' \subseteq Conns
    BY StepTypes, <1>2 DEF Next, Sizing
  <2> QED BY <2>4, <2>5, <2>6 DEF AllExplained
<1>3. ASSUME NEW b \in Borrowers, Caller(b)
      PROVE  AllExplained'
  <2>1. \A d \in Borrowers \ {b} : has'[d] = has[d]
    BY <1>3 DEF Caller, Ask, GiveUp, Take, CheckPasses, CheckFails, Accept, Reject, RaiseStale,
         Prepare, PrepareFails, RunOthersText, LockUnseen, CutOff, Interrupt, Break,
         EndBlock, Leave, ClearLent,
         connVars, residue, callVars
  <2>2. UNCHANGED <<generation, stamp>> /\ shut \subseteq shut' /\ lent' \subseteq Conns
    BY <1>3, StepTypes DEF Caller, Ask, GiveUp, Take, CheckPasses, CheckFails, Accept, Reject,
         RaiseStale, Prepare, PrepareFails, RunOthersText, LockUnseen, CutOff, Interrupt, Break,
         EndBlock, Leave, ClearLent, connVars, residue, Next
  <2>3. CASE Ask(b) \/ GiveUp(b) \/ RaiseStale(b) \/ Prepare(b) \/ PrepareFails(b)
             \/ RunOthersText(b) \/ LockUnseen(b) \/ Interrupt(b) \/ Break(b) \/ EndBlock(b)
    <3>1. UNCHANGED <<lent, place, has>>
      BY <2>3 DEF Ask, GiveUp, RaiseStale, Prepare, PrepareFails, RunOthersText, LockUnseen, CutOff, Interrupt,
                  Break, EndBlock, connVars, residue, callVars
    <3> QED BY <2>2, <3>1 DEF AllExplained
  <2>4. ASSUME NEW c \in Conns, Take(b, c)
        PROVE  AllExplained'
    <3>1. has'[b] = c /\ has[b] = NoConn /\ lent' \subseteq lent \cup {c}
          /\ \A d \in Conns \ {c} : place'[d] = place[d]
      BY <2>4 DEF Take, Ownership
    <3> QED BY <2>1, <2>2, <3>1 DEF AllExplained
  <2>5. CASE CheckPasses(b) \/ Accept(b)
    <3>1. UNCHANGED <<place, has>> /\ lent' \subseteq lent \cup {has[b]} /\ has[b] \in Conns
      BY <2>5 DEF CheckPasses, Accept, Marked, Ownership, Owning
    <3> QED BY <2>2, <3>1 DEF AllExplained
  <2>6. CASE CheckFails(b) \/ Reject(b)
    <3>1. PICK c \in Conns : c = has[b]
      BY <2>6 DEF CheckFails, Reject, Ownership, Owning
    <3>2. lent' \subseteq lent \cup {c} /\ place'[c] = "returning"
      BY <2>6, <3>1 DEF CheckFails, Reject, Marked, GivenBack
    <3>3. c \in lent' => Doomed(c)'
      BY <2>2, <2>6, <3>1 DEF CheckFails, Reject, Current, Generations
    <3>4. \A d \in Conns \ {c} : place'[d] = place[d]
      BY <2>6, <3>1 DEF CheckFails, Reject, GivenBack
    <3>5. \A d \in lent' : d # c => Explained(d)'
      BY <2>1, <2>2, <3>1, <3>2, <3>4, StaysExplained DEF Flags
    <3>6. c \in lent' => Explained(c)'
      BY <3>2, <3>3
    <3> QED BY <3>5, <3>6 DEF AllExplained
  <2>7. CASE Leave(b) \/ ClearLent(b)
    <3>1. PICK c : c = has[b]
      OBVIOUS
    <3>2. \A d \in Conns : d # c => place'[d] = place[d] /\ (d \in lent' => d \in lent)
      BY <2>7, <3>1 DEF Leave, ClearLent, Unmarked, GivenBack
    <3>3. c \in lent' => Explained(c)'
      BY <2>7, <3>1 DEF Leave, ClearLent, Unmarked
    <3>4. \A d \in lent' : d # c => Explained(d)'
      BY <2>1, <2>2, <3>1, <3>2, StaysExplained DEF Flags
    <3> QED BY <3>3, <3>4 DEF AllExplained
  <2> HIDE DEF IInv, TypeOK, Doomed, Explained, Flags, PoolAssumption
  <2> QED BY <1>3, <2>3, <2>4, <2>5, <2>6, <2>7 DEF Caller
<1> QED BY <1>1, <1>2, <1>3 DEF Next, Sizing

-----------------------------------------------------------------------------
(* Whoever lowers a flag is the one it is up for - if the flag is lowered  *)
(* in the step that gives the connection back.                             *)
LEMMA StepEntitled ==
    ASSUME IInv, [Next]_vars, ~Threads
    PROVE  EntitledNotRefused'
<1> USE PoolAssumption DEF PoolAssumption, IInv, TypeOK, EntitledNotRefused, HolderNotRefused, Flags
<1>0. EntitledNotRefused
  OBVIOUS
<1>1. CASE Invalidate \/ Resize \/ UNCHANGED vars
  <2>1. UNCHANGED <<place, lent, pc, has>>
    BY <1>1 DEF Invalidate, Resize, vars, connVars, residue, callVars
  <2> QED BY <1>0, <2>1
<1>2. ASSUME NEW c \in Conns, Worker(c) \/ Grow(c) \/ Shrink(c)
      PROVE  EntitledNotRefused'
  <2>1. pc' = pc /\ place[c] # "out" /\ \A d \in Conns \ {c} : place'[d] = place[d] /\ (d \in lent => d \in lent')
    BY <1>2 DEF Worker, Grow, Shrink, Configure, Configured, ConfigureFails, ResetDiscards,
         ResetKeeps, ResetHook, ResetHookDone, ResetHookFails, Discard, residue, callVars
  <2>2. place'[c] = "resetting" => c \in lent'
    BY <1>2 DEF Worker, Grow, Shrink, Configure, Configured, ConfigureFails, ResetDiscards,
         ResetKeeps, ResetHook, ResetHookDone, ResetHookFails, Discard, residue
  <2>3. has' = has \/ has' = [b \in Borrowers |-> IF has[b] = c THEN NoConn ELSE has[b]]
    BY <1>2 DEF Worker, Grow, Shrink, Configure, Configured, ConfigureFails, ResetDiscards,
         ResetKeeps, ResetHook, ResetHookDone, ResetHookFails, Discard, residue, callVars
  <2>4. \A b \in Borrowers : pc[b] \in Using => has'[b] = has[b] /\ has[b] \in Conns \ {c}
    BY <2>1, <2>3 DEF Ownership, Owning, Using
  <2> QED BY <1>0, <2>1, <2>2, <2>4
<1>3. ASSUME NEW b \in Borrowers, Caller(b)
      PROVE  EntitledNotRefused'
  <2>1. pc[b] # "clearing"
    BY DEF Ownership
  <2>2. \A d \in Borrowers \ {b} : pc'[d] = pc[d] /\ has'[d] = has[d]
    BY <1>3 DEF Caller, Ask, GiveUp, Take, CheckPasses, CheckFails, Accept, Reject, RaiseStale,
         Prepare, PrepareFails, RunOthersText, LockUnseen, CutOff, Interrupt, Break,
         EndBlock, Leave, ClearLent,
         connVars, residue, callVars
  <2>3. lent \ {has[b]} \subseteq lent'
    BY <1>3 DEF Caller, Ask, GiveUp, Take, CheckPasses, CheckFails, Accept, Reject, RaiseStale,
         Prepare, PrepareFails, RunOthersText, LockUnseen, CutOff, Interrupt, Break,
         EndBlock, Leave, ClearLent,
         connVars, residue, Marked, Unmarked
  <2>4. lent \subseteq lent' \/ pc[b] \in Owning
    BY <1>3, <2>1 DEF Caller, Ask, GiveUp, Take, CheckPasses, CheckFails, Accept, Reject, RaiseStale,
         Prepare, PrepareFails, RunOthersText, LockUnseen, CutOff, Interrupt, Break,
         EndBlock, Leave, ClearLent,
         connVars, residue, Marked, Unmarked, Owning
  <2>5. \A d \in Borrowers \ {b} : pc[d] \in Using => has[d] \in lent'
    <3>1. \A d \in Borrowers \ {b} : pc[d] \in Using /\ pc[b] \in Owning => has[d] # has[b]
      BY OwnersDiffer DEF Using, Owning
    <3> QED BY <1>0, <2>3, <2>4, <3>1
  <2>6. pc'[b] \in Using => has'[b] \in lent'
    BY <1>0, <1>3 DEF Caller, Ask, GiveUp, Take, CheckPasses, CheckFails, Accept, Reject, RaiseStale,
         Prepare, PrepareFails, RunOthersText, LockUnseen, CutOff, Interrupt, Break,
         EndBlock, Leave, ClearLent,
         connVars, residue, callVars, Marked, Using, Ownership, Owning
  <2>7. \A c \in Conns : place'[c] = "resetting" => place[c] = "resetting" /\ c \in lent'
    <3>1. \A c \in Conns : place'[c] = place[c] \/ place'[c] \in {"out", "returning"}
      BY <1>3 DEF Caller, Ask, GiveUp, Take, CheckPasses, CheckFails, Accept, Reject, RaiseStale,
           Prepare, PrepareFails, RunOthersText, LockUnseen, CutOff, Interrupt, Break,
         EndBlock, Leave, ClearLent,
           connVars, residue, GivenBack
    <3>2. pc[b] \in Owning => has[b] \in Conns /\ place[has[b]] = "out"
      BY DEF Ownership
    <3> QED BY <1>0, <2>3, <2>4, <3>1, <3>2
  <2> QED BY <2>2, <2>5, <2>6, <2>7
<1> QED BY <1>1, <1>2, <1>3 DEF Next, Sizing

(* The invariant is inductive.                                             *)
LEMMA StepIInv == IInv /\ [Next]_vars => IInv'
BY StepTypes, StepOwnership, StepGenerations, StepClean, StepExplained, StepEntitled
   DEF IInv, Flags

(* The inductive invariant holds of every state either pool can reach.     *)
THEOREM Invariance == Spec => []IInv
BY InitIInv, StepIInv, PTL DEF Spec

-----------------------------------------------------------------------------
(* Type correctness: among the rest, the loop never counts below zero.     *)
THEOREM TypeCorrect == Spec => []TypeOK
<1>1. IInv => TypeOK
  BY DEF IInv
<1> QED BY <1>1, Invariance, PTL

(* In the awaiting pool a holder, and the pool's own reset hook, are never *)
(* refused by _check_lent.  (The blocking pool does not have this.)        *)
THEOREM HoldersServed ==
    ASSUME ~Threads
    PROVE  Spec => []EntitledNotRefused
<1>1. IInv => EntitledNotRefused
  BY DEF IInv, Flags
<1> QED BY <1>1, Invariance, PTL

(* A connection waiting in the pool refuses every handle kept on it, in    *)
(* both pools, once nobody's block around it is still ending.              *)
THEOREM KeptHandlesRefused == Spec => []GivenBackRefused
<1>1. IInv => GivenBackRefused
  BY DEF IInv, Flags, AllExplained, Explained, GivenBackRefused
<1> QED BY <1>1, Invariance, PTL

(* invalidate() retires every connection at once for whoever asks after    *)
(* it, in both pools, resized or not.                                      *)
THEOREM ServiceIsCurrent == Spec => []NoStaleService
<1>1. IInv => NoStaleService
  BY DEF IInv, Generations, NoStaleService
<1> QED BY <1>1, Invariance, PTL

(* What one borrower left on a connection reaches the next one only if no  *)
(* mark tells of it: a marked interruption never does, a session lock only *)
(* where one was taken past the marks (lockUnseen).                        *)
THEOREM HandoverIsClean == Spec => []NothingInherited
<1>1. IInv => NothingInherited
  BY DEF IInv, Clean, Noticed, NothingInherited
<1> QED BY <1>1, Invariance, PTL

-----------------------------------------------------------------------------
(* How often the loop of connection() has to go round.  In a pool that is  *)
(* not resized, the connections retired by one invalidate() are no more    *)
(* than max_size, and each is met once: rejected, it never comes back.     *)
Lendable == {"configuring", "idle", "out", "resetting"}

Old == {c \in Conns : place[c] \in Lendable /\ stamp[c] < generation}

LoopInv ==
    /\ Cardinality(Held) <= maxSize
    /\ \A b \in Borrowers :
          pc[b] \in {"asking", "checking", "taken"} /\ asked[b] = generation
              => Cardinality(Old) < left[b]
    /\ StaleErrorJustified

(* The retired connections are some of those the pool has.                 *)
LEMMA FewOld ==
    ASSUME TypeOK
    PROVE  /\ IsFiniteSet(Held) /\ IsFiniteSet(Old)
           /\ Cardinality(Held) \in Nat /\ Cardinality(Old) \in Nat
           /\ Cardinality(Old) <= Cardinality(Held)
<1>1. Held \subseteq Conns /\ Old \subseteq Held
  BY DEF Held, Old, Lendable
<1>2. IsFiniteSet(Held)
  BY <1>1, PoolAssumption, FS_Subset DEF PoolAssumption
<1> QED BY <1>1, <1>2, FS_Subset, FS_CardinalityType

(* A pool that is not resized never has more than max_size connections.    *)
LEMMA HeldWithin ==
    ASSUME NeverResized, IInv, IInv', LoopInv, [Next]_vars
    PROVE  UNCHANGED maxSize /\ Cardinality(Held') <= maxSize
<1> USE PoolAssumption DEF PoolAssumption, IInv
<1>1. UNCHANGED maxSize
  <2>1. maxSize \in MaxSizes /\ maxSize' \in MaxSizes
    BY DEF TypeOK
  <2> QED BY <2>1 DEF NeverResized
<1>2. maxSize \in Nat
  BY DEF TypeOK
<1>3. ASSUME NEW c \in Conns, Grow(c) PROVE Cardinality(Held') <= maxSize
  <2>1. Held' = Held \cup {c}
    BY <1>3 DEF Grow, Held, TypeOK
  <2>2. Cardinality(Held) < maxSize
    BY <1>3 DEF Grow
  <2>3. IsFiniteSet(Held) /\ Cardinality(Held) \in Nat
    BY FewOld
  <2>4. Cardinality(Held') <= Cardinality(Held) + 1
    <3>1. Cardinality(Held \cup {c}) = IF c \in Held THEN Cardinality(Held) ELSE Cardinality(Held) + 1
      BY <2>3, FS_AddElement
    <3>2. Cardinality(Held \cup {c}) <= Cardinality(Held) + 1
      BY <2>3, <3>1
    <3> QED BY <2>1, <3>2
  <2>5. Cardinality(Held') \in Nat
    BY <2>1, <2>3, FS_AddElement, FS_CardinalityType
  <2> QED BY <1>2, <2>2, <2>3, <2>4, <2>5
<1>4. CASE ~\E c \in Conns : Grow(c)
  <2>1. \A c \in Conns : place'[c] # "none" => place[c] # "none"
    <3>1. CASE Invalidate \/ Resize \/ UNCHANGED vars
      BY <3>1 DEF Invalidate, Resize, vars, connVars, residue
    <3>2. ASSUME NEW c \in Conns, Worker(c) \/ Shrink(c)
          PROVE  \A d \in Conns : place'[d] # "none" => place[d] # "none"
      BY <3>2 DEF Worker, Shrink, Configure, Configured, ConfigureFails, ResetDiscards,
         ResetKeeps, ResetHook, ResetHookDone, ResetHookFails, Discard, residue, TypeOK
    <3>3. ASSUME NEW b \in Borrowers, Caller(b)
          PROVE  \A d \in Conns : place'[d] # "none" => place[d] # "none"
      BY <3>3 DEF Caller, Ask, GiveUp, Take, CheckPasses, CheckFails, Accept, Reject, RaiseStale,
         Prepare, PrepareFails, RunOthersText, LockUnseen, CutOff, Interrupt, Break,
         EndBlock, Leave, ClearLent,
         connVars, residue, GivenBack, TypeOK, Ownership, Owning
    <3> QED BY <1>4, <3>1, <3>2, <3>3 DEF Next, Sizing
  <2>2. Held' \subseteq Held
    BY <2>1 DEF Held
  <2>3. IsFiniteSet(Held) /\ Cardinality(Held) \in Nat
    BY FewOld
  <2>4. Cardinality(Held') <= Cardinality(Held) /\ Cardinality(Held') \in Nat
    BY <2>2, <2>3, FS_Subset, FS_CardinalityType
  <2>5. Cardinality(Held) <= maxSize
    BY DEF LoopInv
  <2> QED BY <1>1, <1>2, <2>3, <2>4, <2>5
<1> QED BY <1>1, <1>3, <1>4

(* Without another invalidate(), no connection becomes old.                *)
LEMMA OldShrinks ==
    ASSUME IInv, [Next]_vars, UNCHANGED generation
    PROVE  Old' \subseteq Old
<1> USE PoolAssumption DEF PoolAssumption, IInv, TypeOK, Lendable
<1> SUFFICES \A c \in Conns : place'[c] \in Lendable /\ stamp'[c] < generation
                => place[c] \in Lendable /\ stamp[c] < generation
  BY DEF Old
<1>1. CASE Resize \/ UNCHANGED vars
  BY <1>1 DEF Resize, vars, connVars, residue
<1>2. CASE Invalidate
  BY <1>2 DEF Invalidate
<1>3. ASSUME NEW c \in Conns, Worker(c) \/ Grow(c) \/ Shrink(c)
      PROVE  \A d \in Conns : place'[d] \in Lendable /\ stamp'[d] < generation
                => place[d] \in Lendable /\ stamp[d] < generation
  BY <1>3 DEF Worker, Grow, Shrink, Configure, Configured, ConfigureFails, ResetDiscards,
         ResetKeeps, ResetHook, ResetHookDone, ResetHookFails, Discard, residue, Unfit, Generations
<1>4. ASSUME NEW b \in Borrowers, Caller(b)
      PROVE  \A d \in Conns : place'[d] \in Lendable /\ stamp'[d] < generation
                => place[d] \in Lendable /\ stamp[d] < generation
  BY <1>4 DEF Caller, Ask, GiveUp, Take, CheckPasses, CheckFails, Accept, Reject, RaiseStale,
         Prepare, PrepareFails, RunOthersText, LockUnseen, CutOff, Interrupt, Break,
         EndBlock, Leave, ClearLent,
         connVars, residue, GivenBack
<1> QED BY <1>1, <1>2, <1>3, <1>4 DEF Next, Sizing

(* Each turn of the loop uses up a retired connection, or somebody retires *)
(* more.                                                                   *)
LEMMA StepLoopInv ==
    ASSUME NeverResized, IInv, IInv', LoopInv, [Next]_vars
    PROVE  LoopInv'
<1> USE PoolAssumption DEF PoolAssumption
<1>1. UNCHANGED maxSize /\ Cardinality(Held') <= maxSize
  BY HeldWithin
<1>2. CASE generation' # generation
  <2>1. UNCHANGED <<pc, asked>> /\ generation' = generation + 1
    <3>1. Invalidate
      BY <1>2 DEF Next, Sizing, Caller, Worker, Grow, Shrink, Resize, Configure, Configured,
           ConfigureFails, ResetDiscards, ResetKeeps, ResetHook, ResetHookDone, ResetHookFails,
           Discard, Ask, GiveUp, Take, CheckPasses, CheckFails, Accept, Reject, RaiseStale,
           Prepare, PrepareFails, RunOthersText, LockUnseen, CutOff, Interrupt, Break,
         EndBlock, Leave, ClearLent, vars
    <3> QED BY <3>1 DEF Invalidate, callVars
  <2>2. \A b \in Borrowers : asked'[b] < generation'
    BY <2>1 DEF IInv, TypeOK, Generations
  <2>3. \A b \in Borrowers : asked'[b] # generation' /\ generation' > asked'[b]
    BY <2>2 DEF IInv, TypeOK
  <2> QED BY <1>1, <2>3 DEF LoopInv, StaleErrorJustified
<1>3. CASE generation' = generation
  <2>1. Old' \subseteq Old
    BY <1>3, OldShrinks
  <2>2. IsFiniteSet(Old) /\ Cardinality(Old) \in Nat /\ Cardinality(Old) <= maxSize /\ maxSize \in Nat
    BY FewOld DEF IInv, TypeOK, LoopInv
  <2>3. Cardinality(Old') \in Nat /\ Cardinality(Old') <= Cardinality(Old) /\ IsFiniteSet(Old')
    BY <2>1, <2>2, FS_Subset, FS_CardinalityType
  <2>4. ASSUME NEW b \in Borrowers, Ask(b) PROVE LoopInv'
    <3>1. left'[b] = maxSize + 1 /\ pc'[b] = "asking"
      BY <2>4 DEF Ask, Tries, IInv, TypeOK
    <3>2. \A d \in Borrowers \ {b} : pc'[d] = pc[d] /\ asked'[d] = asked[d] /\ left'[d] = left[d]
      BY <2>4 DEF Ask, IInv, TypeOK
    <3>3. left \in [Borrowers -> Nat]
      BY DEF IInv, TypeOK
    <3> QED BY <1>1, <1>3, <2>2, <2>3, <3>1, <3>2, <3>3 DEF LoopInv, StaleErrorJustified
  <2>5. ASSUME NEW b \in Borrowers, Reject(b) PROVE LoopInv'
    <3>1. PICK c \in Conns : c = has[b]
      BY <2>5 DEF Reject, IInv, Ownership, Owning
    <3>2. c \in Old
      BY <2>5, <3>1 DEF Reject, Current, Old, Lendable, IInv, TypeOK, Ownership, Owning, Generations
    <3>3. c \notin Old'
      BY <2>5, <3>1 DEF Reject, GivenBack, Old, Lendable, IInv, TypeOK
    <3>4. Cardinality(Old') < Cardinality(Old)
      <4>1. Old' \subseteq Old \ {c}
        BY <2>1, <3>3
      <4>2. IsFiniteSet(Old \ {c}) /\ Cardinality(Old \ {c}) = Cardinality(Old) - 1
        BY <2>2, <3>2, FS_RemoveElement
      <4>3. Cardinality(Old') <= Cardinality(Old \ {c})
        BY <4>1, <4>2, FS_Subset
      <4> QED BY <2>2, <2>3, <4>2, <4>3
    <3>5. \A d \in Borrowers \ {b} : pc'[d] = pc[d] /\ left'[d] = left[d]
      BY <2>5 DEF Reject, IInv, TypeOK
    <3>6. asked' = asked /\ left'[b] = left[b] - 1 /\ pc'[b] = (IF left[b] = 1 THEN "stale" ELSE "asking")
      BY <2>5 DEF Reject, IInv, TypeOK
    <3>7. left \in [Borrowers -> Nat] /\ asked[b] <= generation /\ asked[b] \in Nat /\ generation \in Nat
      BY DEF IInv, TypeOK, Generations
    <3>8. asked[b] = generation => Cardinality(Old) < left[b]
      BY <2>5 DEF Reject, LoopInv
    <3>9. pc'[b] = "stale" => generation > asked[b]
      BY <2>2, <2>3, <3>4, <3>6, <3>7, <3>8
    <3> QED BY <1>1, <1>3, <2>2, <2>3, <3>4, <3>5, <3>6, <3>7, <3>8, <3>9
            DEF LoopInv, StaleErrorJustified
  <2>6. CASE ~\E b \in Borrowers : Ask(b) \/ Reject(b)
    <3>1. \A b \in Borrowers :
             /\ pc'[b] \in {"asking", "checking", "taken"} =>
                   /\ pc[b] \in {"asking", "checking", "taken"}
                   /\ asked'[b] = asked[b] /\ left'[b] = left[b]
             /\ pc'[b] = "stale" => pc[b] = "stale" /\ asked'[b] = asked[b]
      <4>1. CASE UNCHANGED <<pc, asked, left>>
        BY <4>1
      <4>2. ASSUME NEW b \in Borrowers, Caller(b)
            PROVE  \A d \in Borrowers :
             /\ pc'[d] \in {"asking", "checking", "taken"} =>
                   /\ pc[d] \in {"asking", "checking", "taken"}
                   /\ asked'[d] = asked[d] /\ left'[d] = left[d]
             /\ pc'[d] = "stale" => pc[d] = "stale" /\ asked'[d] = asked[d]
        BY <2>6, <4>2 DEF Caller, GiveUp, Take, CheckPasses, CheckFails, Accept, RaiseStale,
           Prepare, PrepareFails, RunOthersText, LockUnseen, CutOff, Interrupt, Break,
         EndBlock, Leave, ClearLent,
           callVars, IInv, TypeOK
      <4> QED BY <4>1, <4>2 DEF Next, Sizing, Invalidate, Worker, Grow, Shrink, Resize, Configure,
           Configured, ConfigureFails, ResetDiscards, ResetKeeps, ResetHook, ResetHookDone,
           ResetHookFails, Discard, vars, callVars
    <3>2. left \in [Borrowers -> Nat]
      BY DEF IInv, TypeOK
    <3> QED BY <1>1, <1>3, <2>2, <2>3, <3>1, <3>2 DEF LoopInv, StaleErrorJustified
  <2> QED BY <2>4, <2>5, <2>6
<1> QED BY <1>2, <1>3

(* Nothing is retired before the first borrow.                             *)
LEMMA InitLoopInv ==
    ASSUME NeverResized, Init
    PROVE  LoopInv
<1> USE PoolAssumption DEF PoolAssumption, Init
<1>1. PICK first \in SUBSET Conns :
         /\ Cardinality(first) = MinSize
         /\ place = [c \in Conns |-> IF c \in first THEN "new" ELSE "none"]
  OBVIOUS
<1>2. Held = first
  BY <1>1 DEF Held
<1>3. maxSize \in MaxSizes /\ MinSize <= maxSize
  BY DEF NeverResized
<1> QED BY <1>1, <1>2, <1>3 DEF LoopInv, StaleErrorJustified

(* StaleGeneration is raised only to a caller during whose borrow          *)
(* invalidate() was called again - in a pool that keeps the size it was    *)
(* made with.  (A pool resized downwards is not covered.)                  *)
THEOREM StaleErrorMeansAgain ==
    ASSUME NeverResized
    PROVE  Spec => []StaleErrorJustified
<1>1. Init => LoopInv
  BY InitLoopInv
<1>2. IInv /\ IInv' /\ LoopInv /\ [Next]_vars => LoopInv'
  BY StepLoopInv
<1>3. LoopInv => StaleErrorJustified
  BY DEF LoopInv
<1> QED BY <1>1, <1>2, <1>3, Invariance, PTL DEF Spec
-----------------------------------------------------------------------------
(* The pool lends as Lending promises.  Each step is one of Lending's, or  *)
(* none: what a caller or a worker does to a connection touches only what  *)
(* its owner sees (Ownership), a worker's connection is nobody's, and what *)
(* waits to be taken is unmarked.                                          *)
(* What Lending speaks of has not changed.                                 *)
Quiet == UNCHANGED <<generation, stamp, Noticed, Calls, Holders, asked>>

LEMMA QuietIsStutter == Quiet => [Lends!Next]_(Lends!vars)
BY DEF Quiet, Lends!vars, Noticed

(* A new pool is one that has lent nothing.                                *)
LEMMA InitRefines == Init => Lends!Init
BY DEF Init, Lends!Init, Noticed, Calls, Holders, CallAt, Using

(* A connection that is not out is held by nobody.                         *)
LEMMA NotOutIsFree ==
    ASSUME Ownership, NEW c \in Conns, place[c] # "out"
    PROVE  Lends!Free(c)
<1>1. \A b \in Borrowers : pc[b] \in Using => has[b] # c
  BY DEF Ownership, Owning, Using
<1>2. NoConn # c
  BY PoolAssumption DEF PoolAssumption
<1> QED BY <1>1, <1>2 DEF Lends!Free, Holders

(* What another caller has is not this one's.                              *)
LEMMA TakenIsFree ==
    ASSUME Ownership, NEW b \in Borrowers, pc[b] = "taken"
    PROVE  Lends!Free(has[b])
<1>1. \A d \in Borrowers : pc[d] \in Using => has[d] # has[b]
  BY DEF Ownership, Owning, Using
<1>2. NoConn # has[b]
  BY PoolAssumption DEF PoolAssumption, Ownership, Owning
<1> QED BY <1>1, <1>2 DEF Lends!Free, Holders

(* Holders are untouched by a step that only takes a connection away from  *)
(* callers that have given it back.                                        *)
LEMMA WorkerKeepsCalls ==
    ASSUME IInv, NEW c \in Conns, Worker(c) \/ Grow(c) \/ Shrink(c)
    PROVE  UNCHANGED <<generation, Calls, Holders, asked>> /\ Lends!Free(c)
<1> USE DEF IInv, TypeOK
<1>1. place[c] # "out" /\ UNCHANGED <<pc, generation, asked>>
  BY DEF Worker, Grow, Shrink, Configure, Configured, ConfigureFails, ResetDiscards,
         ResetKeeps, ResetHook, ResetHookDone, ResetHookFails, Discard, residue, callVars
<1>2. has' = has \/ has' = [b \in Borrowers |-> IF has[b] = c THEN NoConn ELSE has[b]]
  BY DEF Worker, Grow, Shrink, Configure, Configured, ConfigureFails, ResetDiscards,
         ResetKeeps, ResetHook, ResetHookDone, ResetHookFails, Discard, residue, callVars
<1>3. \A b \in Borrowers : pc[b] \in Using => has[b] # c
  BY <1>1 DEF Ownership, Owning, Using
<1>4. \A b \in Borrowers : pc[b] \in Using => has'[b] = has[b]
  BY <1>2, <1>3
<1>5. UNCHANGED Calls
  BY <1>1 DEF Calls
<1>6. UNCHANGED Holders
  BY <1>1, <1>4 DEF Holders
<1> QED BY <1>1, <1>5, <1>6, NotOutIsFree

(* A worker makes a connection, tidies one up, or does what nobody sees.   *)
LEMMA WorkerRefines ==
    ASSUME IInv, NEW c \in Conns, Worker(c) \/ Grow(c) \/ Shrink(c)
    PROVE  [Lends!Next]_(Lends!vars)
<1>1. UNCHANGED <<generation, Calls, Holders, asked>> /\ Lends!Free(c)
  BY WorkerKeepsCalls
<1>2. CASE Configure(c)
  <2>1. stamp' = [stamp EXCEPT ![c] = generation] /\ UNCHANGED Noticed
    BY <1>2 DEF Configure, residue, Noticed
  <2>2. Lends!Make(c)
    BY <1>1, <2>1 DEF Lends!Make, Noticed
  <2> QED BY <2>2 DEF Lends!Next
<1>3. CASE Discard(c) \/ ResetHookDone(c)
  <2>1. UNCHANGED stamp /\ Noticed' = Noticed \ {c}
    <3>1. CASE Discard(c)
      BY <3>1 DEF Discard, Noticed
    <3>2. CASE ResetHookDone(c)
      <4>1. c \notin cancelled /\ locked \ lockUnseen \subseteq ranOthers
        BY <3>2 DEF ResetHookDone, IInv, Clean
      <4> QED BY <3>2, <4>1 DEF ResetHookDone, Noticed
    <3> QED BY <1>3, <3>1, <3>2
  <2>2. Lends!Tidy(c)
    BY <1>1, <2>1 DEF Lends!Tidy, Noticed
  <2> QED BY <2>2 DEF Lends!Next
<1>4. CASE Grow(c) \/ Shrink(c) \/ Configured(c) \/ ResetKeeps(c) \/ ResetHook(c)
  <2>1. UNCHANGED <<stamp, Noticed>>
    <3>1. CASE Shrink(c)
      <4>1. c \notin Noticed
        BY <3>1 DEF Shrink, IInv, Clean
      <4> QED BY <3>1, <4>1 DEF Shrink, Noticed
    <3>2. CASE Grow(c) \/ Configured(c) \/ ResetKeeps(c) \/ ResetHook(c)
      BY <3>2 DEF Grow, Configured, ResetKeeps, ResetHook, residue, Noticed
    <3> QED BY <1>4, <3>1, <3>2
  <2> QED BY <1>1, <2>1, QuietIsStutter DEF Quiet
<1> QED BY <1>2, <1>3, <1>4 DEF Worker, ConfigureFails, ResetDiscards, ResetHookFails

(* How a caller's step looks from outside.                                 *)
LEMMA CallerSeen ==
    ASSUME TypeOK, NEW b \in Borrowers,
           \A d \in Borrowers \ {b} : pc'[d] = pc[d] /\ has'[d] = has[d]
    PROVE  /\ Calls' = [Calls EXCEPT ![b] = CallAt(pc'[b])]
           /\ Holders' = [Holders EXCEPT ![b] = IF pc'[b] \in Using THEN has'[b] ELSE NoConn]
BY DEF Calls, Holders

(* Nobody's step but its own moves a caller.                               *)
LEMMA OthersStay ==
    ASSUME IInv, NEW b \in Borrowers, Caller(b)
    PROVE  /\ \A d \in Borrowers \ {b} : pc'[d] = pc[d] /\ has'[d] = has[d]
           /\ UNCHANGED <<generation, stamp>>
BY DEF IInv, TypeOK, Caller, Ask, GiveUp, Take, CheckPasses, CheckFails, Accept, Reject,
       RaiseStale, Prepare, PrepareFails, RunOthersText, LockUnseen, CutOff, Interrupt, Break,
         EndBlock, Leave, ClearLent, connVars, residue, callVars

(* Waiting for a connection, and being told that there is none.            *)
LEMMA WaitingRefines ==
    ASSUME IInv, NEW b \in Borrowers,
           Ask(b) \/ GiveUp(b) \/ RaiseStale(b) \/ Reject(b),
           NeverResized => StaleErrorJustified'
    PROVE  [Lends!Next]_(Lends!vars)
<1> USE DEF IInv, TypeOK
<1>1. /\ Calls' = [Calls EXCEPT ![b] = CallAt(pc'[b])]
      /\ Holders' = [Holders EXCEPT ![b] = IF pc'[b] \in Using THEN has'[b] ELSE NoConn]
      /\ UNCHANGED <<generation, stamp>>
  BY OthersStay, CallerSeen DEF Caller
<1>2. UNCHANGED Holders
  <2>1. pc[b] \notin Using /\ pc'[b] \notin Using
    BY DEF Ask, GiveUp, RaiseStale, Reject, Using
  <2> QED BY <1>1, <2>1 DEF Holders
<1>3. UNCHANGED Noticed
  BY DEF Ask, GiveUp, RaiseStale, Reject, Noticed, connVars, residue
<1>4. CASE Ask(b)
  <2>1. Calls[b] = "idle" /\ CallAt(pc'[b]) = "waiting"
    BY <1>4 DEF Ask, Calls, CallAt, Using
  <2>2. Lends!Ask(b)
    BY <1>1, <1>2, <1>3, <1>4, <2>1 DEF Lends!Ask, Ask, Noticed
  <2> QED BY <2>2 DEF Lends!Next
<1>5. CASE GiveUp(b) \/ RaiseStale(b)
  <2>1. Calls[b] \in {"waiting", "refused"} /\ CallAt(pc'[b]) = "idle"
        /\ asked' = [asked EXCEPT ![b] = 0]
    BY <1>5 DEF GiveUp, RaiseStale, Calls, CallAt, Using
  <2>2. Lends!GoAway(b)
    BY <1>1, <1>2, <1>3, <2>1 DEF Lends!GoAway, Noticed
  <2> QED BY <2>2 DEF Lends!Next
<1>6. CASE Reject(b)
  <2>1. Calls[b] = "waiting" /\ pc'[b] \in {"stale", "asking"} /\ UNCHANGED asked
    BY <1>6 DEF Reject, Calls, CallAt, Using
  <2>2. CASE pc'[b] = "stale"
    <3>1. CallAt(pc'[b]) = "refused"
      BY <2>2 DEF CallAt, Using
    <3>2. NeverResized => generation > asked[b]
      BY <1>1, <2>1, <2>2 DEF StaleErrorJustified
    <3>3. Lends!Refuse(b)
      BY <1>1, <1>2, <1>3, <2>1, <3>1, <3>2 DEF Lends!Refuse, Noticed
    <3> QED BY <3>3 DEF Lends!Next
  <2>3. CASE pc'[b] = "asking"
    <3>1. CallAt(pc'[b]) = "waiting"
      BY <2>3 DEF CallAt, Using
    <3>2. UNCHANGED Calls
      BY <1>1, <2>1, <3>1 DEF Calls
    <3> QED BY <1>1, <1>2, <1>3, <2>1, <3>2, QuietIsStutter DEF Quiet
  <2> QED BY <2>1, <2>2, <2>3
<1> QED BY <1>4, <1>5, <1>6

(* A connection that is taken, checked and of the current generation is    *)
(* free, current and unmarked when it is accepted.                         *)
LEMMA AcceptRefines ==
    ASSUME IInv, NEW b \in Borrowers, Accept(b)
    PROVE  [Lends!Next]_(Lends!vars)
<1> USE DEF IInv, TypeOK
<1>1. /\ Calls' = [Calls EXCEPT ![b] = CallAt(pc'[b])]
      /\ Holders' = [Holders EXCEPT ![b] = IF pc'[b] \in Using THEN has'[b] ELSE NoConn]
      /\ UNCHANGED <<generation, stamp>>
  BY OthersStay, CallerSeen DEF Caller
<1>2. has[b] \in Conns /\ Lends!Free(has[b]) /\ has[b] \notin Noticed /\ stamp[has[b]] = generation
  BY TakenIsFree DEF Accept, Current, Ownership, Owning, Clean, Noticed
<1>3. Calls[b] = "waiting" /\ CallAt(pc'[b]) = "served" /\ pc'[b] \in Using /\ has'[b] = has[b]
  BY DEF Accept, Calls, CallAt, Using
<1>4. UNCHANGED <<Noticed, asked>>
  BY DEF Accept, residue, Noticed
<1>5. Lends!Serve(b, has[b])
  BY <1>1, <1>2, <1>3, <1>4 DEF Lends!Serve, Noticed
<1> QED BY <1>2, <1>5 DEF Lends!Next

(* What a borrower does with its connection stays on that connection, and  *)
(* ends when it gives it back.                                             *)
LEMMA HoldingRefines ==
    ASSUME IInv, NEW b \in Borrowers,
           \/ Prepare(b) \/ PrepareFails(b) \/ RunOthersText(b) \/ LockUnseen(b)
           \/ Interrupt(b) \/ Break(b) \/ EndBlock(b) \/ Leave(b)
    PROVE  [Lends!Next]_(Lends!vars)
<1> USE DEF IInv, TypeOK
<1>1. /\ Calls' = [Calls EXCEPT ![b] = CallAt(pc'[b])]
      /\ Holders' = [Holders EXCEPT ![b] = IF pc'[b] \in Using THEN has'[b] ELSE NoConn]
      /\ UNCHANGED <<generation, stamp>>
  BY OthersStay, CallerSeen DEF Caller
<1>2. pc[b] \in Using /\ (~Leave(b) => UNCHANGED asked)
  BY DEF Prepare, PrepareFails, RunOthersText, LockUnseen, CutOff, Interrupt,
         Break, EndBlock, Leave, Using, callVars
<1>3. Calls[b] = "served" /\ Holders[b] = has[b]
  BY <1>2 DEF Calls, CallAt, Holders
<1>4. CASE Leave(b)
  <2>1. pc'[b] \notin Using /\ CallAt(pc'[b]) = "idle" /\ UNCHANGED Noticed
        /\ asked' = [asked EXCEPT ![b] = 0]
    BY <1>4 DEF Leave, residue, CallAt, Using, Noticed
  <2>2. Lends!GiveBack(b)
    BY <1>1, <1>2, <1>3, <2>1 DEF Lends!GiveBack, Noticed
  <2> QED BY <2>2 DEF Lends!Next
<1>5. CASE ~Leave(b)
  <2>1. pc'[b] \in Using /\ has'[b] = has[b]
    BY <1>5 DEF Prepare, PrepareFails, RunOthersText, LockUnseen, CutOff, Interrupt, Break,
                EndBlock, Using,
                connVars, residue, callVars
  <2>2. UNCHANGED <<Calls, Holders>>
    <3>1. CallAt(pc'[b]) = "served"
      BY <2>1 DEF CallAt
    <3>2. UNCHANGED Calls
      BY <1>1, <1>3, <3>1 DEF Calls
    <3>3. UNCHANGED Holders
      BY <1>1, <1>3, <2>1 DEF Holders
    <3> QED BY <3>2, <3>3
  <2>3. Noticed' = Noticed \/ Noticed' = Noticed \cup {Holders[b]}
    <3>1. CASE Prepare(b) \/ Break(b) \/ EndBlock(b)
      BY <3>1 DEF Prepare, Break, EndBlock, connVars, residue, Noticed
    <3>2. CASE LockUnseen(b)
      <4>1. locked \ lockUnseen \subseteq ranOthers
        BY DEF Clean
      <4> QED BY <3>2, <4>1 DEF LockUnseen, Noticed
    <3>3. CASE RunOthersText(b)
      BY <1>3, <3>3 DEF RunOthersText, Noticed
    <3>4. CASE PrepareFails(b) \/ Interrupt(b)
      <4>1. cancelled' = cancelled \/ cancelled' = cancelled \cup {has[b]}
        BY <3>4 DEF PrepareFails, Interrupt, CutOff
      <4>2. UNCHANGED <<ranOthers, locked, lockUnseen>>
        BY <3>4 DEF PrepareFails, Interrupt
      <4> QED BY <1>3, <4>1, <4>2 DEF Noticed
    <3> QED BY <1>5, <3>1, <3>2, <3>3, <3>4
  <2>4. CASE Noticed' = Noticed
    BY <1>1, <1>2, <1>5, <2>2, <2>4, QuietIsStutter DEF Quiet
  <2>5. CASE Noticed' = Noticed \cup {Holders[b]}
    <3>1. Lends!Soil(b)
      BY <1>1, <1>2, <1>3, <1>5, <2>2, <2>5 DEF Lends!Soil, Noticed
    <3> QED BY <3>1 DEF Lends!Next
  <2> QED BY <2>3, <2>4, <2>5
<1> QED BY <1>4, <1>5

(* Being handed a connection, its check, and the flag that comes down      *)
(* after the block are nothing a caller sees.                              *)
LEMMA UnseenRefines ==
    ASSUME IInv, NEW b \in Borrowers,
           (\E c \in Conns : Take(b, c)) \/ CheckPasses(b) \/ CheckFails(b) \/ ClearLent(b)
    PROVE  [Lends!Next]_(Lends!vars)
<1> USE DEF IInv, TypeOK
<1>1. /\ Calls' = [Calls EXCEPT ![b] = CallAt(pc'[b])]
      /\ Holders' = [Holders EXCEPT ![b] = IF pc'[b] \in Using THEN has'[b] ELSE NoConn]
      /\ UNCHANGED <<generation, stamp>>
  BY OthersStay, CallerSeen DEF Caller
<1>2. CallAt(pc'[b]) = CallAt(pc[b]) /\ pc[b] \notin Using /\ pc'[b] \notin Using
  BY DEF Take, CheckPasses, CheckFails, ClearLent, CallAt, Using
<1>3. UNCHANGED <<Calls, Holders>>
  BY <1>1, <1>2 DEF Calls, Holders
<1>4. UNCHANGED <<Noticed, asked>>
  BY DEF Take, CheckPasses, CheckFails, ClearLent, residue, Noticed
<1> QED BY <1>1, <1>3, <1>4, QuietIsStutter DEF Quiet

(* For any number of connections and callers, in both pools: the pool      *)
(* lends as Lending promises - and if it is not resized, it refuses a      *)
(* caller only for an invalidate() that caller lived through.              *)
THEOREM Refinement == Spec => ImplementsLending
<1>1. Init => Lends!Init
  BY InitRefines
<1>2. ASSUME IInv, [Next]_vars, NeverResized => StaleErrorJustified'
      PROVE  [Lends!Next]_(Lends!vars)
  <2>1. CASE Invalidate
    <3>1. UNCHANGED <<stamp, Noticed, Calls, Holders, asked>> /\ generation' = generation + 1
      BY <2>1 DEF Invalidate, connVars, residue, callVars, Noticed, Calls, Holders
    <3>2. Lends!Invalidate
      BY <3>1 DEF Lends!Invalidate, Noticed
    <3> QED BY <3>2 DEF Lends!Next
  <2>2. CASE Resize \/ UNCHANGED vars
    <3>1. Quiet
      BY <2>2 DEF Quiet, Resize, vars, connVars, residue, callVars, Noticed, Calls, Holders
    <3> QED BY <3>1, QuietIsStutter
  <2>3. ASSUME NEW c \in Conns, Worker(c) \/ Grow(c) \/ Shrink(c)
        PROVE  [Lends!Next]_(Lends!vars)
    BY <1>2, <2>3, WorkerRefines
  <2>4. ASSUME NEW b \in Borrowers, Caller(b)
        PROVE  [Lends!Next]_(Lends!vars)
    BY <1>2, <2>4, WaitingRefines, AcceptRefines, HoldingRefines, UnseenRefines DEF Caller
  <2> QED BY <1>2, <2>1, <2>2, <2>3, <2>4 DEF Next, Sizing
<1>3. CASE NeverResized
  <2>1. Spec => []StaleErrorJustified
    BY <1>3, StaleErrorMeansAgain
  <2>2. IInv /\ [Next]_vars /\ StaleErrorJustified' => [Lends!Next]_(Lends!vars)
    BY <1>2
  <2> QED BY <1>1, <2>1, <2>2, Invariance, PTL DEF Spec, ImplementsLending, Lends!Spec
<1>4. CASE ~NeverResized
  <2>1. IInv /\ [Next]_vars => [Lends!Next]_(Lends!vars)
    BY <1>2, <1>4
  <2> QED BY <1>1, <2>1, Invariance, PTL DEF Spec, ImplementsLending, Lends!Spec
<1> QED BY <1>3, <1>4
=============================================================================
