------------------------------ MODULE SchemaProofs ------------------------------
(***************************************************************************)
(* Proofs about Schema, for any number of processes, any calls and any     *)
(* graph to begin with, and about VectorStorage, whose statements run      *)
(* under the same lock, for any sessions, storages and identities.         *)
(*                                                                         *)
(* Schema.  The lock comes first: only its holder runs statements or has   *)
(* changed anything.  So what a process would commit, and what it would    *)
(* go back to, change under it only by the labels that writes make; and a  *)
(* plan worked out under the lock, from what is there, stays right until   *)
(* its last statement.                                                     *)
(*                                                                         *)
(* VectorStorage.  What is made under the lock was not there and takes     *)
(* nothing's place, and neither does an index built without it; so what    *)
(* was answered to be there is left alone until somebody drops of it, and  *)
(* a table that has its key has only the rows of vertices.                 *)
(***************************************************************************)
EXTENDS Schema, VectorStorage, TLAPS

(* The steps of a call that holds the lock, and of one with no plan yet.   *)
Active == {"replanning", "running", "settling", "leaving"}
Bare == {"idle", "declaring", "planning"}

(* What may be in a plan, by what the call asks for.                       *)
Planned ==
    \A p \in Processes :
        /\ IF pc[p] = "idle" THEN declared[p] = {} ELSE call[p] \in Calls
        /\ pc[p] \notin {"waiting", "replanning", "running"} => todo[p] = {}
        /\ \A t \in declared[p] : t.kind = "column"
        /\ \A op \in todo[p] :
              \/ op.do = "create" /\ op.thing \in call[p].wants
              \/ /\ op.do = "drop" /\ op.thing.kind = call[p].on /\ call[p].on # "label"
                 /\ op.thing \notin Altered \cup Spared
        /\ p \notin frozen => snapshot[p] = None

(* Who runs statements, or has changed anything, has the lock.             *)
Turns ==
    \A p \in Processes :
        /\ pc[p] \in Active => holder = p
        /\ change[p] # Nothing => holder = p
        /\ mark[p].held => holder = p
        /\ mark[p].change # Nothing => mark[p].held
        /\ pc[p] \in Bare => mark[p] = Blank

(* What p goes back to if its call fails.                                  *)
Marked(p) == Plus(catalog, mark[p].change)

(* Labels and columns are never dropped.                                   *)
Grows ==
    \A p \in Processes, t \in Things :
        t.kind \in {"label", "column"} =>
            0 <= mark[p].change[t] /\ mark[p].change[t] <= change[p][t]

(* What a catalog always is: nothing is there less than no times, what is  *)
(* spared is there, and of the constraints by one name at most one.        *)
Sound(f) ==
    /\ \A t \in Things : f[t] >= 0
    /\ \A t \in Spared : f[t] > 0
    /\ \A t \in Things : t.kind = "constraint" =>
          f[t] <= 1 /\ \A u \in Things : Same(t, u) /\ t # u => f[t] = 0 \/ f[u] = 0
SoundViews == Sound(catalog) /\ \A p \in Processes : Sound(Truth(p)) /\ Sound(Marked(p))

(* What the catalog prints otherwise stays as it was.                      *)
OtherwiseRead ==
    \A t \in Altered \cap Things :
        /\ catalog[t] = IF t \in Existing THEN 1 ELSE 0
        /\ \A p \in Processes :
              /\ mark[p].change[t] = 0
              /\ pc[p] \notin {"running", "settling"} => change[p][t] = 0
              /\ change[p][t] # 0 => t \in call[p].wants

(* The plan of one that reads what is there, while its statements run.     *)
FreshPlan(p) ==
    /\ declared[p] \subseteq There(Truth(p))
    /\ pc[p] = "running" =>
          /\ \A op \in todo[p] : op.do = "drop" => Truth(p)[op.thing] > 0
          /\ \A op \in todo[p] :
                op.do = "create" /\ op.thing.kind = "constraint" =>
                    \A u \in Things : Same(u, op.thing) /\ Truth(p)[u] > 0 => Drop(u) \in todo[p]
          /\ \A op \in todo[p] :
                op.do = "create" /\ op.thing.kind = "label" /\ Truth(p)[op.thing] > 0 =>
                    op.thing \in overtaken

(* What was asked for is there, or on its way.                             *)
OnItsWay(p) ==
    /\ pc[p] \in {"running", "settling", "leaving"} /\ call[p].on = "label" =>
          \A t \in call[p].wants :
              \/ Truth(p)[t] > 0 \/ Create(t) \in todo[p]
              \/ /\ t.kind = "column"
                 /\ \E u \in Things : /\ u.kind = "label" /\ u.label = t.label
                                      /\ Create(u) \in todo[p] \/ u \in overtaken
    /\ pc[p] = "leaving" /\ call[p].on # "label" =>
          \A t \in call[p].wants : Truth(p)[t] > 0

FreshPlans == \A p \in Processes \ frozen : FreshPlan(p) /\ OnItsWay(p)

Tidy(f) ==
    /\ \A t \in Things \ Altered : f[t] <= 1
    /\ \A t, u \in Things \ Altered :
          t.kind = "index" /\ Same(t, u) /\ t # u => f[t] = 0 \/ f[u] = 0
    /\ \A t \in Things : t.kind = "column" /\ f[t] > 0 =>
          \E l \in Things : l.kind = "label" /\ l.label = t.label /\ f[l] > 0

(* A call that asks for two over one key is never settled.                 *)
TidyPlan(p) ==
    /\ Tidy(Marked(p))
    /\ pc[p] \in {"running", "settling"} /\ OneOverAKey(call[p].wants)
       => /\ Tidy(Truth(p))
          /\ pc[p] = "running" => \A op \in todo[p] : op.do = "create" =>
                /\ op.thing.kind = "index" /\ op.thing \notin Altered =>
                      \A u \in Things \ Altered :
                          Same(u, op.thing) /\ Truth(p)[u] > 0 => Drop(u) \in todo[p]
                /\ op.thing.kind = "column" =>
                      \E l \in Things : l.kind = "label" /\ l.label = op.thing.label /\ Truth(p)[l] > 0
    /\ pc[p] \notin {"running", "settling"} => Tidy(Truth(p))

TidyPlans == Tidy(catalog) /\ \A p \in Processes : TidyPlan(p)

IInv ==
    /\ TypeOK /\ Planned /\ Turns /\ Grows /\ SoundViews
    /\ OtherwiseRead /\ FreshPlans

-----------------------------------------------------------------------------
(* What a catalog with a transaction's changes is.                         *)
LEMMA PlusType ==
    ASSUME NEW c \in [Things -> Int], NEW d \in [Things -> Int]
    PROVE  Plus(c, d) \in [Things -> Int] /\ \A t \in Things : Plus(c, d)[t] = c[t] + d[t]
BY DEF Plus

LEMMA NothingType ==
    /\ Nothing \in [Things -> Int] /\ \A t \in Things : Nothing[t] = 0
    /\ Blank \in [change : [Things -> Int], held : BOOLEAN]
    /\ Blank.change = Nothing /\ Blank.held = FALSE
BY DEF Nothing, Blank

LEMMA PlusNothing ==
    ASSUME NEW c \in [Things -> Int]
    PROVE  Plus(c, Nothing) = c
<1>1. \A t \in Things : c[t] + Nothing[t] = c[t]
  BY NothingType
<1>2. Plus(c, Nothing) = [t \in Things |-> c[t]]
  BY <1>1 DEF Plus
<1> QED BY <1>2

LEMMA ViewTypes ==
    ASSUME TypeOK, NEW p \in Processes
    PROVE  /\ Truth(p) \in [Things -> Int] /\ Marked(p) \in [Things -> Int]
           /\ Base(p) \in [Things -> Nat] /\ Seen(p) \in [Things -> Int]
           /\ There(Seen(p)) \subseteq Things
           /\ \A t \in Things : /\ Truth(p)[t] = catalog[t] + change[p][t]
                                /\ Marked(p)[t] = catalog[t] + mark[p].change[t]
<1>1. /\ catalog \in [Things -> Int] /\ catalog \in [Things -> Nat]
      /\ change[p] \in [Things -> Int] /\ mark[p].change \in [Things -> Int]
  BY DEF TypeOK
<1>2. Base(p) \in [Things -> Nat] /\ Base(p) \in [Things -> Int]
  BY DEF TypeOK, Base
<1> QED BY <1>1, <1>2, PlusType DEF Truth, Marked, Seen, There

(* What a plan is made of.                                                 *)
PlanFor(c, ops) ==
    /\ ops \in SUBSET Ops
    /\ \A op \in ops :
          \/ op.do = "create" /\ op.thing \in c.wants
          \/ /\ op.do = "drop" /\ op.thing.kind = c.on /\ c.on # "label"
             /\ op.thing \notin Altered \cup Spared

LEMMA WantsType ==
    ASSUME NEW c \in Calls
    PROVE  /\ c.wants \subseteq Things /\ c.on \in {"label", "index", "constraint"}
           /\ \A t \in c.wants : t.kind = c.on \/ (c.on = "label" /\ t.kind = "column")
BY SchemaAssumption DEF SchemaAssumption, Things

LEMMA ListingType ==
    ASSUME NEW c, NEW seen, NEW l \in Listings(c, seen)
    PROVE  l \subseteq {t \in There(seen) \ Altered : t.kind = c.on}
BY DEF Listings

LEMMA OpsType == \A t \in Things :
    /\ Create(t) \in Ops /\ Create(t).do = "create" /\ Create(t).thing = t
    /\ Drop(t) \in Ops /\ Drop(t).do = "drop" /\ Drop(t).thing = t
BY DEF Create, Drop, Ops

LEMMA PlansAre ==
    ASSUME TypeOK, NEW p \in Processes, call[p] \in Calls, NEW ops \in Plans(p)
    PROVE  PlanFor(call[p], ops)
<1> DEFINE c == call[p]
<1>1. /\ c.wants \subseteq Things /\ c.on \in {"label", "index", "constraint"}
  BY WantsType
<1>2. CASE c.on = "label"
  <2>1. ops = ReconcileLabels(c, Seen(p), declared[p])
    BY <1>2 DEF Plans
  <2>2. \A op \in ops : \E t \in c.wants : op = Create(t)
    BY <2>1 DEF ReconcileLabels
  <2> QED BY <1>1, <2>2, OpsType DEF PlanFor
<1>3. CASE c.on # "label"
  <2>1. PICK l \in Listings(c, Seen(p)) : ops = Reconcile(c, l, c.dropExtra)
    BY <1>3 DEF Plans
  <2>2. l \subseteq {t \in There(Seen(p)) \ Altered : t.kind = c.on} /\ There(Seen(p)) \subseteq Things
    BY ListingType, ViewTypes
  <2>3. ASSUME NEW op \in ops
        PROVE  \/ \E w \in c.wants : op = Create(w)
               \/ \E u \in l : op = Drop(u) /\ u \notin Spared
    <3>1. CASE \E w \in c.wants : op = Create(w)
      BY <3>1
    <3>2. ASSUME NEW u \in l, NEW w \in c.wants, Same(u, w), u # w, op = Drop(u)
          PROVE u \notin Spared
      BY <3>2 DEF Spared, Same
    <3>3. ASSUME NEW u \in l, c.dropExtra, SpokenFor(c, u), op = Drop(u) PROVE u \notin Spared
      BY <3>3 DEF Spared, SpokenFor
    <3> QED BY <2>1, <3>1, <3>2, <3>3 DEF Reconcile
  <2> QED BY <1>1, <1>3, <2>2, <2>3, OpsType DEF PlanFor
<1> QED BY <1>2, <1>3

LEMMA NoOne == NoProcess \notin Processes
<1> QED BY SchemaAssumption DEF SchemaAssumption

-----------------------------------------------------------------------------
(* Types, the plans, and whose turn it is.                                 *)
LEMMA KindsAre == \A t \in Things : t.kind \in Kinds
<1>1. \A c \in Calls : \A t \in c.wants : t.kind \in Kinds
  BY WantsType DEF Kinds
<1> QED BY <1>1, SchemaAssumption DEF SchemaAssumption, Things

(* Every variable has its type.                                            *)
LEMMA StepTypes == IInv /\ Next => TypeOK'
<1> SUFFICES ASSUME IInv, Next PROVE TypeOK'
  OBVIOUS
<1> USE DEF IInv, TypeOK, local, history
<1>1. ASSUME NEW p \in Processes, NEW c \in Calls, Ensure(p, c) PROVE TypeOK'
  BY <1>1, ViewTypes, NothingType DEF Ensure, Goto
<1>2. ASSUME NEW p \in Processes, Declare(p) PROVE TypeOK'
  BY <1>2, ViewTypes, NothingType DEF Declare, Goto, Read
<1>3. ASSUME NEW p \in Processes, Plan(p) PROVE TypeOK'
  <2>1. UNCHANGED <<catalog, change, holder, outer, frozen, history>>
    BY <1>3 DEF Plan
  <2>2. snapshot' \in [Processes -> {None} \cup [Things -> Nat]]
    BY <1>3, ViewTypes DEF Plan, Read
  <2>3. CASE Return(p)
    BY <2>1, <2>2, <2>3, NothingType DEF Return, Goto
  <2>4. ASSUME NEW ops \in Plans(p),
               /\ todo' = [todo EXCEPT ![p] = ops]
               /\ mark' = [mark EXCEPT ![p] = [change |-> change[p], held |-> holder = p]]
               /\ Goto(p, "waiting") /\ UNCHANGED <<call, declared>>
        PROVE  TypeOK'
    <3>1. ops \in SUBSET Ops
      BY <1>3, <2>4, PlansAre DEF Plan, Planned, PlanFor
    <3>2. [change |-> change[p], held |-> holder = p] \in [change : [Things -> Int], held : BOOLEAN]
      OBVIOUS
    <3> QED BY <2>1, <2>2, <2>4, <3>1, <3>2 DEF Goto
  <2> QED BY <1>3, <2>3, <2>4 DEF Plan
<1>4. ASSUME NEW p \in Processes, Wait(p) PROVE TypeOK'
  BY <1>4, ViewTypes, NothingType DEF Wait
<1>5. ASSUME NEW p \in Processes, Lock(p) PROVE TypeOK'
  BY <1>5, ViewTypes, NothingType DEF Lock, Goto
<1>6. ASSUME NEW p \in Processes, Replan(p) PROVE TypeOK'
  <2>1. PICK ops \in Plans(p) :
          /\ todo' = [todo EXCEPT ![p] = ops]
          /\ pc' = [pc EXCEPT ![p] = IF ops = {} THEN "leaving" ELSE "running"]
    BY <1>6 DEF Replan, PlansAgain, Goto
  <2>2. ops \in SUBSET Ops
    BY <1>6, PlansAre DEF Replan, Planned, PlanFor
  <2> QED BY <1>6, <2>1, <2>2 DEF Replan
<1>7. ASSUME NEW p \in Processes, NEW op \in todo[p], Run(p, op) PROVE TypeOK'
  BY <1>7, ViewTypes, NothingType DEF Run, Turn, Goto
<1>8. ASSUME NEW p \in Processes, NEW op \in todo[p], RunRefused(p, op) PROVE TypeOK'
  <2>1. refused' \subseteq Processes \X Kinds
    <3>1. op.thing \in Things
      BY DEF Ops
    <3> QED BY <1>8, <3>1, KindsAre DEF RunRefused
  <2> QED BY <1>8, <2>1, NothingType DEF RunRefused, Turn, Fail, Return, Goto
<1>9. ASSUME NEW p \in Processes, Settle(p) PROVE TypeOK'
  BY <1>9, ViewTypes, NothingType DEF Settle, Goto
<1>10. ASSUME NEW p \in Processes, SettleRaises(p) PROVE TypeOK'
  BY <1>10, ViewTypes, NothingType DEF SettleRaises, Fail, Return, Goto
<1>11. ASSUME NEW p \in Processes, Leave(p) PROVE TypeOK'
  <2>1. catalog' \in [Things -> Nat]
    BY <1>11, ViewTypes DEF Leave, End, SoundViews, Sound
  <2>2. change' \in [Processes -> [Things -> Int]]
    BY <1>11, NothingType DEF Leave, End
  <2>3. /\ holder' \in Processes \cup {NoProcess}
        /\ snapshot' \in [Processes -> {None} \cup [Things -> Nat]]
    BY <1>11 DEF Leave, End
  <2> QED BY <1>11, <2>1, <2>2, <2>3, NothingType DEF Leave, Return, Goto
<1>12. ASSUME NEW p \in Processes, Lose(p) PROVE TypeOK'
  <2>1. catalog' \in [Things -> Nat]
    BY <1>12, ViewTypes DEF Lose, End, SoundViews, Sound
  <2>2. change' \in [Processes -> [Things -> Int]]
    BY <1>12, NothingType DEF Lose, End
  <2>3. /\ holder' \in Processes \cup {NoProcess}
        /\ snapshot' \in [Processes -> {None} \cup [Things -> Nat]]
    BY <1>12 DEF Lose, End
  <2> QED BY <1>12, <2>1, <2>2, <2>3, NothingType DEF Lose, Return, Goto
<1>13. ASSUME NEW p \in Processes, NEW commits \in BOOLEAN, EndOuter(p, commits) PROVE TypeOK'
  <2>1. catalog' \in [Things -> Nat]
    BY <1>13, ViewTypes DEF EndOuter, End, SoundViews, Sound
  <2>2. change' \in [Processes -> [Things -> Int]]
    BY <1>13, NothingType DEF EndOuter, End
  <2>3. /\ holder' \in Processes \cup {NoProcess}
        /\ snapshot' \in [Processes -> {None} \cup [Things -> Nat]]
    BY <1>13 DEF EndOuter, End
  <2> QED BY <1>13, <2>1, <2>2, <2>3, NothingType DEF EndOuter, Return, Goto
<1>14. ASSUME NEW t \in Things, WriteMakes(t) PROVE TypeOK'
  BY <1>14, ViewTypes, NothingType DEF WriteMakes
<1> HIDE DEF IInv, TypeOK, local, history
<1> QED
  BY <1>1, <1>2, <1>3, <1>4, <1>5, <1>6, <1>7, <1>8, <1>9, <1>10, <1>11, <1>12, <1>13,
    <1>14 DEF Next

LEMMA StepPlanned == IInv /\ Next => Planned'
<1> SUFFICES ASSUME IInv, Next PROVE Planned'
  OBVIOUS
<1> USE DEF IInv, TypeOK, Planned, Turns, Active, Bare, local, history
<1>1. ASSUME NEW p \in Processes, NEW c \in Calls, Ensure(p, c) PROVE Planned'
  BY <1>1 DEF Ensure, Goto
<1>2. ASSUME NEW p \in Processes, Declare(p) PROVE Planned'
  BY <1>2 DEF Declare, Goto, Read
<1>3. ASSUME NEW p \in Processes, Plan(p) PROVE Planned'
  <2>1. call[p] \in Calls
    BY <1>3 DEF Plan
  <2>2. \A ops \in Plans(p) : PlanFor(call[p], ops)
    BY <2>1, PlansAre
  <2>3. CASE Return(p)
    BY <1>3, <2>3 DEF Plan, Return, Goto, Read
  <2>4. ASSUME NEW ops \in Plans(p), todo' = [todo EXCEPT ![p] = ops],
               Goto(p, "waiting") /\ UNCHANGED <<call, declared>>
        PROVE  Planned'
    BY <1>3, <2>1, <2>2, <2>4 DEF Plan, Goto, Read, PlanFor
  <2> QED BY <1>3, <2>3, <2>4 DEF Plan
<1>4. ASSUME NEW p \in Processes, Wait(p) PROVE Planned'
  BY <1>4 DEF Wait
<1>5. ASSUME NEW p \in Processes, Lock(p) PROVE Planned'
  BY <1>5 DEF Lock, Goto
<1>6. ASSUME NEW p \in Processes, Replan(p) PROVE Planned'
  <2>1. PICK ops \in Plans(p) : todo' = [todo EXCEPT ![p] = ops]
    BY <1>6 DEF Replan, PlansAgain
  <2>2. PlanFor(call[p], ops)
    BY <1>6, PlansAre DEF Replan
  <2> QED BY <1>6, <2>1, <2>2 DEF Replan, Goto, PlanFor
<1>7. ASSUME NEW p \in Processes, NEW op \in todo[p], Run(p, op) PROVE Planned'
  BY <1>7 DEF Run, Turn, Goto
<1>8. ASSUME NEW p \in Processes, NEW op \in todo[p], RunRefused(p, op) PROVE Planned'
  BY <1>8 DEF RunRefused, Turn, Fail, Return, Goto
<1>9. ASSUME NEW p \in Processes, Settle(p) PROVE Planned'
  BY <1>9 DEF Settle, Goto
<1>10. ASSUME NEW p \in Processes, SettleRaises(p) PROVE Planned'
  BY <1>10 DEF SettleRaises, Fail, Return, Goto
<1>11. ASSUME NEW p \in Processes, Leave(p) PROVE Planned'
  BY <1>11 DEF Leave, End, Return, Goto
<1>12. ASSUME NEW p \in Processes, Lose(p) PROVE Planned'
  BY <1>12 DEF Lose, End, Return, Goto
<1>13. ASSUME NEW p \in Processes, NEW commits \in BOOLEAN, EndOuter(p, commits) PROVE Planned'
  BY <1>13 DEF EndOuter, End
<1>14. ASSUME NEW t \in Things, WriteMakes(t) PROVE Planned'
  BY <1>14 DEF WriteMakes
<1> HIDE DEF IInv, TypeOK, Planned, Turns, Active, Bare, local, history
<1> QED
  BY <1>1, <1>2, <1>3, <1>4, <1>5, <1>6, <1>7, <1>8, <1>9, <1>10, <1>11, <1>12, <1>13,
    <1>14 DEF Next

LEMMA StepTurns == IInv /\ Next => Turns'
<1> SUFFICES ASSUME IInv, Next PROVE Turns'
  OBVIOUS
<1> USE NoOne DEF IInv, TypeOK, Turns, Active, Bare, Blank, local, history
<1>1. ASSUME NEW p \in Processes, NEW c \in Calls, Ensure(p, c) PROVE Turns'
  BY <1>1 DEF Ensure, Goto
<1>2. ASSUME NEW p \in Processes, Declare(p) PROVE Turns'
  BY <1>2 DEF Declare, Goto, Read
<1>3. ASSUME NEW p \in Processes, Plan(p) PROVE Turns'
  <2>1. CASE Return(p)
    BY <1>3, <2>1 DEF Plan, Return, Goto
  <2>2. CASE /\ mark' = [mark EXCEPT ![p] = [change |-> change[p], held |-> holder = p]]
             /\ Goto(p, "waiting")
    BY <1>3, <2>2 DEF Plan, Goto
  <2> QED BY <1>3, <2>1, <2>2 DEF Plan
<1>4. ASSUME NEW p \in Processes, Wait(p) PROVE Turns'
  BY <1>4 DEF Wait
<1>5. ASSUME NEW p \in Processes, Lock(p) PROVE Turns'
  BY <1>5 DEF Lock, Goto
<1>6. ASSUME NEW p \in Processes, Replan(p) PROVE Turns'
  BY <1>6 DEF Replan, PlansAgain, Goto
<1>7. ASSUME NEW p \in Processes, NEW op \in todo[p], Run(p, op) PROVE Turns'
  BY <1>7 DEF Run, Turn, Goto
<1>8. ASSUME NEW p \in Processes, NEW op \in todo[p], RunRefused(p, op) PROVE Turns'
  BY <1>8 DEF RunRefused, Turn, Fail, Return, Goto
<1>9. ASSUME NEW p \in Processes, Settle(p) PROVE Turns'
  BY <1>9 DEF Settle, Goto
<1>10. ASSUME NEW p \in Processes, SettleRaises(p) PROVE Turns'
  BY <1>10 DEF SettleRaises, Fail, Return, Goto
<1>11. ASSUME NEW p \in Processes, Leave(p) PROVE Turns'
  BY <1>11 DEF Leave, End, Return, Goto
<1>12. ASSUME NEW p \in Processes, Lose(p) PROVE Turns'
  BY <1>12 DEF Lose, End, Return, Goto
<1>13. ASSUME NEW p \in Processes, NEW commits \in BOOLEAN, EndOuter(p, commits) PROVE Turns'
  BY <1>13 DEF EndOuter, End
<1>14. ASSUME NEW t \in Things, WriteMakes(t) PROVE Turns'
  BY <1>14 DEF WriteMakes
<1> HIDE DEF IInv, TypeOK, Turns, Active, Bare, Blank, local, history
<1> QED
  BY <1>1, <1>2, <1>3, <1>4, <1>5, <1>6, <1>7, <1>8, <1>9, <1>10, <1>11, <1>12, <1>13,
    <1>14 DEF Next

LEMMA StepGrows == IInv /\ Next => Grows'
<1> SUFFICES ASSUME IInv, Next PROVE Grows'
  OBVIOUS
<1> USE DEF IInv, TypeOK, Grows, Turns, Blank, Nothing, Bare, local, history
<1>1. ASSUME NEW p \in Processes, NEW c \in Calls, Ensure(p, c) PROVE Grows'
  BY <1>1 DEF Ensure, Goto
<1>2. ASSUME NEW p \in Processes, Declare(p) PROVE Grows'
  BY <1>2 DEF Declare, Goto, Read
<1>3. ASSUME NEW p \in Processes, Plan(p) PROVE Grows'
  <2>1. CASE Return(p)
    BY <1>3, <2>1 DEF Plan, Return, Goto
  <2>2. CASE mark' = [mark EXCEPT ![p] = [change |-> change[p], held |-> holder = p]]
    BY <1>3, <2>2 DEF Plan
  <2> QED BY <1>3, <2>1, <2>2 DEF Plan
<1>4. ASSUME NEW p \in Processes, Wait(p) PROVE Grows'
  BY <1>4 DEF Wait
<1>5. ASSUME NEW p \in Processes, Lock(p) PROVE Grows'
  BY <1>5 DEF Lock, Goto
<1>6. ASSUME NEW p \in Processes, Replan(p) PROVE Grows'
  BY <1>6 DEF Replan, PlansAgain, Goto
<1>7. ASSUME NEW p \in Processes, NEW op \in todo[p], Run(p, op) PROVE Grows'
  <2>1. ASSUME NEW t \in Things, t.kind \in {"label", "column"}
        PROVE  change'[p][t] >= change[p][t]
    <3>1. call[p] \in Calls
      BY <1>7 DEF Run, Turn, Planned
    <3>2. op.do = "drop" => op.thing.kind = call[p].on /\ call[p].on # "label"
      BY <1>7, <3>1, OpsType DEF Planned
    <3>3. call[p].on \in {"label", "index", "constraint"}
      BY <3>1, WantsType
    <3>4. op # Drop(t)
      BY <2>1, <3>2, <3>3, OpsType
    <3> QED BY <1>7, <3>4 DEF Run
  <2>2. \A q \in Processes \ {p} : change'[q] = change[q]
    BY <1>7 DEF Run
  <2> QED BY <1>7, <2>1, <2>2 DEF Run
<1>8. ASSUME NEW p \in Processes, NEW op \in todo[p], RunRefused(p, op) PROVE Grows'
  BY <1>8 DEF RunRefused, Turn, Fail, Return, Goto
<1>9. ASSUME NEW p \in Processes, Settle(p) PROVE Grows'
  BY <1>9 DEF Settle, Goto
<1>10. ASSUME NEW p \in Processes, SettleRaises(p) PROVE Grows'
  BY <1>10 DEF SettleRaises, Fail, Return, Goto
<1>11. ASSUME NEW p \in Processes, Leave(p) PROVE Grows'
  BY <1>11 DEF Leave, End, Return, Goto
<1>12. ASSUME NEW p \in Processes, Lose(p) PROVE Grows'
  BY <1>12 DEF Lose, End, Return, Goto
<1>13. ASSUME NEW p \in Processes, NEW commits \in BOOLEAN, EndOuter(p, commits) PROVE Grows'
  BY <1>13 DEF EndOuter, End
<1>14. ASSUME NEW t \in Things, WriteMakes(t) PROVE Grows'
  BY <1>14 DEF WriteMakes
<1> HIDE DEF IInv, TypeOK, Grows, Turns, Blank, Nothing, Bare, local, history
<1> QED
  BY <1>1, <1>2, <1>3, <1>4, <1>5, <1>6, <1>7, <1>8, <1>9, <1>10, <1>11, <1>12, <1>13,
    <1>14 DEF Next

-----------------------------------------------------------------------------
(* What each reads after a step: what it or the one that stepped read      *)
(* before, unless a statement ran or a write made a label.                 *)
FromOld(f, p, q) == f \in {catalog, Truth(p), Truth(q), Marked(q)}
OldViews(p) ==
    /\ catalog' \in {catalog, Truth(p)}
    /\ \A q \in Processes : FromOld(Truth(q)', p, q) /\ FromOld(Marked(q)', p, q)

(* The steps by what they do to that: nothing but set or release a mark,   *)
(* go back, or commit.                                                     *)
Stays(p) ==
    /\ UNCHANGED <<catalog, change>>
    /\ mark' \in [Processes -> [change : [Things -> Int], held : BOOLEAN]]
    /\ \A q \in Processes \ {p} : mark'[q] = mark[q]
    /\ mark'[p].change \in {mark[p].change, change[p], Nothing}
GoesBack(p) ==
    /\ catalog' = catalog
    /\ \E back \in {mark[p].change, Nothing} : change' = [change EXCEPT ![p] = back]
    /\ mark'[p] = Blank /\ \A q \in Processes \ {p} : mark'[q] = mark[q]
Commits(p) ==
    /\ catalog' = Truth(p)
    /\ change' = [change EXCEPT ![p] = Nothing]
    /\ mark'[p] = Blank /\ \A q \in Processes \ {p} : mark'[q] = mark[q]

LEMMA StillViews ==
    ASSUME TypeOK, NEW p \in Processes, Stays(p)
    PROVE  /\ OldViews(p)
           /\ \A q \in Processes : Truth(q)' = Truth(q)
           /\ \A q \in Processes \ {p} : Marked(q)' = Marked(q)
<1> USE DEF Stays
<1>1. \A q \in Processes : Truth(q)' = Truth(q)
  BY DEF Truth, Plus
<1>2. \A q \in Processes \ {p} : Marked(q)' = Marked(q)
  BY DEF Marked, Plus
<1>3. catalog \in [Things -> Int] /\ change[p] \in [Things -> Int]
  BY DEF TypeOK
<1>4. Marked(p)' \in {Marked(p), Truth(p), catalog}
  <2>1. Marked(p)' = Plus(catalog, mark'[p].change)
    BY DEF Marked, Plus
  <2> QED BY <1>3, <2>1, PlusNothing DEF Marked, Truth
<1> QED BY <1>1, <1>2, <1>4 DEF OldViews, FromOld

LEMMA BackViews ==
    ASSUME TypeOK, NEW p \in Processes, GoesBack(p)
    PROVE  /\ OldViews(p)
           /\ Truth(p)' \in {Marked(p), catalog} /\ Marked(p)' = catalog
           /\ \A q \in Processes \ {p} : Truth(q)' = Truth(q) /\ Marked(q)' = Marked(q)
<1> USE DEF GoesBack
<1> PICK back \in {mark[p].change, Nothing} : change' = [change EXCEPT ![p] = back]
  OBVIOUS
<1>1. catalog \in [Things -> Int] /\ change[p] \in [Things -> Int]
  BY DEF TypeOK
<1>2. \A q \in Processes \ {p} : Truth(q)' = Truth(q) /\ Marked(q)' = Marked(q)
  BY DEF TypeOK, Marked, Truth, Plus
<1>3. Marked(p)' = catalog
  <2>1. Marked(p)' = Plus(catalog, Nothing)
    BY NothingType DEF Marked, Plus
  <2> QED BY <1>1, <2>1, PlusNothing
<1>4. Truth(p)' \in {Marked(p), catalog}
  <2>1. Truth(p)' = Plus(catalog, back)
    BY DEF TypeOK, Truth, Plus
  <2> QED BY <1>1, <2>1, PlusNothing DEF Marked
<1> QED BY <1>2, <1>3, <1>4 DEF OldViews, FromOld

LEMMA CommitViews ==
    ASSUME TypeOK, Turns, Grows, NEW p \in Processes, Commits(p)
    PROVE  /\ OldViews(p)
           /\ Truth(p)' = Truth(p) /\ Marked(p)' = Truth(p)
           /\ \A q \in Processes \ {p} :
                 /\ Truth(q)' \in {Truth(q), Truth(p)} /\ Marked(q)' \in {Marked(q), Truth(p)}
                 /\ holder = q => Truth(q)' = Truth(q) /\ Marked(q)' = Marked(q)
                 /\ \A t \in Things : t.kind \in {"label", "column"} =>
                       Truth(q)'[t] >= Truth(q)[t]
<1> USE DEF Commits
<1>1. catalog \in [Things -> Int] /\ change[p] \in [Things -> Int] /\ Truth(p) \in [Things -> Int]
  BY ViewTypes DEF TypeOK
<1>2. Truth(p)' = Truth(p) /\ Marked(p)' = Truth(p)
  <2>1. Truth(p)' = Plus(Truth(p), Nothing) /\ Marked(p)' = Plus(Truth(p), Nothing)
    <3>1. /\ Truth(p)' = Plus(catalog', change'[p])
          /\ Marked(p)' = Plus(catalog', mark'[p].change)
      BY DEF Truth, Marked, Plus
    <3>2. change'[p] = Nothing /\ mark'[p].change = Nothing
      BY NothingType DEF TypeOK
    <3> QED BY <3>1, <3>2
  <2> QED BY <1>1, <2>1, PlusNothing
<1>3. ASSUME NEW q \in Processes \ {p}
      PROVE  /\ Truth(q)' \in {Truth(q), Truth(p)} /\ Marked(q)' \in {Marked(q), Truth(p)}
             /\ holder = q => Truth(q)' = Truth(q) /\ Marked(q)' = Marked(q)
             /\ \A t \in Things : t.kind \in {"label", "column"} => Truth(q)'[t] >= Truth(q)[t]
  <2>1. Truth(q)' = Plus(Truth(p), change[q]) /\ Marked(q)' = Plus(Truth(p), mark[q].change)
    <3>1. change'[q] = change[q] /\ mark'[q] = mark[q]
      BY <1>3 DEF TypeOK
    <3>2. /\ Truth(q)' = Plus(catalog', change'[q])
          /\ Marked(q)' = Plus(catalog', mark'[q].change)
      BY DEF Truth, Marked, Plus
    <3> QED BY <3>1, <3>2
  <2>2. CASE change[p] = Nothing
    <3>1. Truth(p) = catalog
      BY <1>1, <2>2, PlusNothing DEF Truth
    <3>2. Truth(q)' = Truth(q) /\ Marked(q)' = Marked(q)
      BY <2>1, <3>1 DEF Truth, Marked
    <3>3. Truth(q) \in [Things -> Int]
      BY ViewTypes
    <3> HIDE DEF Commits
    <3> QED BY <3>2, <3>3
  <2>3. CASE change[p] # Nothing
    <3>1. holder = p /\ holder # q /\ q \in Processes
      BY <2>3, <1>3 DEF Turns
    <3>2. change[q] = Nothing /\ mark[q].change = Nothing
      BY <3>1, <1>3 DEF Turns
    <3>3. Truth(q)' = Truth(p) /\ Marked(q)' = Truth(p)
      BY <1>1, <2>1, <3>2, PlusNothing
    <3>4. Truth(q) = catalog
      BY <1>1, <3>2, PlusNothing DEF Truth
    <3>5. \A t \in Things : t.kind \in {"label", "column"} => change[p][t] >= 0
      BY DEF Grows, TypeOK
    <3>6. \A t \in Things : Truth(p)[t] = catalog[t] + change[p][t]
      BY ViewTypes
    <3>7. \A t \in Things : t.kind \in {"label", "column"} => Truth(p)[t] >= catalog[t]
      BY <1>1, <3>5, <3>6
    <3> QED BY <3>1, <3>3, <3>4, <3>7
  <2> QED BY <2>2, <2>3
<1> QED BY <1>2, <1>3 DEF OldViews, FromOld

(* Which step does which.                                                  *)
LEMMA EachStep ==
    ASSUME IInv
    PROVE  /\ \A p \in Processes : \A c \in Calls : Ensure(p, c) => Stays(p)
           /\ \A p \in Processes :
                 /\ Declare(p) \/ Plan(p) \/ Wait(p) \/ Lock(p) \/ Replan(p) \/ Settle(p) => Stays(p)
                 /\ \A op \in todo[p] : RunRefused(p, op) => GoesBack(p)
                 /\ SettleRaises(p) \/ Lose(p) => GoesBack(p)
                 /\ Leave(p) => IF p \in outer THEN Stays(p) ELSE Commits(p)
                 /\ \A b \in BOOLEAN : EndOuter(p, b) => IF b THEN Commits(p) ELSE GoesBack(p)
<1> USE DEF IInv, TypeOK, Stays, GoesBack, Commits, local, history
<1>1. ASSUME NEW p \in Processes, NEW c \in Calls, Ensure(p, c) PROVE Stays(p)
  BY <1>1, NothingType DEF Ensure, Goto
<1>2. ASSUME NEW p \in Processes, Declare(p) PROVE Stays(p)
  BY <1>2, NothingType DEF Declare, Goto, Read
<1>3. ASSUME NEW p \in Processes, Plan(p) PROVE Stays(p)
  <2>1. /\ UNCHANGED <<catalog, change>>
        /\ \/ mark' = [mark EXCEPT ![p] = Blank]
           \/ mark' = [mark EXCEPT ![p] = [change |-> change[p], held |-> holder = p]]
    BY <1>3 DEF Plan, Return
  <2>2. [change |-> change[p], held |-> holder = p] \in [change : [Things -> Int], held : BOOLEAN]
    OBVIOUS
  <2>3. CASE mark' = [mark EXCEPT ![p] = Blank]
    BY <2>1, <2>3, NothingType
  <2>4. CASE mark' = [mark EXCEPT ![p] = [change |-> change[p], held |-> holder = p]]
    BY <2>1, <2>2, <2>4
  <2> QED BY <2>1, <2>3, <2>4
<1>4. ASSUME NEW p \in Processes, Wait(p) PROVE Stays(p)
  BY <1>4, NothingType DEF Wait
<1>5. ASSUME NEW p \in Processes, Lock(p) PROVE Stays(p)
  BY <1>5, NothingType DEF Lock, Goto
<1>6. ASSUME NEW p \in Processes, Replan(p) PROVE Stays(p)
  BY <1>6, NothingType DEF Replan, PlansAgain, Goto
<1>7. ASSUME NEW p \in Processes, NEW op \in todo[p], RunRefused(p, op) PROVE GoesBack(p)
  BY <1>7, NothingType DEF RunRefused, Turn, Fail, Return, Goto
<1>8. ASSUME NEW p \in Processes, Settle(p) PROVE Stays(p)
  BY <1>8, NothingType DEF Settle, Goto
<1>9. ASSUME NEW p \in Processes, SettleRaises(p) PROVE GoesBack(p)
  BY <1>9, NothingType DEF SettleRaises, Fail, Return, Goto
<1>10. ASSUME NEW p \in Processes, Leave(p) PROVE IF p \in outer THEN Stays(p) ELSE Commits(p)
  BY <1>10, NothingType DEF Leave, End, Return, Goto
<1>11. ASSUME NEW p \in Processes, Lose(p) PROVE GoesBack(p)
  BY <1>11, NothingType DEF Lose, End, Return, Goto
<1>12. ASSUME NEW p \in Processes, NEW commits \in BOOLEAN, EndOuter(p, commits)
       PROVE IF commits THEN Commits(p) ELSE GoesBack(p)
  <2>1. pc[p] = "idle" /\ UNCHANGED mark
    BY <1>12 DEF EndOuter
  <2>2. mark[p] = Blank
    BY <2>1 DEF Turns, Bare
  <2> QED BY <1>12, <2>1, <2>2 DEF EndOuter, End
<1> HIDE DEF IInv, TypeOK, Stays, GoesBack, Commits, local, history
<1> QED
  BY <1>1, <1>2, <1>3, <1>4, <1>5, <1>6, <1>7, <1>8, <1>9, <1>10, <1>11, <1>12

LEMMA OldSound ==
    ASSUME SoundViews, NEW p \in Processes, OldViews(p)
    PROVE  SoundViews'
<1>1. Sound(catalog)'
  BY DEF SoundViews, OldViews, Sound
<1>2. ASSUME NEW q \in Processes PROVE Sound(Truth(q))' /\ Sound(Marked(q))'
  <2>1. \A f \in {catalog, Truth(p), Truth(q), Marked(q)} : Sound(f)
    BY DEF SoundViews
  <2>2. Sound(Truth(q)') /\ Sound(Marked(q)')
    BY <2>1 DEF OldViews, FromOld
  <2> QED BY <2>2 DEF Sound
<1> QED BY <1>1, <1>2 DEF SoundViews

-----------------------------------------------------------------------------
(* What a statement that is not refused does to what its transaction sees. *)
LEMMA MadeAre ==
    ASSUME IInv, NEW p \in Processes, NEW op \in todo[p], op.do = "create", Turn(p, op)
    PROVE  /\ op = Create(op.thing) /\ op.thing \in call[p].wants /\ op.thing \in Things
           /\ op.thing.kind \in Kinds
           /\ op.thing.kind # "label" => Made(p, op) = {op.thing}
           /\ op.thing.kind = "label" /\ Truth(p)[op.thing] > 0 => Made(p, op) = {}
           /\ op.thing.kind = "label" /\ ~(Truth(p)[op.thing] > 0) =>
                 Made(p, op) = {t \in call[p].wants : /\ t.kind \in {"label", "column"}
                                                      /\ t.label = op.thing.label}
<1>1. op \in Ops /\ pc[p] = "running"
  BY DEF IInv, TypeOK, Turn
<1>2. op.thing \in Things /\ op = Create(op.thing)
  BY <1>1 DEF Ops, Create
<1>3. op.thing \in call[p].wants
  BY DEF IInv, Planned
<1>4. op.do # "drop"
  OBVIOUS
<1> QED BY <1>2, <1>3, <1>4, KindsAre DEF Made, MadeWith

LEMMA RunViews ==
    ASSUME IInv, NEW p \in Processes, NEW op \in todo[p], Run(p, op)
    PROVE  /\ catalog' = catalog
           /\ \A q \in Processes : Marked(q)' = Marked(q)
           /\ \A q \in Processes \ {p} : Truth(q)' = Truth(q)
           /\ op.do = "drop" =>
                 /\ op = Drop(op.thing) /\ op.thing \in Things /\ Truth(p)[op.thing] # 0
                 /\ \A t \in Things : Truth(p)'[t] =
                        IF t = op.thing THEN Truth(p)[t] - 1 ELSE Truth(p)[t]
           /\ op.do = "create" =>
                 /\ op.thing.kind \in {"column", "constraint"} =>
                       \A t \in Things : Same(t, op.thing) => ~(Truth(p)[t] > 0)
                 /\ \A t \in Things : Truth(p)'[t] =
                        IF t \in Made(p, op) THEN Truth(p)[t] + 1 ELSE Truth(p)[t]
<1>1. /\ catalog' = catalog /\ mark' = mark /\ op \in Ops
      /\ \A q \in Processes \ {p} : change'[q] = change[q]
  BY DEF Run, IInv, TypeOK, history
<1>2. /\ \A q \in Processes : Marked(q)' = Marked(q)
      /\ \A q \in Processes \ {p} : Truth(q)' = Truth(q)
  BY <1>1 DEF Marked, Truth, Plus
<1>3. TypeOK
  BY DEF IInv
<1>4. \A t \in Things :
          /\ Truth(p)[t] = catalog[t] + change[p][t]
          /\ Truth(p)'[t] = catalog[t] + change'[p][t]
  BY <1>1, <1>3, ViewTypes DEF Truth, Plus
<1>5. \A t \in Things : catalog[t] \in Int /\ change[p][t] \in Int
  BY <1>3 DEF TypeOK
<1>6. \A t \in Things : change'[p][t] = IF op = Drop(t) THEN change[p][t] - 1
                                       ELSE IF t \in Made(p, op) THEN change[p][t] + 1
                                       ELSE change[p][t]
  BY <1>3 DEF Run, TypeOK
<1>7. ASSUME op.do = "drop"
      PROVE  /\ op = Drop(op.thing) /\ op.thing \in Things /\ Truth(p)[op.thing] # 0
             /\ \A t \in Things : Truth(p)'[t] =
                    IF t = op.thing THEN Truth(p)[t] - 1 ELSE Truth(p)[t]
  <2>1. op = Drop(op.thing) /\ op.thing \in Things /\ Made(p, op) = {}
    BY <1>1, <1>7 DEF Ops, Drop, Made
  <2>2. Truth(p)[op.thing] # 0
    BY <1>7 DEF Run, Refused
  <2>3. \A t \in Things : op = Drop(t) <=> t = op.thing
    BY <2>1, OpsType
  <2>4. ASSUME NEW t \in Things
        PROVE  Truth(p)'[t] = IF t = op.thing THEN Truth(p)[t] - 1 ELSE Truth(p)[t]
    <3>1. CASE t = op.thing
      <4>1. change'[p][t] = change[p][t] - 1
        BY <1>6, <2>3, <3>1
      <4> QED BY <1>4, <1>5, <3>1, <4>1
    <3>2. CASE t # op.thing
      <4>1. change'[p][t] = change[p][t]
        BY <1>6, <2>1, <2>3, <3>2
      <4> QED BY <1>4, <3>2, <4>1
    <3> QED BY <3>1, <3>2
  <2> QED BY <2>1, <2>2, <2>4
<1>8. ASSUME op.do = "create"
      PROVE  /\ op.thing.kind \in {"column", "constraint"} =>
                   \A t \in Things : Same(t, op.thing) => ~(Truth(p)[t] > 0)
             /\ \A t \in Things : Truth(p)'[t] =
                    IF t \in Made(p, op) THEN Truth(p)[t] + 1 ELSE Truth(p)[t]
  <2>1. \A t \in Things : op # Drop(t)
    BY <1>8, OpsType
  <2>2. ASSUME NEW t \in Things
        PROVE  Truth(p)'[t] = IF t \in Made(p, op) THEN Truth(p)[t] + 1 ELSE Truth(p)[t]
    <3>1. CASE t \in Made(p, op)
      <4>1. change'[p][t] = change[p][t] + 1
        BY <1>6, <2>1, <3>1
      <4> QED BY <1>4, <1>5, <3>1, <4>1
    <3>2. CASE t \notin Made(p, op)
      <4>1. change'[p][t] = change[p][t]
        BY <1>6, <2>1, <3>2
      <4> QED BY <1>4, <3>2, <4>1
    <3> QED BY <3>1, <3>2
  <2> QED BY <1>8, <2>2 DEF Run, Refused
<1> QED BY <1>1, <1>2, <1>7, <1>8

LEMMA WriteViews ==
    ASSUME IInv, NEW t \in Things, WriteMakes(t)
    PROVE  /\ t.kind = "label" /\ catalog[t] = 0 /\ catalog' = [catalog EXCEPT ![t] = 1]
           /\ \A q \in Processes : \A u \in Things :
                 /\ Truth(q)'[u] = IF u = t THEN 1 ELSE Truth(q)[u]
                 /\ Marked(q)'[u] = IF u = t THEN 1 ELSE Marked(q)[u]
                 /\ Truth(q)[t] = 0 /\ Marked(q)[t] = 0
<1>1. /\ t.kind = "label" /\ catalog[t] = 0 /\ catalog' = [catalog EXCEPT ![t] = 1]
      /\ change' = change /\ mark' = mark /\ \A q \in Processes : change[q][t] = 0
  BY DEF WriteMakes, local
<1>2. catalog \in [Things -> Int]
  BY DEF IInv, TypeOK
<1>3. ASSUME NEW q \in Processes, NEW u \in Things
      PROVE  /\ Truth(q)'[u] = IF u = t THEN 1 ELSE Truth(q)[u]
             /\ Marked(q)'[u] = IF u = t THEN 1 ELSE Marked(q)[u]
             /\ Truth(q)[t] = 0 /\ Marked(q)[t] = 0
  <2>1. change[q][u] \in Int /\ mark[q].change[u] \in Int /\ mark[q].change[t] \in Int
    BY DEF IInv, TypeOK
  <2>2. change[q][t] = 0 /\ mark[q].change[t] = 0
    BY <1>1, <2>1 DEF IInv, Grows
  <2>3. /\ Truth(q)[u] = catalog[u] + change[q][u] /\ Truth(q)'[u] = catalog'[u] + change[q][u]
        /\ Marked(q)[u] = catalog[u] + mark[q].change[u]
        /\ Marked(q)'[u] = catalog'[u] + mark[q].change[u]
        /\ Truth(q)[t] = catalog[t] + change[q][t] /\ Marked(q)[t] = catalog[t] + mark[q].change[t]
    BY <1>1 DEF Truth, Marked, Plus
  <2> QED BY <1>1, <1>2, <2>1, <2>2, <2>3
<1> QED BY <1>1, <1>3

LEMMA SameIs == /\ \A t, u : Same(t, u) => Same(u, t) /\ t.kind = u.kind /\ t.label = u.label
                /\ \A t, u, v : Same(t, u) /\ Same(u, v) => Same(t, v)
                /\ \A t : Same(t, t)
BY DEF Same

LEMMA StepSound == IInv /\ Next => SoundViews'
<1> SUFFICES ASSUME IInv, Next PROVE SoundViews'
  OBVIOUS
<1>1. ASSUME NEW p \in Processes, Stays(p) \/ GoesBack(p) \/ Commits(p) PROVE SoundViews'
  BY <1>1, StillViews, BackViews, CommitViews, OldSound DEF IInv
<1>2. ASSUME NEW p \in Processes, NEW op \in todo[p], Run(p, op) PROVE SoundViews'
  <2>1. /\ \A q \in Processes : Sound(Marked(q)')
        /\ \A q \in Processes \ {p} : Sound(Truth(q)')
        /\ Sound(catalog')
    BY <1>2, RunViews DEF IInv, SoundViews
  <2>2. Sound(Truth(p)) /\ \A t \in Things : Truth(p)[t] \in Int
    BY ViewTypes DEF IInv, SoundViews
  <2>3. op.do \in {"create", "drop"} /\ Turn(p, op)
    BY <1>2 DEF IInv, TypeOK, Ops, Run
  <2>4. ASSUME op.do = "drop" PROVE Sound(Truth(p)')
    <3>1. op.thing \notin Spared
      BY <2>4 DEF IInv, Planned
    <3>2. \A t \in Things : Truth(p)'[t] = IF t = op.thing THEN Truth(p)[t] - 1 ELSE Truth(p)[t]
      BY <1>2, <2>4, RunViews
    <3>3. op.thing \in Things /\ Truth(p)[op.thing] # 0
      BY <1>2, <2>4, RunViews
    <3>4. Spared \subseteq Things
      BY DEF Spared, Things
    <3>5. \A t \in Things : Truth(p)'[t] >= 0 /\ Truth(p)'[t] <= Truth(p)[t] /\ Truth(p)'[t] \in Int
      BY <2>2, <3>2, <3>3 DEF Sound
    <3>6. \A t \in Spared : Truth(p)'[t] > 0
      BY <2>2, <3>1, <3>2, <3>4 DEF Sound
    <3>7. ASSUME NEW t \in Things, t.kind = "constraint"
          PROVE  /\ Truth(p)'[t] <= 1
                 /\ \A u \in Things : Same(t, u) /\ t # u => Truth(p)'[t] = 0 \/ Truth(p)'[u] = 0
      BY <2>2, <3>5, <3>7 DEF Sound
    <3> QED BY <3>5, <3>6, <3>7 DEF Sound
  <2>5. ASSUME op.do = "create" PROVE Sound(Truth(p)')
    <3>1. \A t \in Things : Truth(p)'[t] =
              IF t \in Made(p, op) THEN Truth(p)[t] + 1 ELSE Truth(p)[t]
      BY <1>2, <2>5, RunViews
    <3>2. Spared \subseteq Things
      BY DEF Spared, Things
    <3>3. \A t \in Things : Truth(p)'[t] >= Truth(p)[t] /\ Truth(p)'[t] \in Int
      BY <2>2, <3>1
    <3>4. \A t \in Made(p, op) : t.kind = "constraint" => t = op.thing
      BY <2>3, <2>5, MadeAre
    <3>5. ASSUME NEW t \in Things, t.kind = "constraint"
          PROVE  /\ Truth(p)'[t] <= 1
                 /\ \A u \in Things : Same(t, u) /\ t # u => Truth(p)'[t] = 0 \/ Truth(p)'[u] = 0
      <4>1. CASE \A u \in Things : Same(t, u) => u \notin Made(p, op)
        <5>1. \A u \in Things : Same(t, u) => Truth(p)'[u] = Truth(p)[u]
          BY <3>1, <4>1
        <5> QED BY <2>2, <3>5, <5>1, SameIs DEF Sound
      <4>2. CASE \E u \in Things : Same(t, u) /\ u \in Made(p, op)
        <5>1. op.thing.kind = "constraint" /\ Same(t, op.thing) /\ op.thing \in Made(p, op)
          BY <3>4, <3>5, <4>2, SameIs
        <5>2. \A u \in Things : Same(u, op.thing) => ~(Truth(p)[u] > 0)
          BY <1>2, <2>5, <5>1, RunViews
        <5>3. \A u \in Things : Same(u, op.thing) => Truth(p)[u] = 0
          BY <2>2, <5>2 DEF Sound
        <5>4. \A u \in Things : Same(t, u) => Same(u, op.thing) /\ u.kind = "constraint"
          BY <3>5, <5>1, SameIs
        <5>5. \A u \in Things : Same(t, u) =>
                 Truth(p)'[u] = IF u = op.thing THEN 1 ELSE 0
          BY <3>1, <3>4, <5>1, <5>3, <5>4
        <5> QED BY <5>5, SameIs
      <4> QED BY <4>1, <4>2
    <3>6. (\A t \in Things : Truth(p)'[t] >= 0) /\ \A t \in Spared : Truth(p)'[t] > 0
      BY <2>2, <3>2, <3>3 DEF Sound
    <3> QED BY <3>5, <3>6 DEF Sound
  <2>6. Sound(Truth(p)')
    BY <2>3, <2>4, <2>5
  <2> QED BY <2>1, <2>6 DEF SoundViews, Sound
<1>3. ASSUME NEW t \in Things, WriteMakes(t) PROVE SoundViews'
  <2>1. /\ t.kind = "label" /\ catalog' = [catalog EXCEPT ![t] = 1]
        /\ \A q \in Processes : \A u \in Things :
              /\ Truth(q)'[u] = IF u = t THEN 1 ELSE Truth(q)[u]
              /\ Marked(q)'[u] = IF u = t THEN 1 ELSE Marked(q)[u]
    BY <1>3, WriteViews
  <2>2. catalog \in [Things -> Int] /\ Spared \subseteq Things
    BY DEF IInv, TypeOK, Spared, Things
  <2>3. Sound(catalog')
    BY <2>1, <2>2, SameIs DEF IInv, SoundViews, Sound
  <2>4. ASSUME NEW q \in Processes PROVE Sound(Truth(q)')
    <3>1. Sound(Truth(q)) /\ Truth(q) \in [Things -> Int]
      BY ViewTypes DEF IInv, SoundViews
    <3> QED BY <2>1, <2>2, <3>1, SameIs DEF Sound
  <2>5. ASSUME NEW q \in Processes PROVE Sound(Marked(q)')
    <3>1. Sound(Marked(q)) /\ Marked(q) \in [Things -> Int]
      BY ViewTypes DEF IInv, SoundViews
    <3> QED BY <2>1, <2>2, <3>1, SameIs DEF Sound
  <2> QED BY <2>3, <2>4, <2>5 DEF SoundViews, Sound
<1> QED BY <1>1, <1>2, <1>3, EachStep DEF Next
-----------------------------------------------------------------------------
(* What the catalog prints otherwise than it was asked for.                *)
LEMMA MatchedAre ==
    ASSUME NEW c, NEW l, NEW extra, Reconcile(c, l, extra) = {}
    PROVE  c.wants \subseteq l
BY DEF Reconcile

LEMMA NotOutstanding ==
    ASSUME TypeOK, NEW p \in Processes, ~Outstanding(p), call[p].on # "label"
    PROVE  call[p].wants \subseteq There(Seen(p)) \ Altered
<1>1. PICK l \in Listings(call[p], Seen(p)) : Reconcile(call[p], l, FALSE) = {}
  BY DEF Outstanding
<1> QED BY <1>1, MatchedAre, ListingType

LEMMA AlteredAre == \A t \in Altered : t.kind = "index"
<1> QED BY SchemaAssumption DEF SchemaAssumption

LEMMA StepOtherwise == IInv /\ Next => OtherwiseRead'
<1> SUFFICES ASSUME IInv, Next PROVE OtherwiseRead'
  OBVIOUS
<1> USE AlteredAre DEF IInv, TypeOK, OtherwiseRead, local, history
<1>1. ASSUME NEW p \in Processes, NEW c \in Calls, Ensure(p, c) PROVE OtherwiseRead'
  BY <1>1, NothingType DEF Ensure, Goto
<1>2. ASSUME NEW p \in Processes, Declare(p) PROVE OtherwiseRead'
  BY <1>2, NothingType DEF Declare, Goto, Read
<1>3. ASSUME NEW p \in Processes, Plan(p) PROVE OtherwiseRead'
  <2>1. /\ UNCHANGED <<catalog, change>> /\ pc[p] = "planning"
        /\ \A t \in Altered \cap Things : change[p][t] = 0
    BY <1>3 DEF Plan
  <2>2. CASE Return(p)
    BY <2>1, <2>2, NothingType DEF Return, Goto
  <2>3. CASE /\ mark' = [mark EXCEPT ![p] = [change |-> change[p], held |-> holder = p]]
             /\ Goto(p, "waiting") /\ call' = call
    BY <2>1, <2>3 DEF Goto
  <2> QED BY <1>3, <2>2, <2>3 DEF Plan
<1>4. ASSUME NEW p \in Processes, Wait(p) PROVE OtherwiseRead'
  BY <1>4, NothingType DEF Wait
<1>5. ASSUME NEW p \in Processes, Lock(p) PROVE OtherwiseRead'
  BY <1>5, NothingType DEF Lock, Goto
<1>6. ASSUME NEW p \in Processes, Replan(p) PROVE OtherwiseRead'
  BY <1>6, NothingType DEF Replan, PlansAgain, Goto
<1>7. ASSUME NEW p \in Processes, NEW op \in todo[p], Run(p, op) PROVE OtherwiseRead'
  <2>1. /\ catalog' = catalog /\ mark' = mark /\ call' = call
        /\ pc[p] = "running" /\ pc'[p] \in {"running", "settling"}
        /\ \A q \in Processes \ {p} : pc'[q] = pc[q] /\ change'[q] = change[q]
    BY <1>7 DEF Run, Turn, Goto
  <2>2. ASSUME NEW t \in Altered \cap Things, change'[p][t] # change[p][t]
        PROVE t \in call[p].wants
    <3>1. op = Drop(t) \/ t \in Made(p, op)
      BY <1>7, <2>2 DEF Run
    <3>2. t \in Things /\ t \in Altered /\ t.kind = "index"
      BY <2>2, AlteredAre
    <3>3. op.do = "drop" => op.thing # t
      BY <3>2 DEF Planned
    <3>4. op # Drop(t)
      BY <3>2, <3>3, OpsType
    <3>5. op.do # "drop" /\ op.thing \in call[p].wants
      BY <3>1, <3>4 DEF Made, Planned
    <3> QED BY <3>1, <3>2, <3>4, <3>5 DEF Made, MadeWith
  <2> QED BY <1>7, <2>1, <2>2
<1>8. ASSUME NEW p \in Processes, NEW op \in todo[p], RunRefused(p, op) PROVE OtherwiseRead'
  BY <1>8, NothingType DEF RunRefused, Turn, Fail, Return, Goto
<1>9. ASSUME NEW p \in Processes, Settle(p) PROVE OtherwiseRead'
  <2>1. call[p] \in Calls /\ ~Outstanding(p) /\ change' = change /\ mark' = mark /\ call' = call
    BY <1>9 DEF Settle, Planned
  <2>2. call[p].wants \cap Altered = {}
    <3>1. CASE call[p].on = "label"
      BY <2>1, <3>1, WantsType, AlteredAre
    <3>2. CASE call[p].on # "label"
      BY <2>1, <3>2, NotOutstanding
    <3> QED BY <3>1, <3>2
  <2> QED BY <1>9, <2>1, <2>2 DEF Settle, Goto
<1>10. ASSUME NEW p \in Processes, SettleRaises(p) PROVE OtherwiseRead'
  BY <1>10, NothingType DEF SettleRaises, Fail, Return, Goto
<1>11. ASSUME NEW p \in Processes, Leave(p) PROVE OtherwiseRead'
  <2>1. /\ pc[p] = "leaving" /\ Return(p)
        /\ change' \in {change, [change EXCEPT ![p] = Nothing]} /\ catalog' \in {catalog, Truth(p)}
    BY <1>11 DEF Leave, End
  <2>2. \A t \in Altered \cap Things : catalog[t] + change[p][t] = catalog[t]
    <3>1. \A t \in Altered \cap Things : change[p][t] = 0
      BY <2>1
    <3>2. \A t \in Altered \cap Things : catalog[t] \in Int
      OBVIOUS
    <3> HIDE DEF IInv, TypeOK, OtherwiseRead
    <3> QED BY <3>1, <3>2
  <2>3. \A t \in Altered \cap Things : catalog'[t] = catalog[t]
    BY <2>1, <2>2 DEF Truth, Plus
  <2>4. \A t \in Altered \cap Things : \A q \in Processes :
           change'[q][t] = 0 \/ (q # p /\ change'[q] = change[q])
    BY <2>1, NothingType
  <2> QED BY <2>1, <2>3, <2>4, NothingType DEF Return, Goto
<1>12. ASSUME NEW p \in Processes, Lose(p) PROVE OtherwiseRead'
  BY <1>12, NothingType DEF Lose, End, Return, Goto
<1>13. ASSUME NEW p \in Processes, NEW commits \in BOOLEAN, EndOuter(p, commits)
       PROVE OtherwiseRead'
  <2>1. /\ pc[p] = "idle" /\ mark' = mark /\ pc' = pc /\ call' = call
        /\ change' = [change EXCEPT ![p] = Nothing] /\ catalog' \in {catalog, Truth(p)}
    BY <1>13 DEF EndOuter, End
  <2>2. \A t \in Altered \cap Things : catalog[t] + change[p][t] = catalog[t]
    <3>1. \A t \in Altered \cap Things : change[p][t] = 0
      BY <2>1
    <3>2. \A t \in Altered \cap Things : catalog[t] \in Int
      OBVIOUS
    <3> HIDE DEF IInv, TypeOK, OtherwiseRead
    <3> QED BY <3>1, <3>2
  <2>3. \A t \in Altered \cap Things : catalog'[t] = catalog[t]
    BY <2>1, <2>2 DEF Truth, Plus
  <2>4. \A t \in Altered \cap Things : \A q \in Processes :
           change'[q][t] = 0 \/ (q # p /\ change'[q] = change[q])
    BY <2>1, NothingType
  <2> QED BY <2>1, <2>3, <2>4
<1>14. ASSUME NEW t \in Things, WriteMakes(t) PROVE OtherwiseRead'
  BY <1>14, NothingType DEF WriteMakes
<1> HIDE DEF IInv, TypeOK, OtherwiseRead, local, history
<1> QED
  BY <1>1, <1>2, <1>3, <1>4, <1>5, <1>6, <1>7, <1>8, <1>9, <1>10, <1>11, <1>12, <1>13,
    <1>14 DEF Next

-----------------------------------------------------------------------------
(* A plan made under the lock by one that reads what is there.             *)
LEMMA SeenIsTruth ==
    ASSUME Planned, NEW p \in Processes \ frozen
    PROVE  Seen(p) = Truth(p)
BY DEF Planned, Seen, Base, Truth

PlanFits(p, ops) ==
    /\ \A op \in ops : op.do = "drop" => Truth(p)[op.thing] > 0
    /\ \A op \in ops :
          op.do = "create" /\ op.thing.kind = "constraint" =>
              \A u \in Things : Same(u, op.thing) /\ Truth(p)[u] > 0 => Drop(u) \in ops
    /\ \A op \in ops :
          op.do = "create" /\ op.thing.kind = "label" => ~(Truth(p)[op.thing] > 0)
    /\ call[p].on = "label" =>
          \A t \in call[p].wants :
              \/ Truth(p)[t] > 0 \/ Create(t) \in ops
              \/ /\ t.kind = "column"
                 /\ \E u \in Things : u.kind = "label" /\ u.label = t.label /\ Create(u) \in ops
    /\ ops = {} /\ call[p].on # "label" => \A t \in call[p].wants : Truth(p)[t] > 0

LEMMA ListedAlone ==
    ASSUME NEW c, NEW seen, NEW l \in Listings(c, seen),
           NEW t \in There(seen) \ Altered, t.kind = c.on,
           \A u \in There(seen) \ Altered : Same(t, u) => u = t
    PROVE  t \in l
<1>1. t \in {u \in There(seen) \ Altered : u.kind = c.on}
  OBVIOUS
<1>2. t \notin {u \in {v \in There(seen) \ Altered : v.kind = c.on} :
                  \E v \in {w \in There(seen) \ Altered : w.kind = c.on} \ {u} : Same(u, v)}
  OBVIOUS
<1> QED BY <1>1, <1>2 DEF Listings

LEMMA FreshReplan ==
    ASSUME IInv, NEW p \in Processes \ frozen, pc[p] = "replanning", NEW ops \in Plans(p)
    PROVE  PlanFits(p, ops)
<1> DEFINE c == call[p]
<1>1. /\ c \in Calls /\ c.wants \subseteq Things /\ c.on \in {"label", "index", "constraint"}
      /\ \A t \in c.wants : t.kind = c.on \/ (c.on = "label" /\ t.kind = "column")
  BY WantsType DEF IInv, Planned
<1>2. Seen(p) = Truth(p) /\ There(Seen(p)) = {t \in Things : Truth(p)[t] > 0}
  BY SeenIsTruth DEF IInv, There
<1>3. declared[p] \subseteq {t \in Things : Truth(p)[t] > 0}
  BY DEF IInv, FreshPlans, FreshPlan, There
<1>4. CASE c.on = "label"
  <2>1. ops = ReconcileLabels(c, Seen(p), declared[p])
    BY <1>4 DEF Plans
  <2>2. ASSUME NEW op \in ops
        PROVE  /\ \E t \in c.wants : op = Create(t) /\ t.kind \in {"label", "column"}
               /\ op.thing.kind = "label" => ~(Truth(p)[op.thing] > 0)
    <3>1. PICK t \in c.wants : /\ op = Create(t)
                               /\ t.kind = "label" => t \notin There(Seen(p))
      BY <1>1, <2>1 DEF ReconcileLabels
    <3>2. op.thing = t
      BY <1>1, <3>1, OpsType
    <3> QED BY <1>1, <1>2, <1>4, <3>1, <3>2
  <2>3. ASSUME NEW t \in c.wants, ~(Truth(p)[t] > 0), Create(t) \notin ops
        PROVE  /\ t.kind = "column"
               /\ \E u \in Things : u.kind = "label" /\ u.label = t.label /\ Create(u) \in ops
    <3>1. t \notin There(Seen(p)) /\ t \notin declared[p]
      BY <1>2, <1>3, <2>3
    <3>2. t.kind = "column"
      BY <1>1, <1>4, <2>1, <2>3, <3>1 DEF ReconcileLabels
    <3>3. PICK u \in c.wants : /\ u.kind = "label" /\ u \notin There(Seen(p)) /\ u.label = t.label
      BY <2>1, <2>3, <3>1, <3>2 DEF ReconcileLabels
    <3>4. Create(u) \in ops
      BY <2>1, <3>3 DEF ReconcileLabels
    <3> QED BY <1>1, <3>2, <3>3, <3>4
  <2>4. \A op \in ops : op.do = "create" /\ op.thing.kind \in {"label", "column"}
    BY <1>1, <2>2, OpsType
  <2> QED BY <1>4, <2>2, <2>3, <2>4 DEF PlanFits
<1>5. CASE c.on # "label"
  <2>1. PICK l \in Listings(c, Seen(p)) : ops = Reconcile(c, l, c.dropExtra)
    BY <1>5 DEF Plans
  <2>2. l \subseteq {t \in There(Seen(p)) \ Altered : t.kind = c.on}
    BY ListingType
  <2>3. ASSUME NEW op \in ops
        PROVE  \/ \E w \in c.wants : op = Create(w) /\ w \notin l
               \/ \E u \in l : op = Drop(u)
    BY <2>1, SameIs DEF Reconcile
  <2>4. ASSUME NEW op \in ops
        PROVE  \/ /\ op.do = "create" /\ op.thing \in c.wants /\ op.thing \notin l
                  /\ op.thing.kind = c.on
               \/ op.do = "drop" /\ Truth(p)[op.thing] > 0
    BY <1>1, <1>2, <1>5, <2>2, <2>3, OpsType
  <2>5. ASSUME NEW op \in ops, op.do = "create", op.thing.kind = "constraint",
               NEW u \in Things, Same(u, op.thing), Truth(p)[u] > 0
        PROVE  Drop(u) \in ops
    <3>1. /\ op.thing \in c.wants /\ op.thing \notin l /\ c.on = "constraint"
          /\ u.kind = "constraint"
      BY <2>4, <2>5, SameIs
    <3>2. u \in There(Seen(p)) \ Altered
      BY <1>2, <2>5, <3>1, AlteredAre
    <3>3. ASSUME NEW v \in There(Seen(p)) \ Altered, Same(u, v) PROVE v = u
      <4>1. v \in Things /\ Truth(p)[v] > 0
        BY <1>2
      <4>2. Truth(p)[u] # 0 /\ Truth(p)[v] # 0
        BY <2>5, <4>1
      <4> QED BY <3>1, <3>3, <4>1, <4>2 DEF IInv, SoundViews, Sound
    <3>4. u \in l
      BY <3>1, <3>2, <3>3, ListedAlone
    <3>5. u # op.thing
      BY <3>1, <3>4
    <3> QED BY <2>1, <2>5, <3>1, <3>4, <3>5 DEF Reconcile
  <2>6. ASSUME ops = {} PROVE \A t \in c.wants : Truth(p)[t] > 0
    BY <1>2, <2>1, <2>2, <2>6, MatchedAre
  <2> QED BY <1>1, <1>5, <2>4, <2>5, <2>6 DEF PlanFits
<1> QED BY <1>4, <1>5
-----------------------------------------------------------------------------
(* What a step of one process leaves to another.                           *)
Untouched(q) ==
    /\ pc'[q] = pc[q] /\ call'[q] = call[q] /\ declared'[q] = declared[q]
    /\ todo'[q] = todo[q] /\ mark'[q] = mark[q] /\ change'[q] = change[q]

StepOf(p) ==
    \/ \E c \in Calls : Ensure(p, c)
    \/ Declare(p) \/ Plan(p) \/ Wait(p) \/ Lock(p) \/ Replan(p)
    \/ \E op \in todo[p] : Run(p, op) \/ RunRefused(p, op)
    \/ Settle(p) \/ SettleRaises(p) \/ Leave(p) \/ Lose(p)
    \/ \E b \in BOOLEAN : EndOuter(p, b)

LEMMA Elsewhere ==
    ASSUME TypeOK, NEW p \in Processes, StepOf(p)
    PROVE  /\ frozen' = frozen /\ overtaken' = overtaken
           /\ \A q \in Processes \ {p} : Untouched(q)
<1> DEFINE Goal == /\ frozen' = frozen /\ overtaken' = overtaken
                   /\ \A q \in Processes \ {p} : Untouched(q)
<1> USE DEF TypeOK, Untouched, local, history
<1>1. ASSUME NEW c \in Calls, Ensure(p, c) PROVE Goal
  BY <1>1 DEF Ensure, Goto
<1>2. ASSUME Declare(p) PROVE Goal
  BY <1>2 DEF Declare, Goto, Read
<1>3. ASSUME Plan(p) PROVE Goal
  <2>1. CASE Return(p)
    BY <1>3, <2>1 DEF Plan, Return, Goto
  <2>2. ASSUME NEW ops, todo' = [todo EXCEPT ![p] = ops],
               mark' = [mark EXCEPT ![p] = [change |-> change[p], held |-> holder = p]],
               Goto(p, "waiting"), UNCHANGED <<call, declared>>
        PROVE  Goal
    BY <1>3, <2>2 DEF Plan, Goto
  <2> QED BY <1>3, <2>1, <2>2 DEF Plan
<1>4. ASSUME Wait(p) PROVE Goal
  BY <1>4 DEF Wait
<1>5. ASSUME Lock(p) PROVE Goal
  BY <1>5 DEF Lock, Goto
<1>6. ASSUME Replan(p) PROVE Goal
  BY <1>6 DEF Replan, PlansAgain, Goto
<1>7. ASSUME NEW op \in todo[p], Run(p, op) PROVE Goal
  BY <1>7 DEF Run, Turn, Goto
<1>8. ASSUME NEW op \in todo[p], RunRefused(p, op) PROVE Goal
  BY <1>8 DEF RunRefused, Turn, Fail, Return, Goto
<1>9. ASSUME Settle(p) PROVE Goal
  BY <1>9 DEF Settle, Goto
<1>10. ASSUME SettleRaises(p) PROVE Goal
  BY <1>10 DEF SettleRaises, Fail, Return, Goto
<1>11. ASSUME Leave(p) PROVE Goal
  BY <1>11 DEF Leave, End, Return, Goto
<1>12. ASSUME Lose(p) PROVE Goal
  BY <1>12 DEF Lose, End, Return, Goto
<1>13. ASSUME NEW commits \in BOOLEAN, EndOuter(p, commits) PROVE Goal
  BY <1>13 DEF EndOuter, End
<1> HIDE DEF Goal, TypeOK, Untouched
<1>14. Goal
  BY <1>1, <1>2, <1>3, <1>4, <1>5, <1>6, <1>7, <1>8, <1>9, <1>10, <1>11, <1>12, <1>13
    DEF StepOf
<1> QED BY <1>14 DEF Goal

LEMMA Others ==
    ASSUME IInv, NEW p \in Processes, StepOf(p), NEW q \in Processes \ {p}
    PROVE  /\ Truth(q)' = Truth(q) \/ pc[q] \notin Active
           /\ \A t \in Things : t.kind \in {"label", "column"} => Truth(q)'[t] >= Truth(q)[t]
<1>1. ASSUME Truth(q)' = Truth(q)
      PROVE  \A t \in Things : t.kind \in {"label", "column"} => Truth(q)'[t] >= Truth(q)[t]
  BY <1>1, ViewTypes DEF IInv
<1>2. ASSUME Stays(p) \/ GoesBack(p) PROVE Truth(q)' = Truth(q)
  BY <1>2, StillViews, BackViews DEF IInv
<1>3. ASSUME Commits(p)
      PROVE  /\ pc[q] \in Active => Truth(q)' = Truth(q)
             /\ \A t \in Things : t.kind \in {"label", "column"} => Truth(q)'[t] >= Truth(q)[t]
  <2>1. pc[q] \in Active => holder = q
    BY DEF IInv, Turns
  <2> QED BY <1>3, <2>1, CommitViews DEF IInv
<1>4. ASSUME NEW op \in todo[p], Run(p, op) PROVE Truth(q)' = Truth(q)
  BY <1>4, RunViews
<1>5. \/ Stays(p) \/ GoesBack(p) \/ Commits(p)
      \/ \E op \in todo[p] : Run(p, op)
  BY EachStep DEF StepOf
<1> QED BY <1>1, <1>2, <1>3, <1>4, <1>5

-----------------------------------------------------------------------------
(* Whoever reads what is there makes no statement that is refused, and     *)
(* gets what it asked for.                                                 *)
LEMMA FreshKept ==
    ASSUME IInv, NEW q \in Processes \ frozen, Untouched(q), overtaken \subseteq overtaken',
           Truth(q)' = Truth(q)
    PROVE  FreshPlan(q)' /\ OnItsWay(q)'
<1>1. FreshPlan(q) /\ OnItsWay(q)
  BY DEF IInv, FreshPlans
<1>2. FreshPlan(q)'
  BY <1>1 DEF FreshPlan, Untouched, There
<1>3. OnItsWay(q)'
  BY <1>1 DEF OnItsWay, Untouched
<1> QED BY <1>2, <1>3

LEMMA OthersFresh ==
    ASSUME IInv, NEW p \in Processes, StepOf(p), NEW q \in Processes \ {p}, q \notin frozen
    PROVE  FreshPlan(q)' /\ OnItsWay(q)'
<1>1. Untouched(q) /\ overtaken' = overtaken
  BY Elsewhere DEF IInv
<1>2. CASE Truth(q)' = Truth(q)
  BY <1>1, <1>2, FreshKept
<1>3. CASE pc[q] \notin Active
  <2>1. declared[q] \subseteq There(Truth(q)) /\ \A t \in declared[q] : t.kind = "column"
    BY DEF IInv, FreshPlans, FreshPlan, Planned
  <2>2. \A t \in declared[q] : Truth(q)'[t] > 0
    <3>1. \A t \in Things : t.kind = "column" => Truth(q)'[t] >= Truth(q)[t]
      BY Others
    <3>2. \A t \in Things : Truth(q)[t] \in Int /\ Truth(q)'[t] \in Int
      <4>1. TypeOK /\ TypeOK'
        BY StepTypes DEF StepOf, Next, IInv
      <4> QED BY <4>1, ViewTypes DEF Truth, Plus, TypeOK
    <3> QED BY <2>1, <3>1, <3>2 DEF There
  <2>3. declared'[q] \subseteq There(Truth(q)')
    BY <1>1, <2>1, <2>2 DEF Untouched, There
  <2>4. pc'[q] \notin Active
    BY <1>1, <1>3 DEF Untouched
  <2> QED BY <2>3, <2>4 DEF FreshPlan, OnItsWay, Active, There
<1> QED BY <1>2, <1>3, Others

LEMMA Returned ==
    ASSUME TypeOK, NEW p \in Processes, Return(p)
    PROVE  FreshPlan(p)' /\ OnItsWay(p)'
BY DEF TypeOK, Return, Goto, FreshPlan, OnItsWay, There

LEMMA RunFresh ==
    ASSUME IInv, NEW p \in Processes \ frozen, NEW op \in todo[p], Run(p, op)
    PROVE  FreshPlan(p)' /\ OnItsWay(p)'
<1>1. /\ Turn(p, op) /\ op \in Ops /\ pc[p] = "running" /\ call[p] \in Calls
      /\ todo'[p] = todo[p] \ {op} /\ declared'[p] = declared[p] /\ call'[p] = call[p]
      /\ overtaken' = overtaken /\ pc'[p] \in {"running", "settling"}
  BY DEF IInv, TypeOK, Planned, Run, Turn, Goto, history
<1>2. FreshPlan(p) /\ OnItsWay(p) /\ \A o \in todo[p] : o \in Ops
  BY DEF IInv, TypeOK, FreshPlans
<1>3. /\ \A t \in Things : Truth(p)[t] \in Int /\ Truth(p)[t] >= 0
      /\ \A t \in Things : t.kind = "constraint" => Truth(p)[t] <= 1
  BY ViewTypes DEF IInv, SoundViews, Sound
<1>4. ASSUME NEW o \in todo[p]
      PROVE  \/ o = Create(o.thing) /\ o.do = "create" /\ o.thing \in call[p].wants
             \/ /\ o = Drop(o.thing) /\ o.do = "drop"
                /\ call[p].on # "label" /\ o.thing.kind \in {"index", "constraint"}
  <2>1. call[p].on \in {"label", "index", "constraint"}
    BY <1>1, WantsType
  <2>2. o \in Ops /\ o.thing \in Things /\ (o = Create(o.thing) \/ o = Drop(o.thing))
    BY <1>2 DEF Ops, Create, Drop
  <2> QED BY <2>1, <2>2, OpsType DEF IInv, Planned
<1>5. call[p].wants \subseteq Things /\ \A o \in todo[p] : o.thing \in Things
  BY <1>1, <1>2, WantsType DEF Ops
<1>6. ASSUME op.do = "drop"
      PROVE  /\ op.thing \in Things /\ op.thing.kind \in {"index", "constraint"}
             /\ op = Drop(op.thing) /\ call[p].on # "label"
             /\ \A t \in Things : Truth(p)'[t] =
                    IF t = op.thing THEN Truth(p)[t] - 1 ELSE Truth(p)[t]
  BY <1>4, <1>6, RunViews
<1>7. ASSUME op.do = "create"
      PROVE  \A t \in Things : Truth(p)'[t] =
                 IF t \in Made(p, op) THEN Truth(p)[t] + 1 ELSE Truth(p)[t]
  BY <1>7, RunViews
<1>8. op.do \in {"create", "drop"}
  BY <1>4
<1>9. \A t \in Things : t.kind \in {"label", "column"} => Truth(p)'[t] >= Truth(p)[t]
  BY <1>3, <1>6, <1>7, <1>8
<1>10. declared'[p] \subseteq There(Truth(p)')
  <2>1. \A t \in declared[p] : t.kind = "column" /\ t \in Things /\ Truth(p)[t] > 0
    BY <1>2 DEF FreshPlan, There, IInv, Planned
  <2>2. \A t \in declared[p] : Truth(p)'[t] > 0
    BY <1>3, <1>6, <1>7, <1>8, <2>1
  <2> QED BY <1>1, <2>1, <2>2 DEF There
<1>11. ASSUME NEW o \in todo'[p], o.do = "drop" PROVE Truth(p)'[o.thing] > 0
  <2>1. o \in todo[p] /\ o # op /\ o = Drop(o.thing) /\ Truth(p)[o.thing] > 0 /\ o.thing \in Things
    BY <1>1, <1>2, <1>4, <1>5, <1>11 DEF FreshPlan
  <2> QED BY <1>3, <1>6, <1>7, <1>8, <2>1
<1>12. ASSUME NEW o \in todo'[p], o.do = "create", o.thing.kind = "constraint",
              NEW u \in Things, Same(u, o.thing), Truth(p)'[u] > 0
       PROVE  Drop(u) \in todo'[p]
  <2>1. /\ o \in todo[p] /\ o # op /\ o = Create(o.thing) /\ o.thing \in call[p].wants
        /\ u.kind = "constraint" /\ Drop(u).do = "drop"
    BY <1>1, <1>4, <1>12, SameIs, OpsType
  <2>2. CASE op.do = "drop"
    <3>1. u # op.thing /\ Truth(p)[u] > 0
      BY <1>3, <1>6, <1>12, <2>1, <2>2
    <3>2. Drop(u) \in todo[p] /\ Drop(u) # op
      BY <1>1, <1>2, <1>6, <1>12, <2>1, <2>2, <3>1, OpsType DEF FreshPlan
    <3> QED BY <1>1, <3>2
  <2>3. CASE op.do = "create"
    <3>1. CASE u \in Made(p, op)
      <4>1. op = Create(op.thing) /\ op.thing \in call[p].wants /\ op.thing = u
        BY <1>1, <2>1, <2>3, <3>1, MadeAre DEF Kinds
      <4>2. op.thing = o.thing
        BY <1>1, <1>12, <2>1, <4>1, SchemaAssumption DEF SchemaAssumption, OneByName
      <4> QED BY <2>1, <4>1, <4>2
    <3>2. CASE u \notin Made(p, op)
      <4>1. Truth(p)[u] > 0
        BY <1>7, <1>12, <2>3, <3>2
      <4> QED BY <1>1, <1>2, <1>12, <2>1, <2>3, <4>1 DEF FreshPlan
    <3> QED BY <3>1, <3>2
  <2> QED BY <1>8, <2>2, <2>3
<1>13. ASSUME NEW o \in todo'[p], o.do = "create", o.thing.kind = "label", Truth(p)'[o.thing] > 0
       PROVE  o.thing \in overtaken'
  <2>1. /\ o \in todo[p] /\ o # op /\ o = Create(o.thing) /\ o.thing \in call[p].wants
        /\ o.thing \in Things
    BY <1>1, <1>4, <1>5, <1>13
  <2>2. ASSUME op.do = "create" PROVE o.thing \notin Made(p, op)
    <3>1. op = Create(op.thing) /\ op.thing \in Things
      BY <1>1, <2>2, MadeAre
    <3>2. ASSUME o.thing \in Made(p, op) PROVE o.thing = op.thing
      <4>1. CASE op.thing.kind # "label"
        BY <1>1, <2>2, <3>2, <4>1, MadeAre
      <4>2. CASE op.thing.kind = "label"
        <5>1. o.thing.label = op.thing.label
          BY <1>1, <2>2, <3>2, <4>2, MadeAre
        <5> QED BY <1>13, <2>1, <3>1, <4>2, <5>1, SchemaAssumption DEF SchemaAssumption
      <4> QED BY <4>1, <4>2
    <3> QED BY <2>1, <3>1, <3>2
  <2>3. Truth(p)[o.thing] > 0
    BY <1>3, <1>6, <1>7, <1>8, <1>13, <2>1, <2>2
  <2> QED BY <1>1, <1>2, <1>13, <2>1, <2>3 DEF FreshPlan
<1>14. ASSUME call[p].on = "label", NEW t \in call[p].wants
       PROVE  \/ Truth(p)'[t] > 0 \/ Create(t) \in todo'[p]
              \/ /\ t.kind = "column"
                 /\ \E u \in Things : /\ u.kind = "label" /\ u.label = t.label
                                      /\ Create(u) \in todo'[p] \/ u \in overtaken'
  <2>1. op.do = "create"
    BY <1>6, <1>8, <1>14
  <2>2. t \in Things /\ t.kind \in {"label", "column"}
    BY <1>1, <1>5, <1>14, WantsType
  <2>3. \/ Truth(p)[t] > 0 \/ Create(t) \in todo[p]
        \/ /\ t.kind = "column"
           /\ \E u \in Things : /\ u.kind = "label" /\ u.label = t.label
                                /\ Create(u) \in todo[p] \/ u \in overtaken
    BY <1>1, <1>2, <1>14 DEF OnItsWay
  <2>4. ASSUME t \in Made(p, op) PROVE Truth(p)'[t] > 0
    BY <1>3, <1>7, <2>1, <2>2, <2>4
  <2>5. ASSUME Truth(p)[t] > 0 PROVE Truth(p)'[t] > 0
    BY <1>3, <1>7, <2>1, <2>2, <2>5
  <2>6. CASE Truth(p)[t] > 0
    BY <2>5, <2>6
  <2>7. CASE Create(t) \in todo[p]
    <3>1. CASE Create(t) # op
      BY <1>1, <2>7, <3>1
    <3>2. CASE Create(t) = op /\ ~(Truth(p)[t] > 0)
      <4>1. op.thing = t
        BY <2>2, <3>2, OpsType
      <4>2. t \in Made(p, op)
        BY <1>1, <1>14, <2>1, <2>2, <3>2, <4>1, MadeAre
      <4> QED BY <2>4, <4>2
    <3> QED BY <2>5, <3>1, <3>2
  <2>8. ASSUME t.kind = "column", NEW u \in Things, u.kind = "label", u.label = t.label,
               Create(u) \in todo[p] \/ u \in overtaken
        PROVE  \/ Truth(p)'[t] > 0 \/ Create(u) \in todo'[p] \/ u \in overtaken'
    <3>1. CASE u \in overtaken \/ Create(u) # op
      BY <1>1, <2>8, <3>1
    <3>2. CASE Create(u) = op
      <4>1. op.thing = u /\ op \in todo[p]
        BY <3>2, OpsType
      <4>2. CASE Truth(p)[u] > 0
        <5>1. u \in overtaken
          BY <1>1, <1>2, <2>1, <2>8, <4>1, <4>2 DEF FreshPlan
        <5> QED BY <1>1, <5>1
      <4>3. CASE ~(Truth(p)[u] > 0)
        <5>1. t \in Made(p, op)
          BY <1>1, <1>14, <2>1, <2>8, <4>1, <4>3, MadeAre
        <5> QED BY <2>4, <5>1
      <4> QED BY <4>2, <4>3
    <3> QED BY <3>1, <3>2
  <2> QED BY <2>3, <2>6, <2>7, <2>8
<1> QED BY <1>1, <1>10, <1>11, <1>12, <1>13, <1>14 DEF FreshPlan, OnItsWay, There
LEMMA OwnFresh ==
    ASSUME IInv, NEW p \in Processes \ frozen, StepOf(p)
    PROVE  FreshPlan(p)' /\ OnItsWay(p)'
<1> DEFINE Goal == FreshPlan(p)' /\ OnItsWay(p)'
<1>1. /\ TypeOK /\ FreshPlan(p) /\ OnItsWay(p)
      /\ pc[p] = "idle" => declared[p] = {}
      /\ pc[p] \notin {"waiting", "replanning", "running"} => todo[p] = {}
  BY DEF IInv, FreshPlans, Planned
<1>2. ASSUME Stays(p) PROVE Truth(p)' = Truth(p)
  BY <1>1, <1>2, StillViews
<1>3. ASSUME Return(p) PROVE Goal
  BY <1>1, <1>3, Returned
<1>4. ASSUME NEW c \in Calls, Ensure(p, c) PROVE Goal
  <2>1. Truth(p)' = Truth(p)
    BY <1>2, <1>4, EachStep
  <2>2. declared'[p] = {} /\ pc'[p] \notin Active
    BY <1>1, <1>4 DEF Ensure, Goto, TypeOK, Active
  <2> QED BY <2>2 DEF FreshPlan, OnItsWay, Active, There
<1>5. ASSUME Declare(p) PROVE Goal
  <2>1. Truth(p)' = Truth(p) /\ Seen(p) = Truth(p)
    BY <1>2, <1>5, EachStep, SeenIsTruth DEF IInv
  <2>2. declared'[p] \subseteq There(Seen(p)) /\ pc'[p] \notin Active
    BY <1>1, <1>5 DEF Declare, Goto, TypeOK, Active
  <2>3. declared'[p] \subseteq There(Truth(p)')
    BY <2>1, <2>2
  <2> QED BY <2>2, <2>3 DEF FreshPlan, OnItsWay, Active, There
<1>6. ASSUME Truth(p)' = Truth(p), declared'[p] = declared[p], pc'[p] \notin Active PROVE Goal
  <2>1. declared'[p] \subseteq There(Truth(p)')
    BY <1>1, <1>6 DEF FreshPlan
  <2> QED BY <1>6, <2>1 DEF FreshPlan, OnItsWay, Active, There
<1>7. ASSUME Plan(p) PROVE Goal
  <2>1. CASE Return(p)
    BY <1>3, <2>1
  <2>2. CASE Goto(p, "waiting") /\ declared' = declared
    <3>1. pc'[p] \notin Active
      BY <1>1, <2>2 DEF Goto, TypeOK, Active
    <3> QED BY <1>2, <1>6, <1>7, <2>2, <3>1, EachStep
  <2> QED BY <1>7, <2>1, <2>2 DEF Plan
<1>8. ASSUME Wait(p) PROVE Goal
  BY <1>8 DEF Wait
<1>9. ASSUME Lock(p) PROVE Goal
  <2>1. Truth(p)' = Truth(p)
    BY <1>2, <1>9, EachStep
  <2>2. declared'[p] = declared[p] /\ pc'[p] = "replanning"
    BY <1>1, <1>9 DEF Lock, Goto, TypeOK
  <2>3. declared'[p] \subseteq There(Truth(p)')
    BY <1>1, <2>1, <2>2 DEF FreshPlan
  <2> QED BY <2>2, <2>3 DEF FreshPlan, OnItsWay, There
<1>10. ASSUME Replan(p) PROVE Goal
  <2>1. PICK ops \in Plans(p) :
          /\ todo'[p] = ops /\ pc'[p] = IF ops = {} THEN "leaving" ELSE "running"
    BY <1>1, <1>10 DEF Replan, PlansAgain, Goto, TypeOK
  <2>2. /\ Truth(p)' = Truth(p) /\ declared'[p] = declared[p] /\ call'[p] = call[p]
        /\ pc[p] = "replanning"
    BY <1>2, <1>10, EachStep DEF Replan
  <2>3. PlanFits(p, ops)
    BY <2>2, FreshReplan
  <2>4. declared'[p] \subseteq There(Truth(p)')
    BY <1>1, <2>2 DEF FreshPlan
  <2>5. FreshPlan(p)'
    BY <2>1, <2>2, <2>3, <2>4 DEF FreshPlan, PlanFits, There
  <2>6. OnItsWay(p)'
    <3>1. CASE ops = {}
      BY <2>1, <2>2, <2>3, <3>1 DEF OnItsWay, PlanFits
    <3>2. CASE ops # {}
      BY <2>1, <2>2, <2>3, <3>2 DEF OnItsWay, PlanFits
    <3> QED BY <3>1, <3>2
  <2> QED BY <2>5, <2>6
<1>11. ASSUME NEW op \in todo[p], Run(p, op) PROVE Goal
  BY <1>11, RunFresh
<1>12. ASSUME NEW op \in todo[p], RunRefused(p, op) PROVE Goal
  BY <1>3, <1>12 DEF RunRefused, Fail
<1>13. ASSUME Settle(p) PROVE Goal
  <2>1. /\ Truth(p)' = Truth(p) /\ declared'[p] = declared[p] /\ call'[p] = call[p]
        /\ todo'[p] = {} /\ todo[p] = {} /\ pc[p] = "settling" /\ pc'[p] = "leaving"
        /\ overtaken' = overtaken
    BY <1>1, <1>2, <1>13, EachStep DEF Settle, Goto, TypeOK, history
  <2>2. declared'[p] \subseteq There(Truth(p)')
    BY <1>1, <2>1 DEF FreshPlan
  <2>3. call[p].on = "label" => OnItsWay(p)'
    BY <1>1, <2>1 DEF OnItsWay
  <2>4. ASSUME call[p].on # "label" PROVE \A t \in call[p].wants : Truth(p)[t] > 0
    <3>1. call[p].wants \subseteq There(Seen(p))
      BY <1>1, <1>13, <2>4, NotOutstanding DEF Settle
    <3>2. Seen(p) = Truth(p)
      BY SeenIsTruth DEF IInv
    <3> QED BY <3>1, <3>2 DEF There
  <2>5. OnItsWay(p)'
    BY <2>1, <2>3, <2>4 DEF OnItsWay
  <2> QED BY <2>1, <2>2, <2>5 DEF FreshPlan, There
<1>14. ASSUME SettleRaises(p) \/ Leave(p) \/ Lose(p) PROVE Goal
  BY <1>3, <1>14 DEF SettleRaises, Fail, Leave, Lose
<1>15. ASSUME NEW b \in BOOLEAN, EndOuter(p, b) PROVE Goal
  <2>1. declared'[p] = {} /\ pc'[p] \notin Active
    BY <1>1, <1>15 DEF EndOuter, local, Active
  <2> QED BY <2>1 DEF FreshPlan, OnItsWay, Active, There
<1>16. Goal
  BY <1>4, <1>5, <1>7, <1>8, <1>9, <1>10, <1>11, <1>12, <1>13, <1>14, <1>15 DEF StepOf
<1> QED BY <1>16

LEMMA WriteFresh ==
    ASSUME IInv, NEW t \in Things, WriteMakes(t), NEW q \in Processes \ frozen
    PROVE  FreshPlan(q)' /\ OnItsWay(q)'
<1>1. /\ pc' = pc /\ call' = call /\ declared' = declared /\ todo' = todo
      /\ overtaken' = overtaken \cup {t}
  BY DEF WriteMakes, local
<1>2. /\ t.kind = "label" /\ Truth(q)[t] = 0
      /\ \A u \in Things : Truth(q)'[u] = IF u = t THEN 1 ELSE Truth(q)[u]
  BY WriteViews
<1>3. FreshPlan(q) /\ OnItsWay(q) /\ todo[q] \subseteq Ops
  BY DEF IInv, FreshPlans, TypeOK
<1>4. /\ \A u \in Things : Truth(q)[u] > 0 => Truth(q)'[u] > 0
      /\ \A u \in Things : Truth(q)'[u] > 0 => Truth(q)[u] > 0 \/ u = t
  BY <1>2
<1>5. \A op \in todo[q] : op.thing \in Things
  BY <1>3 DEF Ops
<1>6. declared'[q] \subseteq There(Truth(q)')
  BY <1>1, <1>3, <1>4 DEF FreshPlan, There
<1>7. FreshPlan(q)'
  BY <1>1, <1>2, <1>3, <1>4, <1>5, <1>6, SameIs DEF FreshPlan, There
<1>8. OnItsWay(q)'
  <2>1. pc[q] # "idle" => call[q] \in Calls
    BY DEF IInv, Planned
  <2>2. pc[q] # "idle" => call[q].wants \subseteq Things
    BY <2>1, WantsType
  <2> QED BY <1>1, <1>3, <1>4, <2>2 DEF OnItsWay
<1> QED BY <1>7, <1>8

LEMMA StepFresh == IInv /\ Next => FreshPlans'
<1> SUFFICES ASSUME IInv, Next PROVE FreshPlans'
  OBVIOUS
<1>1. ASSUME NEW p \in Processes, StepOf(p) PROVE FreshPlans'
  <2>1. frozen' = frozen
    BY <1>1, Elsewhere DEF IInv
  <2>2. ASSUME NEW q \in Processes \ frozen PROVE FreshPlan(q)' /\ OnItsWay(q)'
    BY <1>1, OwnFresh, OthersFresh
  <2> QED BY <2>1, <2>2 DEF FreshPlans
<1>2. ASSUME NEW t \in Things, WriteMakes(t) PROVE FreshPlans'
  <2>1. frozen' = frozen
    BY <1>2 DEF WriteMakes
  <2> QED BY <1>2, <2>1, WriteFresh DEF FreshPlans
<1> QED BY <1>1, <1>2 DEF Next, StepOf

-----------------------------------------------------------------------------
(* The invariant, and what follows from it.                                *)
LEMMA InitIInv == Init => IInv
<1> SUFFICES ASSUME Init PROVE IInv
  OBVIOUS
<1>1. /\ \A t \in Things : catalog[t] = IF t \in Existing THEN 1 ELSE 0
      /\ catalog \in [Things -> Nat] /\ catalog \in [Things -> Int]
      /\ \A p \in Processes : change[p] = Nothing /\ mark[p] = Blank
  BY DEF Init
<1>2. TypeOK
  BY SchemaAssumption, NothingType DEF SchemaAssumption, TypeOK, Init
<1>3. Planned
  BY DEF Init, Planned, Nothing
<1>4. Turns /\ Grows
  BY <1>1, NothingType DEF Init, Turns, Grows, Active
<1>5. \A p \in Processes : Truth(p) = catalog /\ Marked(p) = catalog
  BY <1>1, PlusNothing, NothingType DEF Truth, Marked
<1>6. Sound(catalog)
  <2>1. Spared \subseteq Existing /\ Existing \subseteq Things
    BY DEF Spared, Things
  <2>2. \A t, u \in Existing : t.kind = "constraint" /\ Same(t, u) => t = u
    BY SchemaAssumption DEF SchemaAssumption, OneByName
  <2> QED BY <1>1, <2>1, <2>2, SameIs DEF Sound
<1>7. SoundViews
  BY <1>5, <1>6 DEF SoundViews
<1>8. OtherwiseRead
  BY <1>1, NothingType DEF OtherwiseRead
<1>9. FreshPlans
  BY DEF Init, FreshPlans, FreshPlan, OnItsWay
<1> QED BY <1>2, <1>3, <1>4, <1>7, <1>8, <1>9 DEF IInv

LEMMA StepIInv == IInv /\ [Next]_vars => IInv'
<1> SUFFICES ASSUME IInv, [Next]_vars PROVE IInv'
  OBVIOUS
<1>1. CASE Next
  BY <1>1, StepTypes, StepPlanned, StepTurns, StepGrows, StepSound, StepOtherwise, StepFresh
     DEF IInv
<1>2. CASE UNCHANGED vars
  <2>1. /\ UNCHANGED <<catalog, change, holder, outer, frozen, snapshot>>
        /\ UNCHANGED <<pc, call, declared, todo, mark, overtaken, refused>>
    BY <1>2 DEF vars, local, history
  <2>2. \A p \in Processes : Truth(p)' = Truth(p) /\ Marked(p)' = Marked(p)
    BY <2>1 DEF Truth, Marked, Plus
  <2>3. TypeOK' /\ Planned' /\ Turns' /\ Grows' /\ OtherwiseRead'
    BY <2>1 DEF IInv, TypeOK, Planned, Turns, Grows, OtherwiseRead
  <2>4. SoundViews'
    BY <2>1, <2>2 DEF IInv, SoundViews, Sound
  <2>5. FreshPlans'
    <3>1. ASSUME NEW p \in Processes \ frozen PROVE FreshPlan(p)' /\ OnItsWay(p)'
      <4>1. Untouched(p) /\ overtaken \subseteq overtaken' /\ Truth(p)' = Truth(p)
        BY <2>1, <2>2 DEF Untouched
      <4> QED BY <4>1, FreshKept
    <3> QED BY <2>1, <3>1 DEF FreshPlans
  <2> QED BY <2>3, <2>4, <2>5 DEF IInv
<1> QED BY <1>1, <1>2

(* The inductive invariant holds in every state of a run.                  *)
THEOREM Invariance == Spec => []IInv
BY InitIInv, StepIInv, PTL DEF Spec

(* Every variable of the reconciling calls has its type.                   *)
THEOREM TypeCorrect == Spec => []TypeOK
<1>1. IInv => TypeOK
  BY DEF IInv
<1> QED BY <1>1, Invariance, PTL
-----------------------------------------------------------------------------
(* Nothing is made twice, if all read what is there: no more than one of   *)
(* anything, or of the indexes over one key, whenever nobody's statements  *)
(* are half run.                                                           *)
LEMMA TidyNow ==
    ASSUME IInv, TidyPlans, NEW p \in Processes
    PROVE  /\ Tidy(catalog) /\ Tidy(Marked(p))
           /\ pc[p] \notin {"running", "settling"} => Tidy(Truth(p))
BY DEF TidyPlans, TidyPlan

LEMMA SettledIsTidy ==
    ASSUME IInv, TidyPlans, NEW p \in Processes, Settle(p)
    PROVE  Tidy(Truth(p))
<1>1. /\ pc[p] = "settling" /\ ~Outstanding(p) /\ call[p] \in Calls
  BY DEF Settle, IInv, Planned
<1>2. OneOverAKey(call[p].wants)
  <2>1. CASE call[p].on = "label"
    BY <1>1, <2>1, WantsType DEF OneOverAKey
  <2>2. CASE call[p].on # "label"
    <3>1. PICK l \in Listings(call[p], Seen(p)) : Reconcile(call[p], l, FALSE) = {}
      BY <1>1, <2>2 DEF Outstanding
    <3>2. call[p].wants \subseteq l
      BY <3>1, MatchedAre
    <3>3. \A t, u \in l : Same(t, u) => t = u
      <4> DEFINE there == {t \in There(Seen(p)) \ Altered : t.kind = call[p].on}
                 rivals == {t \in there : \E u \in there \ {t} : Same(t, u)}
      <4>1. PICK r \in SUBSET rivals : /\ l = (there \ rivals) \cup r
                                       /\ \A t, u \in r : Same(t, u) => t = u
        BY DEF Listings
      <4>2. \A t \in there \ rivals : \A u \in there : Same(t, u) => t = u
        OBVIOUS
      <4>3. \A t \in there \ rivals : \A u \in there : Same(u, t) => t = u
        BY <4>2, SameIs
      <4>4. r \subseteq there
        BY <4>1
      <4> HIDE DEF there, rivals
      <4> QED BY <4>1, <4>2, <4>3, <4>4
    <3> QED BY <3>2, <3>3 DEF OneOverAKey
  <2> QED BY <2>1, <2>2
<1> QED BY <1>1, <1>2 DEF TidyPlans, TidyPlan

(* The statements made, of which each finds what it is over made by nobody. *)
PlanIsTidy(p, ops) ==
    \A op \in ops : op.do = "create" =>
        /\ op.thing.kind = "index" /\ op.thing \notin Altered =>
              \A u \in Things \ Altered :
                  Same(u, op.thing) /\ Truth(p)[u] > 0 => Drop(u) \in ops
        /\ op.thing.kind = "column" =>
              \E l \in Things : l.kind = "label" /\ l.label = op.thing.label /\ Truth(p)[l] > 0

LEMMA TidyReplan ==
    ASSUME IInv, NEW p \in Processes \ frozen, pc[p] = "replanning", Tidy(Truth(p)),
           NEW ops \in Plans(p)
    PROVE  PlanIsTidy(p, ops)
<1> DEFINE c == call[p]
<1>1. /\ c \in Calls /\ c.wants \subseteq Things /\ c.on \in {"label", "index", "constraint"}
      /\ \A t \in c.wants : t.kind = c.on \/ (c.on = "label" /\ t.kind = "column")
  BY WantsType DEF IInv, Planned
<1>2. Seen(p) = Truth(p) /\ There(Seen(p)) = {t \in Things : Truth(p)[t] > 0}
  BY SeenIsTruth DEF IInv, There
<1>3. PlanFor(c, ops)
  BY <1>1, PlansAre DEF IInv
<1>4. CASE c.on = "label"
  <2>1. ops = ReconcileLabels(c, Seen(p), declared[p])
    BY <1>4 DEF Plans
  <2>2. ASSUME NEW op \in ops, op.thing.kind = "column"
        PROVE  \E l \in Things : l.kind = "label" /\ l.label = op.thing.label /\ Truth(p)[l] > 0
    <3>1. PICK t \in c.wants : /\ op = Create(t)
                               /\ \/ t.kind = "label"
                                  \/ \A u \in c.wants : u.kind = "label" /\ u \notin There(Seen(p))
                                                        => u.label # t.label
      BY <2>1 DEF ReconcileLabels
    <3>2. op.thing = t /\ t.kind = "column"
      BY <1>1, <2>2, <3>1, OpsType
    <3>3. PICK l \in c.wants : l.kind = "label" /\ l.label = t.label
      BY <1>1, <3>2, SchemaAssumption DEF SchemaAssumption, Labelled
    <3>4. l \in There(Seen(p))
      BY <3>1, <3>2, <3>3
    <3> QED BY <1>1, <1>2, <3>2, <3>3, <3>4
  <2>3. \A op \in ops : op.thing.kind # "index"
    BY <1>1, <1>3, <1>4 DEF PlanFor
  <2> QED BY <2>2, <2>3 DEF PlanIsTidy
<1>5. CASE c.on # "label"
  <2>1. PICK l \in Listings(c, Seen(p)) : ops = Reconcile(c, l, c.dropExtra)
    BY <1>5 DEF Plans
  <2>2. ASSUME NEW op \in ops, op.do = "create"
        PROVE  op.thing \in c.wants /\ op.thing \notin l /\ op.thing.kind = c.on
    <3>1. \/ \E w \in c.wants : op = Create(w) /\ w \notin l
          \/ \E u \in l : op = Drop(u)
      BY <2>1, SameIs DEF Reconcile
    <3>2. l \subseteq Things
      BY <1>2, ListingType
    <3>3. PICK w \in c.wants : op = Create(w) /\ w \notin l
      BY <2>2, <3>1, <3>2, OpsType
    <3> QED BY <1>1, <1>5, <3>3, OpsType
  <2>3. ASSUME NEW op \in ops, op.do = "create", op.thing.kind = "index",
               NEW u \in Things \ Altered, Same(u, op.thing), Truth(p)[u] > 0
        PROVE  Drop(u) \in ops
    <3>1. /\ op.thing \in c.wants /\ op.thing \notin l /\ c.on = "index" /\ u.kind = "index"
      BY <2>2, <2>3, SameIs
    <3>2. u \in There(Seen(p)) \ Altered
      BY <1>2, <2>3
    <3>3. ASSUME NEW v \in There(Seen(p)) \ Altered, Same(u, v) PROVE v = u
      <4>1. v \in Things \ Altered /\ Truth(p)[v] > 0
        BY <1>2
      <4>2. Truth(p)[u] # 0 /\ Truth(p)[v] # 0
        BY <2>3, <4>1
      <4> QED BY <3>1, <3>3, <4>1, <4>2 DEF Tidy
    <3>4. u \in l
      BY <3>1, <3>2, <3>3, ListedAlone
    <3> QED BY <2>1, <2>3, <3>1, <3>4 DEF Reconcile
  <2> QED BY <1>1, <1>5, <2>2, <2>3 DEF PlanIsTidy
<1> QED BY <1>4, <1>5

LEMMA RunTidy ==
    ASSUME IInv, TidyPlans, NEW p \in Processes, p \notin frozen, NEW op \in todo[p], Run(p, op)
    PROVE  TidyPlan(p)'
<1>1. /\ Turn(p, op) /\ pc[p] = "running" /\ call[p] \in Calls
      /\ todo'[p] = todo[p] \ {op} /\ call'[p] = call[p] /\ pc'[p] \in {"running", "settling"}
      /\ \A o \in todo[p] : o \in Ops
  BY DEF IInv, TypeOK, Planned, Run, Turn, Goto
<1>2. Tidy(Marked(p)')
  BY RunViews DEF TidyPlans, TidyPlan
<1>3. ASSUME OneOverAKey(call[p].wants)
      PROVE  Tidy(Truth(p)') /\ (pc'[p] = "running" =>
                \A o \in todo'[p] : o.do = "create" =>
                   /\ o.thing.kind = "index" /\ o.thing \notin Altered =>
                         \A u \in Things \ Altered :
                             Same(u, o.thing) /\ Truth(p)'[u] > 0 => Drop(u) \in todo'[p]
                   /\ o.thing.kind = "column" =>
                         \E l \in Things : /\ l.kind = "label" /\ l.label = o.thing.label
                                           /\ Truth(p)'[l] > 0)
  <2>1. Tidy(Truth(p)) /\ PlanIsTidy(p, todo[p])
    BY <1>1, <1>3 DEF TidyPlans, TidyPlan, PlanIsTidy
  <2>2. \A t \in Things : Truth(p)[t] \in Int /\ Truth(p)[t] >= 0
    BY ViewTypes DEF IInv, SoundViews, Sound
  <2>3. ASSUME NEW o \in todo[p]
        PROVE  /\ o.thing \in Things
               /\ \/ o = Create(o.thing) /\ o.do = "create" /\ o.thing \in call[p].wants
                  \/ /\ o = Drop(o.thing) /\ o.do = "drop" /\ o.thing \notin Altered
                     /\ o.thing.kind \in {"index", "constraint"}
    <3>1. call[p].on \in {"label", "index", "constraint"}
      BY <1>1, WantsType
    <3>2. o.thing \in Things /\ (o = Create(o.thing) \/ o = Drop(o.thing))
      BY <1>1 DEF Ops, Create, Drop
    <3> QED BY <3>1, <3>2, OpsType DEF IInv, Planned
  <2>4. ASSUME op.do = "drop"
        PROVE  Tidy(Truth(p)') /\ PlanIsTidy(p, todo[p])'
    <3>1. /\ op = Drop(op.thing) /\ op.thing \in Things \ Altered
          /\ op.thing.kind \in {"index", "constraint"}
          /\ \A t \in Things : Truth(p)'[t] =
                 IF t = op.thing THEN Truth(p)[t] - 1 ELSE Truth(p)[t]
      BY <2>3, <2>4, RunViews
    <3>2. \A t \in Things : /\ Truth(p)'[t] <= Truth(p)[t]
                            /\ t.kind \in {"label", "column"} => Truth(p)'[t] = Truth(p)[t]
      BY <2>2, <3>1
    <3>3. Truth(p)[op.thing] <= 1 /\ ~(Truth(p)'[op.thing] > 0)
      BY <2>1, <2>2, <3>1 DEF Tidy
    <3>4. \A t \in Things : Truth(p)'[t] \in Int /\ Truth(p)'[t] >= 0
      BY <2>2, <2>4, <3>1, RunViews
    <3>5. Tidy(Truth(p)')
      <4>1. \A t \in Things \ Altered : Truth(p)'[t] <= 1
        BY <2>1, <2>2, <3>2, <3>4 DEF Tidy
      <4>2. \A t \in Things : Truth(p)[t] = 0 => Truth(p)'[t] = 0
        BY <3>2, <3>4
      <4>3. \A t, u \in Things \ Altered :
               t.kind = "index" /\ Same(t, u) /\ t # u => Truth(p)'[t] = 0 \/ Truth(p)'[u] = 0
        BY <2>1, <4>2 DEF Tidy
      <4>4. ASSUME NEW t \in Things, t.kind = "column", Truth(p)'[t] > 0
            PROVE  \E l \in Things : l.kind = "label" /\ l.label = t.label /\ Truth(p)'[l] > 0
        <5>1. Truth(p)[t] > 0
          BY <3>2, <4>4
        <5>2. PICK l \in Things : l.kind = "label" /\ l.label = t.label /\ Truth(p)[l] > 0
          BY <2>1, <4>4, <5>1 DEF Tidy
        <5> QED BY <3>2, <5>2
      <4> QED BY <4>1, <4>3, <4>4 DEF Tidy
    <3>6. ASSUME NEW o \in todo'[p], o.do = "create"
          PROVE  /\ o.thing.kind = "index" /\ o.thing \notin Altered =>
                       \A u \in Things \ Altered :
                           Same(u, o.thing) /\ Truth(p)'[u] > 0 => Drop(u) \in todo'[p]
                 /\ o.thing.kind = "column" =>
                       \E l \in Things : /\ l.kind = "label" /\ l.label = o.thing.label
                                         /\ Truth(p)'[l] > 0
      <4>1. o \in todo[p] /\ todo'[p] = todo[p] \ {op}
        BY <1>1
      <4>2. ASSUME o.thing.kind = "index", o.thing \notin Altered, NEW u \in Things \ Altered,
                   Same(u, o.thing), Truth(p)'[u] > 0
            PROVE  Drop(u) \in todo'[p]
        <5>1. u # op.thing /\ Truth(p)[u] > 0
          BY <3>1, <3>3, <4>2
        <5>2. Drop(u) \in todo[p]
          BY <2>1, <3>6, <4>1, <4>2, <5>1 DEF PlanIsTidy
        <5>3. Drop(u) # op
          BY <3>1, <5>1, OpsType
        <5> QED BY <4>1, <5>2, <5>3
      <4>3. ASSUME o.thing.kind = "column"
            PROVE  \E l \in Things : /\ l.kind = "label" /\ l.label = o.thing.label
                                     /\ Truth(p)'[l] > 0
        <5>1. PICK l \in Things : l.kind = "label" /\ l.label = o.thing.label /\ Truth(p)[l] > 0
          BY <2>1, <3>6, <4>1, <4>3 DEF PlanIsTidy
        <5> QED BY <3>2, <5>1
      <4> QED BY <4>2, <4>3
    <3> QED BY <3>5, <3>6 DEF PlanIsTidy
  <2>5. ASSUME op.do = "create"
        PROVE  Tidy(Truth(p)') /\ PlanIsTidy(p, todo[p])'
    <3>1. /\ op = Create(op.thing) /\ op.thing \in call[p].wants /\ op.thing \in Things
          /\ op.thing.kind \in Kinds
      BY <1>1, <2>5, MadeAre
    <3>2. \A t \in Things : Truth(p)'[t] =
              IF t \in Made(p, op) THEN Truth(p)[t] + 1 ELSE Truth(p)[t]
      BY <2>5, RunViews
    <3>3. \A t \in Things : /\ Truth(p)'[t] \in Int /\ Truth(p)'[t] >= Truth(p)[t]
                            /\ Truth(p)[t] > 0 => Truth(p)'[t] > 0
                            /\ t \in Made(p, op) => Truth(p)'[t] > 0
                            /\ t \notin Made(p, op) => Truth(p)'[t] = Truth(p)[t]
      BY <2>2, <3>2
    <3>4. ASSUME op.thing.kind = "index", op.thing \notin Altered,
                 NEW u \in Things \ Altered, Same(u, op.thing)
          PROVE  Truth(p)[u] = 0
      <4>1. ASSUME Truth(p)[u] > 0 PROVE FALSE
        <5>1. Drop(u) \in todo[p]
          BY <2>1, <2>5, <3>4, <4>1 DEF PlanIsTidy
        <5>2. ~Same(Drop(u).thing, op.thing)
          BY <1>1, <2>5, <5>1, OpsType DEF Turn
        <5> QED BY <3>4, <5>2, OpsType
      <4> QED BY <2>2, <4>1
    <3>5. ASSUME NEW t \in Made(p, op), t \notin Altered
          PROVE  t \in Things /\ Truth(p)[t] = 0
      <4>0. call[p].wants \subseteq Things
        BY <1>1, WantsType
      <4>1. CASE op.thing.kind = "index"
        BY <1>1, <2>5, <3>1, <3>4, <3>5, <4>1, MadeAre, SameIs
      <4>2. CASE op.thing.kind \in {"column", "constraint"}
        <5>1. t = op.thing /\ t \in Things
          BY <1>1, <2>5, <3>1, <3>5, <4>2, MadeAre
        <5>2. ~(Truth(p)[t] > 0)
          BY <2>5, <4>2, <5>1, RunViews, SameIs
        <5> QED BY <2>2, <5>1, <5>2
      <4>3. CASE op.thing.kind = "label"
        <5>1. /\ ~(Truth(p)[op.thing] > 0) /\ t \in Things
              /\ t.kind \in {"label", "column"} /\ t.label = op.thing.label
          BY <1>1, <2>5, <3>5, <4>0, <4>3, MadeAre
        <5>2. \A l \in Things : l.kind = "label" /\ l.label = op.thing.label => l = op.thing
          BY <3>1, <4>3, SchemaAssumption DEF SchemaAssumption
        <5>3. ~(Truth(p)[t] > 0)
          <6>1. CASE t.kind = "label"
            BY <5>1, <5>2, <6>1
          <6>2. CASE t.kind = "column"
            BY <2>1, <5>1, <5>2, <6>2 DEF Tidy
          <6> QED BY <5>1, <6>1, <6>2
        <5> QED BY <2>2, <5>1, <5>3
      <4> QED BY <3>1, <4>1, <4>2, <4>3 DEF Kinds
    <3>6. ASSUME NEW t \in Things \ Altered, NEW u \in Things \ Altered,
                 t.kind = "index", Same(t, u), t # u
          PROVE  Truth(p)'[t] = 0 \/ Truth(p)'[u] = 0
      <4>1. CASE t \notin Made(p, op) /\ u \notin Made(p, op)
        BY <2>1, <3>3, <3>6, <4>1 DEF Tidy
      <4>2. ASSUME NEW v \in {t, u}, v \in Made(p, op) PROVE Truth(p)'[t] = 0 \/ Truth(p)'[u] = 0
        <5>1. v.kind = "index" /\ v \notin Altered /\ Same(t, v) /\ Same(u, v)
          BY <3>6, <4>2, SameIs
        <5>2. op.thing = v /\ \A w \in {t, u} : w \in Made(p, op) => w = v
          BY <1>1, <2>5, <4>2, <5>1, <3>6, SameIs, MadeAre DEF Kinds
        <5>3. PICK w \in {t, u} : w # v
          BY <3>6
        <5>4. Truth(p)[w] = 0 /\ w \notin Made(p, op)
          BY <3>4, <3>6, <5>1, <5>2, <5>3
        <5> QED BY <3>3, <5>3, <5>4
      <4> QED BY <4>1, <4>2
    <3>7. ASSUME NEW t \in Things, t.kind = "column", Truth(p)'[t] > 0
          PROVE  \E l \in Things : l.kind = "label" /\ l.label = t.label /\ Truth(p)'[l] > 0
      <4>1. CASE t \notin Made(p, op)
        <5>1. Truth(p)[t] > 0
          BY <3>3, <3>7, <4>1
        <5>2. PICK l \in Things : l.kind = "label" /\ l.label = t.label /\ Truth(p)[l] > 0
          BY <2>1, <3>7, <5>1 DEF Tidy
        <5> QED BY <3>3, <5>2
      <4>2. CASE t \in Made(p, op) /\ op.thing.kind = "label"
        <5>1. ~(Truth(p)[op.thing] > 0) /\ t.label = op.thing.label /\ op.thing \in Made(p, op)
          BY <1>1, <2>5, <3>1, <4>2, MadeAre
        <5> QED BY <3>1, <3>3, <4>2, <5>1
      <4>3. CASE t \in Made(p, op) /\ op.thing.kind # "label"
        <5>1. op.thing = t
          BY <1>1, <2>5, <4>3, MadeAre
        <5>2. PICK l \in Things : l.kind = "label" /\ l.label = t.label /\ Truth(p)[l] > 0
          BY <2>1, <2>5, <3>7, <5>1 DEF PlanIsTidy
        <5> QED BY <3>3, <5>2
      <4> QED BY <4>1, <4>2, <4>3
    <3>8. \A t \in Things \ Altered : Truth(p)'[t] <= 1
      BY <2>1, <3>2, <3>3, <3>5 DEF Tidy
    <3>9. Tidy(Truth(p)')
      BY <3>6, <3>7, <3>8 DEF Tidy
    <3>10. ASSUME NEW o \in todo'[p], o.do = "create"
           PROVE  /\ o.thing.kind = "index" /\ o.thing \notin Altered =>
                        \A u \in Things \ Altered :
                            Same(u, o.thing) /\ Truth(p)'[u] > 0 => Drop(u) \in todo'[p]
                  /\ o.thing.kind = "column" =>
                        \E l \in Things : /\ l.kind = "label" /\ l.label = o.thing.label
                                          /\ Truth(p)'[l] > 0
      <4>1. /\ o \in todo[p] /\ o # op /\ todo'[p] = todo[p] \ {op} /\ o = Create(o.thing)
            /\ o.thing \in call[p].wants
        BY <1>1, <2>3, <3>10
      <4>2. ASSUME o.thing.kind = "index", o.thing \notin Altered, NEW u \in Things \ Altered,
                   Same(u, o.thing), Truth(p)'[u] > 0
            PROVE  Drop(u) \in todo'[p]
        <5>1. u \notin Made(p, op)
          <6>1. ASSUME u \in Made(p, op) PROVE FALSE
            <7>1. u.kind = "index"
              BY <4>2, SameIs
            <7>2. op.thing = u
              BY <1>1, <2>5, <6>1, <7>1, MadeAre DEF Kinds
            <7>3. u = o.thing
              BY <1>3, <3>1, <4>1, <4>2, <7>1, <7>2 DEF OneOverAKey
            <7> QED BY <3>1, <4>1, <7>2, <7>3
          <6> QED BY <6>1
        <5>2. Truth(p)[u] > 0
          BY <3>3, <4>2, <5>1
        <5>3. Drop(u) \in todo[p] /\ Drop(u).do = "drop"
          BY <2>1, <3>10, <4>1, <4>2, <5>2, OpsType DEF PlanIsTidy
        <5> QED BY <2>5, <4>1, <5>3
      <4>3. ASSUME o.thing.kind = "column"
            PROVE  \E l \in Things : /\ l.kind = "label" /\ l.label = o.thing.label
                                     /\ Truth(p)'[l] > 0
        <5>1. PICK l \in Things : l.kind = "label" /\ l.label = o.thing.label /\ Truth(p)[l] > 0
          BY <2>1, <3>10, <4>1, <4>3 DEF PlanIsTidy
        <5> QED BY <3>3, <5>1
      <4> QED BY <4>2, <4>3
    <3> QED BY <3>9, <3>10 DEF PlanIsTidy
  <2>6. op.do \in {"create", "drop"}
    BY <2>3
  <2> QED BY <2>4, <2>5, <2>6 DEF PlanIsTidy
<1> QED BY <1>1, <1>2, <1>3 DEF TidyPlan, Tidy

LEMMA OwnTidy ==
    ASSUME IInv, TidyPlans, NEW p \in Processes, p \notin frozen, StepOf(p)
    PROVE  TidyPlan(p)' /\ Tidy(catalog')
<1> DEFINE Goal == TidyPlan(p)' /\ Tidy(catalog')
<1>1. /\ TypeOK /\ Tidy(catalog) /\ Tidy(Marked(p))
      /\ pc[p] \notin {"running", "settling"} => Tidy(Truth(p))
  BY TidyNow DEF IInv
<1>2. ASSUME Tidy(Marked(p)'), Tidy(Truth(p)'), Tidy(catalog'), pc'[p] # "running" PROVE Goal
  BY <1>2 DEF TidyPlan, Tidy
<1>3. ASSUME Stays(p) PROVE Tidy(catalog') /\ Truth(p)' = Truth(p)
  BY <1>1, <1>3, StillViews DEF Stays
<1>4. ASSUME Stays(p), Tidy(Truth(p)), pc'[p] # "running" PROVE Goal
  <2>1. Truth(p)' = Truth(p) /\ FromOld(Marked(p)', p, p)
    BY <1>1, <1>4, StillViews DEF OldViews
  <2>2. Tidy(Marked(p)') /\ Tidy(Truth(p)')
    BY <1>1, <1>4, <2>1 DEF FromOld
  <2> QED BY <1>2, <1>3, <1>4, <2>2
<1>5. ASSUME GoesBack(p), pc'[p] = "idle" PROVE Goal
  <2>1. Truth(p)' \in {Marked(p), catalog} /\ Marked(p)' = catalog /\ catalog' = catalog
    BY <1>1, <1>5, BackViews DEF GoesBack
  <2>2. Tidy(Marked(p)') /\ Tidy(Truth(p)') /\ Tidy(catalog')
    BY <1>1, <2>1
  <2> QED BY <1>2, <1>5, <2>2
<1>6. ASSUME Commits(p), Tidy(Truth(p)), pc'[p] = "idle" PROVE Goal
  <2>1. Truth(p)' = Truth(p) /\ Marked(p)' = Truth(p) /\ catalog' = Truth(p)
    BY <1>6, CommitViews DEF IInv, Commits
  <2> QED BY <1>2, <1>6, <2>1
<1>7. ASSUME Return(p) PROVE pc'[p] = "idle"
  BY <1>1, <1>7 DEF Return, Goto, TypeOK
<1>8. ASSUME NEW c \in Calls, Ensure(p, c) PROVE Goal
  <2>1. pc[p] = "idle" /\ pc'[p] # "running" /\ Stays(p)
    BY <1>1, <1>8, EachStep DEF Ensure, Goto, TypeOK
  <2> QED BY <1>1, <1>4, <2>1
<1>9. ASSUME Declare(p) \/ Lock(p) PROVE Goal
  <2>1. pc[p] \in {"declaring", "waiting"} /\ pc'[p] # "running" /\ Stays(p)
    BY <1>1, <1>9, EachStep DEF Declare, Lock, Goto, TypeOK
  <2> QED BY <1>1, <1>4, <2>1
<1>10. ASSUME Wait(p) PROVE Goal
  BY <1>10 DEF Wait
<1>11. ASSUME Plan(p) PROVE Goal
  <2>1. pc[p] = "planning" /\ Stays(p)
    BY <1>11, EachStep DEF Plan
  <2>2. pc'[p] # "running"
    BY <1>1, <1>7, <1>11 DEF Plan, Goto, TypeOK
  <2> QED BY <1>1, <1>4, <2>1, <2>2
<1>12. ASSUME Replan(p) PROVE Goal
  <2>1. PICK ops \in Plans(p) : todo'[p] = ops
    BY <1>1, <1>12 DEF Replan, PlansAgain, TypeOK
  <2>2. pc[p] = "replanning" /\ Stays(p)
    BY <1>12, EachStep DEF Replan
  <2>3. Tidy(Truth(p)) /\ PlanIsTidy(p, ops)
    BY <1>1, <2>2, TidyReplan
  <2>4. Truth(p)' = Truth(p) /\ Tidy(catalog') /\ FromOld(Marked(p)', p, p)
    BY <1>1, <1>3, <2>2, StillViews DEF OldViews
  <2>5. Tidy(Marked(p)') /\ Tidy(Truth(p)')
    BY <1>1, <2>3, <2>4 DEF FromOld
  <2>6. PlanIsTidy(p, todo[p])'
    BY <2>1, <2>3, <2>4 DEF PlanIsTidy
  <2> QED BY <2>4, <2>5, <2>6 DEF TidyPlan, Tidy, PlanIsTidy
<1>13. ASSUME NEW op \in todo[p], Run(p, op) PROVE Goal
  BY <1>1, <1>13, RunTidy, RunViews
<1>14. ASSUME NEW op \in todo[p], RunRefused(p, op) PROVE Goal
  BY <1>5, <1>7, <1>14, EachStep DEF RunRefused, Fail
<1>15. ASSUME Settle(p) PROVE Goal
  <2>1. Tidy(Truth(p)) /\ Stays(p) /\ pc'[p] # "running"
    BY <1>1, <1>15, SettledIsTidy, EachStep DEF Settle, Goto, TypeOK
  <2> QED BY <1>4, <2>1
<1>16. ASSUME SettleRaises(p) \/ Lose(p) PROVE Goal
  BY <1>5, <1>7, <1>16, EachStep DEF SettleRaises, Lose, Fail
<1>17. ASSUME Leave(p) PROVE Goal
  <2>1. pc[p] = "leaving" /\ Return(p) /\ (Stays(p) \/ Commits(p))
    BY <1>17, EachStep DEF Leave
  <2> QED BY <1>1, <1>4, <1>6, <1>7, <2>1
<1>18. ASSUME NEW b \in BOOLEAN, EndOuter(p, b) PROVE Goal
  <2>1. pc[p] = "idle" /\ pc'[p] = "idle" /\ (Commits(p) \/ GoesBack(p))
    BY <1>18, EachStep DEF EndOuter, local
  <2> QED BY <1>1, <1>5, <1>6, <2>1
<1>19. Goal
  BY <1>8, <1>9, <1>10, <1>11, <1>12, <1>13, <1>14, <1>15, <1>16, <1>17, <1>18 DEF StepOf
<1> QED BY <1>19

LEMMA OthersTidy ==
    ASSUME IInv, TidyPlans, NEW p \in Processes, p \notin frozen, StepOf(p),
           NEW q \in Processes \ {p}
    PROVE  TidyPlan(q)'
<1>1. Untouched(q) /\ TidyPlan(q)
  BY Elsewhere DEF IInv, TidyPlans
<1>2. CASE Truth(q)' = Truth(q) /\ Marked(q)' = Marked(q)
  BY <1>1, <1>2 DEF TidyPlan, Untouched, Tidy
<1>3. ASSUME Commits(p), holder # q PROVE TidyPlan(q)'
  <2>1. pc[q] \notin Active
    BY <1>3 DEF IInv, Turns
  <2>2. Tidy(Truth(q)) /\ Tidy(Marked(q))
    BY <2>1, TidyNow DEF Active
  <2>3. Tidy(Truth(p))
    BY <1>3, OwnTidy DEF Commits
  <2>4. Truth(q)' \in {Truth(q), Truth(p)} /\ Marked(q)' \in {Marked(q), Truth(p)}
    BY <1>3, CommitViews DEF IInv
  <2>5. Tidy(Truth(q)') /\ Tidy(Marked(q)')
    BY <2>2, <2>3, <2>4
  <2> QED BY <1>1, <2>1, <2>5 DEF TidyPlan, Untouched, Active, Tidy
<1>4. ASSUME Commits(p), holder = q PROVE Truth(q)' = Truth(q) /\ Marked(q)' = Marked(q)
  BY <1>4, CommitViews DEF IInv
<1>5. ASSUME Stays(p) \/ GoesBack(p) PROVE Truth(q)' = Truth(q) /\ Marked(q)' = Marked(q)
  BY <1>5, StillViews, BackViews DEF IInv
<1>6. ASSUME NEW op \in todo[p], Run(p, op) PROVE Truth(q)' = Truth(q) /\ Marked(q)' = Marked(q)
  BY <1>6, RunViews
<1>7. \/ Stays(p) \/ GoesBack(p) \/ Commits(p)
      \/ \E op \in todo[p] : Run(p, op)
  BY EachStep DEF StepOf
<1> QED BY <1>2, <1>3, <1>4, <1>5, <1>6, <1>7

LEMMA MoreIsTidy ==
    ASSUME NEW f, NEW g, Tidy(f), NEW t \in Things, t.kind = "label",
           \A u \in Things : f[u] \in Int, f[t] = 0,
           \A u \in Things : g[u] = IF u = t THEN 1 ELSE f[u]
    PROVE  Tidy(g)
<1>1. \A u \in Things : /\ u # t => g[u] = f[u]
                        /\ f[u] > 0 => g[u] > 0
                        /\ u.kind # "label" => g[u] = f[u]
  OBVIOUS
<1>2. \A u \in Things \ Altered : g[u] <= 1
  BY DEF Tidy
<1>3. \A u, v \in Things \ Altered :
         u.kind = "index" /\ Same(u, v) /\ u # v => g[u] = 0 \/ g[v] = 0
  BY <1>1, SameIs DEF Tidy
<1>4. ASSUME NEW u \in Things, u.kind = "column", g[u] > 0
      PROVE  \E l \in Things : l.kind = "label" /\ l.label = u.label /\ g[l] > 0
  <2>1. PICK l \in Things : l.kind = "label" /\ l.label = u.label /\ f[l] > 0
    BY <1>1, <1>4 DEF Tidy
  <2> QED BY <1>1, <2>1
<1> QED BY <1>2, <1>3, <1>4 DEF Tidy

LEMMA WriteTidy ==
    ASSUME IInv, TidyPlans, NEW t \in Things, WriteMakes(t)
    PROVE  TidyPlans'
<1>1. /\ t.kind = "label" /\ catalog[t] = 0 /\ catalog' = [catalog EXCEPT ![t] = 1]
      /\ \A q \in Processes : \A u \in Things :
            /\ Truth(q)'[u] = IF u = t THEN 1 ELSE Truth(q)[u]
            /\ Marked(q)'[u] = IF u = t THEN 1 ELSE Marked(q)[u]
            /\ Truth(q)[t] = 0 /\ Marked(q)[t] = 0
  BY WriteViews
<1>2. /\ pc' = pc /\ call' = call /\ todo' = todo
      /\ catalog \in [Things -> Nat]
  BY DEF WriteMakes, local, IInv, TypeOK
<1>3. Tidy(catalog')
  <2>1. \A u \in Things : catalog'[u] = IF u = t THEN 1 ELSE catalog[u]
    BY <1>1, <1>2
  <2>2. \A u \in Things : catalog[u] \in Int
    BY <1>2
  <2>3. Tidy(catalog)
    BY DEF TidyPlans
  <2>4. t.kind = "label" /\ catalog[t] = 0
    BY <1>1
  <2>5. \A g : (\A u \in Things : g[u] = IF u = t THEN 1 ELSE catalog[u]) => Tidy(g)
    BY <2>2, <2>3, <2>4, MoreIsTidy
  <2> QED BY <2>1, <2>5
<1>4. ASSUME NEW q \in Processes PROVE TidyPlan(q)'
  <2>1. TidyPlan(q) /\ \A u \in Things : Truth(q)[u] \in Int /\ Marked(q)[u] \in Int
    BY ViewTypes DEF IInv, TidyPlans
  <2>2. Tidy(Marked(q)')
    BY <1>1, <2>1, MoreIsTidy DEF TidyPlan
  <2>3. Tidy(Truth(q)) => Tidy(Truth(q)')
    BY <1>1, <2>1, MoreIsTidy
  <2>4. PlanIsTidy(q, todo[q]) => PlanIsTidy(q, todo[q])'
    <3>1. \A u \in Things : /\ Truth(q)[u] > 0 => Truth(q)'[u] > 0
                            /\ u.kind = "index" => Truth(q)'[u] = Truth(q)[u]
      BY <1>1
    <3> QED BY <1>2, <3>1, SameIs DEF PlanIsTidy
  <2>5. pc'[q] = pc[q] /\ call'[q] = call[q]
    BY <1>2
  <2> QED BY <2>1, <2>2, <2>3, <2>4, <2>5 DEF TidyPlan, Tidy, PlanIsTidy
<1> QED BY <1>3, <1>4 DEF TidyPlans, Tidy

LEMMA StepTidy == IInv /\ frozen = {} /\ TidyPlans /\ [Next]_vars => TidyPlans'
<1> SUFFICES ASSUME IInv, frozen = {}, TidyPlans, [Next]_vars PROVE TidyPlans'
  OBVIOUS
<1>1. ASSUME NEW p \in Processes, StepOf(p) PROVE TidyPlans'
  <2>1. TidyPlan(p)' /\ Tidy(catalog')
    BY <1>1, OwnTidy
  <2>2. \A q \in Processes \ {p} : TidyPlan(q)'
    BY <1>1, OthersTidy
  <2> QED BY <2>1, <2>2 DEF TidyPlans, Tidy
<1>2. CASE UNCHANGED vars
  <2>1. /\ UNCHANGED <<catalog, change, pc, call, todo, mark>>
    BY <1>2 DEF vars, local
  <2>2. \A p \in Processes : Truth(p)' = Truth(p) /\ Marked(p)' = Marked(p)
    BY <2>1 DEF Truth, Marked, Plus
  <2>3. \A p \in Processes : TidyPlan(p)'
    BY <2>1, <2>2 DEF TidyPlans, TidyPlan, Tidy
  <2> QED BY <2>1, <2>3 DEF TidyPlans, Tidy
<1> QED BY <1>1, <1>2, WriteTidy DEF Next, StepOf

LEMMA InitTidy == Init /\ OneOverAKey(Existing) => TidyPlans
<1> SUFFICES ASSUME Init, OneOverAKey(Existing) PROVE TidyPlans
  OBVIOUS
<1>1. \A t \in Things : catalog[t] = IF t \in Existing THEN 1 ELSE 0
  BY DEF Init
<1>2. /\ catalog \in [Things -> Int] /\ Existing \subseteq Things
      /\ \A p \in Processes : change[p] = Nothing /\ mark[p] = Blank /\ pc[p] = "idle"
  BY DEF Init, Things
<1>3. Tidy(catalog)
  <2>1. \A t \in Things : t.kind = "column" /\ catalog[t] > 0 =>
           \E l \in Things : l.kind = "label" /\ l.label = t.label /\ catalog[l] > 0
    BY <1>1, <1>2, SchemaAssumption DEF SchemaAssumption, Labelled
  <2>2. \A t, u \in Things \ Altered :
           t.kind = "index" /\ Same(t, u) /\ t # u => catalog[t] = 0 \/ catalog[u] = 0
    BY <1>1 DEF OneOverAKey
  <2>3. \A t \in Things \ Altered : catalog[t] <= 1
    BY <1>1
  <2> QED BY <2>1, <2>2, <2>3 DEF Tidy
<1>4. \A p \in Processes : Truth(p) = catalog /\ Marked(p) = catalog
  BY <1>2, PlusNothing, NothingType DEF Truth, Marked
<1> QED BY <1>2, <1>3, <1>4 DEF TidyPlans, TidyPlan

-----------------------------------------------------------------------------
(* Two calls never run their statements at once: whoever has the plan made *)
(* again under schema_lock is alone with it until the transaction around   *)
(* the call is over, and so is whoever has changed anything.               *)
OneAtATime ==
    \A p, q \in Processes : p # q =>
        /\ ~(pc[p] \in Active /\ pc[q] \in Active)
        /\ change[p] = Nothing \/ change[q] = Nothing

(* One call at a time under the lock, for any number of processes.         *)
THEOREM LockIsExclusive == Spec => []OneAtATime
<1>1. IInv => OneAtATime
  BY DEF IInv, Turns, OneAtATime
<1> QED BY <1>1, Invariance, PTL

(* A call reaches only what it names (for_labels): what no call asks to be *)
(* dropped or made otherwise is there in every state.                      *)
THEOREM NothingElseReached == Spec => []OthersKept
<1>1. IInv => OthersKept
  BY DEF IInv, SoundViews, Sound, OthersKept
<1> QED BY <1>1, Invariance, PTL

(* _settled raises on what the catalog prints otherwise than it was asked  *)
(* for, and the statements that made it go with the block.                 *)
THEOREM UnsettledIsUndone == Spec => []UnsettledLeavesNothing
<1>1. IInv => UnsettledLeavesNothing
  BY SchemaAssumption DEF SchemaAssumption, IInv, OtherwiseRead, UnsettledLeavesNothing
<1> QED BY <1>1, Invariance, PTL

(* A reconciling call that returns has what it asked for in the catalog it *)
(* commits, whatever others did before and while it waited for the lock -  *)
(* but for the columns of a label that a write made in the meantime.       *)
THEOREM WantedIsThere == Spec => AskedForIsThere
<1>1. ASSUME IInv, NEW p \in Processes \ frozen, Leave(p), NEW t \in call[p].wants \ Altered
      PROVE  \/ Truth(p)[t] > 0
             \/ t.kind = "column" /\ \E u \in overtaken : u.label = t.label
  <2>1. pc[p] = "leaving" /\ OnItsWay(p) /\ todo[p] = {}
    BY <1>1 DEF Leave, IInv, FreshPlans, Planned
  <2> QED BY <1>1, <2>1 DEF OnItsWay
<1>2. IInv /\ [Next]_vars =>
        [\A p \in Processes \ frozen : Leave(p) =>
           \A t \in call[p].wants \ Altered :
              \/ Truth(p)[t] > 0
              \/ t.kind = "column" /\ \E u \in overtaken : u.label = t.label]_vars
  BY <1>1
<1> QED BY <1>2, Invariance, PTL DEF Spec, AskedForIsThere

-----------------------------------------------------------------------------
(* A statement of one that reads what is there is refused only for a       *)
(* column, whose reading is as old as the call.                            *)
LEMMA StepRefused == IInv /\ OnlyColumnsRefused /\ [Next]_vars => OnlyColumnsRefused'
<1> SUFFICES ASSUME IInv, OnlyColumnsRefused, [Next]_vars PROVE OnlyColumnsRefused'
  OBVIOUS
<1>1. ASSUME NEW p \in Processes, NEW op \in todo[p], RunRefused(p, op),
             p \notin frozen
      PROVE  op.thing.kind = "column"
  <2>1. /\ Turn(p, op) /\ Refused(p, op) /\ pc[p] = "running" /\ FreshPlan(p)
        /\ op \in Ops
    BY <1>1 DEF RunRefused, Turn, IInv, FreshPlans, TypeOK
  <2>2. op.do # "drop"
    <3>1. op.do = "drop" => Truth(p)[op.thing] > 0
      BY <2>1 DEF FreshPlan
    <3>2. op.do # "drop" \/ Truth(p)[op.thing] # 0
      BY <3>1
    <3> QED BY <2>1, <3>2 DEF Refused
  <2>3. PICK t \in Things : Same(t, op.thing) /\ Truth(p)[t] > 0
    BY <2>1, <2>2 DEF Refused
  <2>4. op.do = "create" /\ op.thing.kind \in {"column", "constraint"}
    BY <2>1, <2>2 DEF Refused
  <2>5. ASSUME op.thing.kind = "constraint" PROVE FALSE
    <3>1. Drop(t) \in todo[p]
      BY <2>1, <2>3, <2>4, <2>5 DEF FreshPlan
    <3>2. ~Same(Drop(t).thing, op.thing)
      BY <2>1, <2>4, <3>1, OpsType DEF Turn
    <3> QED BY <2>3, <3>2, OpsType
  <2> QED BY <2>4, <2>5
<1>2. ASSUME NEW p \in Processes, NEW op \in todo[p], RunRefused(p, op)
      PROVE  OnlyColumnsRefused'
  <2>1. /\ refused' = refused \cup {<<p, op.thing.kind>>} /\ frozen' = frozen
    BY <1>2 DEF RunRefused, Fail
  <2>2. p \in frozen \/ op.thing.kind = "column"
    BY <1>1, <1>2
  <2> QED BY <2>1, <2>2 DEF OnlyColumnsRefused
<1>3. ASSUME NEW p \in Processes, StepOf(p) PROVE frozen' = frozen
  BY <1>3, Elsewhere DEF IInv
<1>4. ASSUME NEW p \in Processes, StepOf(p), refused' = refused PROVE OnlyColumnsRefused'
  BY <1>3, <1>4 DEF OnlyColumnsRefused
<1>5. ASSUME NEW p \in Processes, StepOf(p)
      PROVE  refused' = refused \/ \E op \in todo[p] : RunRefused(p, op)
  BY <1>5 DEF StepOf, Ensure, Declare, Plan, Wait, Lock, Replan, Run, Settle, SettleRaises, Leave,
              Lose, EndOuter, history
<1>6. ASSUME NEW t \in Things, WriteMakes(t) PROVE OnlyColumnsRefused'
  BY <1>6 DEF WriteMakes, OnlyColumnsRefused
<1>7. CASE UNCHANGED vars
  BY <1>7 DEF vars, history, OnlyColumnsRefused
<1> QED BY <1>2, <1>4, <1>5, <1>6, <1>7 DEF Next, StepOf

(* Two that reconcile one graph take turns: nothing is made twice, and     *)
(* neither is refused what the other came first with.                      *)
THEOREM TurnsTaken == Spec => []TakeTurns
<1>1. Spec => []OnlyColumnsRefused
  <2>1. Init => OnlyColumnsRefused
    BY DEF Init, OnlyColumnsRefused
  <2> QED BY <2>1, StepRefused, Invariance, PTL DEF Spec
<1> DEFINE Kept == frozen = {} /\ OneOverAKey(Existing) => TidyPlans
<1>2. Spec => []Kept
  <2>1. Init => Kept
    BY InitTidy
  <2>2. IInv /\ Kept /\ [Next]_vars => Kept'
    <3>1. IInv /\ [Next]_vars => frozen' = frozen
      BY Elsewhere DEF IInv, Next, StepOf, WriteMakes, vars
    <3> QED BY <3>1, StepTidy DEF OneOverAKey
  <2> HIDE DEF Kept
  <2> QED BY <2>1, <2>2, Invariance, PTL DEF Spec
<1>3. IInv /\ Kept => NothingTwice
  <2> SUFFICES ASSUME IInv, TidyPlans, NEW t \in Things PROVE catalog[t] <= 1
    BY DEF NothingTwice, Afresh
  <2>1. CASE t \in Altered
    BY <2>1 DEF IInv, OtherwiseRead
  <2>2. CASE t \notin Altered
    BY <2>2 DEF TidyPlans, Tidy
  <2> QED BY <2>1, <2>2
<1>4. IInv /\ Kept /\ OnlyColumnsRefused => TakeTurns
  BY <1>3 DEF TakeTurns
<1> HIDE DEF Kept
<1> QED BY <1>1, <1>2, <1>4, Invariance, PTL

-----------------------------------------------------------------------------
(* VectorStorage.  Who has the lock, and what has been made under it.      *)
Held == \A p \in Sessions : at[p] \in {"looking", "making", "left"} <=> locked = p
Called == \A p \in Sessions : at[p] # "idle" => storage[p] \in Storages

(* What is made was not there, and has what it needs; nobody else makes it *)
(* before it is committed.                                                 *)
OnlyMade(p) ==
    /\ at[p] \in {"making", "left"}
    /\ "label" \in made => ~held.label
    /\ "table" \in made => held.table = NoType
    /\ "index" \in made =>
          /\ IndexOf(held, storage[p]) = NoIndex
          /\ storage[p].design = "table" => held.table # NoType \/ "table" \in made
          /\ storage[p].design # "table" => held.label \/ "label" \in made
Making == made # {} => \E p \in Sessions : locked = p /\ OnlyMade(p)

(* What was answered in a transaction still open will be there with it.    *)
Answered ==
    \A p \in Sessions :
        made # {} /\ at[p] = "left" /\ answer[p] = "ready" => IsThere(SeenBy(p), storage[p])

(* What is not there has nothing of its own; a key keeps strangers out.    *)
Consistent(c) ==
    /\ ~c.label => c.column = NoType /\ c.onLabel = NoIndex
    /\ c.table = NoType => ~c.keyed /\ c.onTable = NoIndex
Keyed ==
    /\ held.table = NoType => rows = {}
    /\ held.keyed => strange = {} /\ rows \subseteq vertices

VectorInv ==
    /\ VectorTypeOK /\ Held /\ Called /\ Making /\ Answered /\ Consistent(held) /\ Keyed
    /\ VectorsAreThere

-----------------------------------------------------------------------------
(* The catalog, and what one statement makes of it.                        *)
Catalog == [column : Types, keyed : BOOLEAN, label : BOOLEAN, onLabel : Indexes,
            onTable : Indexes, table : Types]

LEMMA StorageType ==
    ASSUME NEW s \in Storages
    PROVE  /\ s.design \in {"column", "property", "table"} /\ s.indexed \in BOOLEAN
           /\ s.typed \in Types /\ s.typed # NoType
           /\ ShapeOf(s) \in Indexes /\ ShapeOf(s) # NoIndex /\ NoIndex \in Indexes /\ NoType \in Types
BY VectorStorageAssumption DEF VectorStorageAssumption, IsStorage, Types, Indexes, ShapeOf, NoIndex

LEMMA WithAs ==
    ASSUME NEW c, NEW s
    PROVE  /\ With(c, "label", s) =
                  [c EXCEPT !.label = TRUE,
                            !.column = IF s.design = "column" THEN s.typed ELSE NoType]
           /\ With(c, "table", s) = [c EXCEPT !.table = s.typed, !.keyed = TRUE]
           /\ s.design = "table" => With(c, "index", s) = [c EXCEPT !.onTable = ShapeOf(s)]
           /\ s.design # "table" => With(c, "index", s) = [c EXCEPT !.onLabel = ShapeOf(s)]
BY DEF With

LEMMA StandsAs ==
    ASSUME NEW c, NEW s
    PROVE  /\ Stands(c, "label", s) = c.label
           /\ Stands(c, "table", s) = (c.table # NoType)
           /\ Stands(c, "index", s) = (IndexOf(c, s) # NoIndex)
BY DEF Stands

LEMMA FoundAs ==
    ASSUME NEW c \in Catalog, NEW s \in Storages, Found(c, s) = "ready"
    PROVE  IsThere(c, s)
<1>1. ASSUME StateOfIndex(c, s) = "ready", s.indexed PROVE IndexOf(c, s) = ShapeOf(s)
  <2>1. IndexOf(c, s) # NoIndex /\ SameIndex(IndexOf(c, s), s)
    BY <1>1 DEF StateOfIndex
  <2>2. IndexOf(c, s) \in Indexes
    BY DEF IndexOf, Catalog
  <2>3. PICK t \in Storages : IndexOf(c, s) = ShapeOf(t)
    BY <2>1, <2>2 DEF Indexes
  <2>4. /\ t.distance = s.distance
        /\ (t.design = "property") = (s.design = "property")
        /\ t.design = "property" => t.typed = s.typed
    <3>1. /\ ShapeOf(t).distance = t.distance
          /\ ShapeOf(t).cast = (t.design = "property")
          /\ t.design = "property" => ShapeOf(t).typed = t.typed
      BY DEF ShapeOf
    <3>2. /\ ShapeOf(t).distance = s.distance /\ ShapeOf(t).cast = (s.design = "property")
          /\ ShapeOf(t).cast => ShapeOf(t).typed = s.typed
      BY <2>1, <2>3 DEF SameIndex
    <3>3. (t.design = "property") = (s.design = "property")
      BY <3>1, <3>2
    <3> QED BY <3>1, <3>2, <3>3
  <2>5. ShapeOf(t) = ShapeOf(s)
    <3>1. CASE t.design = "property"
      BY <2>4, <3>1 DEF ShapeOf
    <3>2. CASE t.design # "property"
      BY <2>4, <3>2 DEF ShapeOf
    <3> QED BY <3>1, <3>2
  <2> QED BY <2>3, <2>5
<1>2. CASE s.design = "table"
  <2>1. c.table = s.typed /\ c.keyed /\ StateOfIndex(c, s) = "ready"
    BY <1>2 DEF Found, FoundInTable
  <2> QED BY <1>1, <1>2, <2>1 DEF IsThere
<1>3. CASE s.design # "table"
  <2>1. c.label /\ (s.design = "column" => c.column = s.typed) /\ StateOfIndex(c, s) = "ready"
    BY <1>3 DEF Found, FoundInProperties
  <2> QED BY <1>1, <1>3, <2>1 DEF IsThere
<1> QED BY <1>2, <1>3

(* What the catalog holds with some of it made.                            *)
LEMMA AllAs ==
    ASSUME NEW c \in Catalog, NEW done, NEW s \in Storages
    PROVE  /\ WithAll(c, done, s) \in Catalog
           /\ WithAll(c, done, s).label = (c.label \/ "label" \in done)
           /\ WithAll(c, done, s).column = IF "label" \in done
                                 THEN IF s.design = "column" THEN s.typed ELSE NoType
                                 ELSE c.column
           /\ WithAll(c, done, s).table = IF "table" \in done THEN s.typed ELSE c.table
           /\ WithAll(c, done, s).keyed = (c.keyed \/ "table" \in done)
           /\ WithAll(c, done, s).onTable = IF "index" \in done /\ s.design = "table"
                                  THEN ShapeOf(s) ELSE c.onTable
           /\ WithAll(c, done, s).onLabel = IF "index" \in done /\ s.design # "table"
                                  THEN ShapeOf(s) ELSE c.onLabel
<1> DEFINE Onto(d, what) == IF what \in done THEN With(d, what, s) ELSE d
           c1 == Onto(c, "label")
           c2 == Onto(c1, "table")
           c3 == Onto(c2, "index")
<1>1. WithAll(c, done, s) = c3
  BY DEF WithAll
<1>2. s \in Storages /\ s.typed \in Types /\ NoType \in Types /\ ShapeOf(s) \in Indexes
  BY StorageType
<1>3. /\ c1 \in Catalog
      /\ c1.label = (c.label \/ "label" \in done)
      /\ c1.column = IF "label" \in done
                     THEN IF s.design = "column" THEN s.typed ELSE NoType
                     ELSE c.column
      /\ c1.table = c.table /\ c1.keyed = c.keyed
      /\ c1.onTable = c.onTable /\ c1.onLabel = c.onLabel
  <2>1. CASE "label" \in done
    <3>1. c1 = [c EXCEPT !.label = TRUE,
                            !.column = IF s.design = "column" THEN s.typed ELSE NoType]
      BY <2>1, WithAs
    <3> QED BY <1>2, <2>1, <3>1 DEF Catalog
  <2>2. CASE "label" \notin done
    <3>1. c1 = c
      BY <2>2
    <3> QED BY <2>2, <3>1 DEF Catalog
  <2> QED BY <2>1, <2>2
<1> HIDE DEF c1
<1>4. /\ c2 \in Catalog
      /\ c2.table = IF "table" \in done THEN s.typed ELSE c1.table
      /\ c2.keyed = (c1.keyed \/ "table" \in done)
      /\ c2.label = c1.label /\ c2.column = c1.column
      /\ c2.onTable = c1.onTable /\ c2.onLabel = c1.onLabel
  <2>1. CASE "table" \in done
    <3>1. c2 = [c1 EXCEPT !.table = s.typed, !.keyed = TRUE]
      BY <2>1, WithAs
    <3> QED BY <1>2, <1>3, <2>1, <3>1 DEF Catalog
  <2>2. CASE "table" \notin done
    <3>1. c2 = c1
      BY <2>2
    <3> QED BY <1>3, <2>2, <3>1 DEF Catalog
  <2> QED BY <2>1, <2>2
<1> HIDE DEF c2
<1>5. /\ c3 \in Catalog
      /\ c3.onTable = IF "index" \in done /\ s.design = "table" THEN ShapeOf(s) ELSE c2.onTable
      /\ c3.onLabel = IF "index" \in done /\ s.design # "table" THEN ShapeOf(s) ELSE c2.onLabel
      /\ c3.label = c2.label /\ c3.column = c2.column
      /\ c3.table = c2.table /\ c3.keyed = c2.keyed
  <2>1. CASE "index" \in done /\ s.design = "table"
    <3>1. c3 = [c2 EXCEPT !.onTable = ShapeOf(s)]
      BY <2>1, WithAs
    <3> QED BY <1>2, <1>4, <2>1, <3>1 DEF Catalog
  <2>2. CASE "index" \in done /\ s.design # "table"
    <3>1. c3 = [c2 EXCEPT !.onLabel = ShapeOf(s)]
      BY <2>2, WithAs
    <3> QED BY <1>2, <1>4, <2>2, <3>1 DEF Catalog
  <2>3. CASE "index" \notin done
    <3>1. c3 = c2
      BY <2>3
    <3> QED BY <1>4, <2>3, <3>1
  <2> QED BY <2>1, <2>2, <2>3
<1> HIDE DEF c3
<1> QED BY <1>1, <1>3, <1>4, <1>5

(* What the holder of the lock sees: what is committed, and what it made.  *)
LEMMA SeenAs ==
    ASSUME NEW p, locked = p, held \in Catalog, storage[p] \in Storages
    PROVE  /\ SeenBy(p) \in Catalog
           /\ SeenBy(p).label = (held.label \/ "label" \in made)
           /\ SeenBy(p).column = IF "label" \in made
                                 THEN IF storage[p].design = "column" THEN storage[p].typed ELSE NoType
                                 ELSE held.column
           /\ SeenBy(p).table = IF "table" \in made THEN storage[p].typed ELSE held.table
           /\ SeenBy(p).keyed = (held.keyed \/ "table" \in made)
           /\ SeenBy(p).onTable = IF "index" \in made /\ storage[p].design = "table"
                                  THEN ShapeOf(storage[p]) ELSE held.onTable
           /\ SeenBy(p).onLabel = IF "index" \in made /\ storage[p].design # "table"
                                  THEN ShapeOf(storage[p]) ELSE held.onLabel
<1>1. SeenBy(p) = WithAll(held, made, storage[p])
  BY DEF SeenBy
<1> QED BY <1>1, AllAs

LEMMA SeenKept ==
    ASSUME NEW p, locked = p, UNCHANGED <<held, made, locked>>, storage'[p] = storage[p]
    PROVE  SeenBy(p)' = SeenBy(p)
BY DEF SeenBy, WithAll, With, ShapeOf

-----------------------------------------------------------------------------
LEMMA InitVectors == VectorInit => VectorInv
<1> SUFFICES ASSUME VectorInit PROVE VectorInv
  OBVIOUS
<1> USE DEF VectorInit
<1>1. VectorTypeOK
  <2>1. NoType \in Types /\ NoIndex \in Indexes /\ <<>> \in Seq({"label", "table", "index"})
    BY DEF Types, Indexes
  <2> QED BY <2>1 DEF VectorTypeOK
<1>2. Held /\ Called
  BY VectorStorageAssumption DEF VectorStorageAssumption, Held, Called
<1>3. Making /\ Answered /\ Consistent(held) /\ Keyed /\ VectorsAreThere
  BY DEF Making, Answered, Consistent, Keyed, VectorsAreThere
<1> QED BY <1>1, <1>2, <1>3 DEF VectorInv

(* A step of a call that changes what the call is about to do.             *)
LEMMA StepOn ==
    ASSUME VectorInv, NEW p \in Sessions, NEW step,
           UNCHANGED <<held, made, locked, elements, away, answer, ready>>,
           at' = [at EXCEPT ![p] = step],
           step \in {"probing", "waiting", "making", "inspecting", "building"},
           at[p] \in {"idle", "probing", "looking", "inspecting"},
           step = "making" <=> at[p] = "looking",
           storage' \in [Sessions -> Storages \cup {NoStorage}], storage'[p] \in Storages,
           \A q \in Sessions \ {p} : storage'[q] = storage[q],
           whole' \in [Sessions -> BOOLEAN],
           steps' \in [Sessions -> Seq({"label", "table", "index"})]
    PROVE  VectorInv'
<1>1. at \in [Sessions -> {"idle", "probing", "waiting", "looking", "making", "left",
                           "inspecting", "building"}]
  BY DEF VectorInv, VectorTypeOK
<1>2. VectorTypeOK'
  BY <1>1 DEF VectorInv, VectorTypeOK, elements
<1>3. Held' /\ Called'
  BY <1>1 DEF VectorInv, Held, Called
<1>4. Making'
  <2> SUFFICES ASSUME made # {} PROVE \E q \in Sessions : locked = q /\ OnlyMade(q)'
    BY DEF Making
  <2>1. PICK q \in Sessions : locked = q /\ OnlyMade(q)
    BY DEF VectorInv, Making
  <2>2. q # p /\ at'[q] = at[q] /\ storage'[q] = storage[q]
    BY <1>1, <2>1 DEF OnlyMade
  <2> QED BY <2>1, <2>2 DEF OnlyMade, IndexOf
<1>5. Answered'
  <2> SUFFICES ASSUME NEW q \in Sessions, made # {}, at'[q] = "left", answer[q] = "ready"
               PROVE  IsThere(SeenBy(q), storage[q])'
    BY DEF Answered
  <2>1. q # p /\ at[q] = "left" /\ storage'[q] = storage[q]
    BY <1>1
  <2>2. locked = q /\ IsThere(SeenBy(q), storage[q])
    BY <2>1 DEF VectorInv, Held, Answered
  <2> QED BY <2>1, <2>2, SeenKept DEF IsThere, IndexOf, ShapeOf
<1>6. Consistent(held)' /\ Keyed' /\ VectorsAreThere'
  BY DEF VectorInv, Consistent, Keyed, VectorsAreThere, elements, IsThere, IndexOf, ShapeOf
<1> QED BY <1>2, <1>3, <1>4, <1>5, <1>6 DEF VectorInv

(* A call that ends without having written.                                *)
LEMMA StepOver ==
    ASSUME VectorInv, NEW p \in Sessions, Over(p), UNCHANGED <<held, elements>>,
           made' = IF locked = p THEN {} ELSE made,
           locked' = IF locked = p THEN NoSession ELSE locked,
           ready' \subseteq Storages, \A s \in ready' : IsThere(held, s)
    PROVE  VectorInv'
<1>1. at \in [Sessions -> {"idle", "probing", "waiting", "looking", "making", "left",
                           "inspecting", "building"}]
  BY DEF VectorInv, VectorTypeOK
<1>2. /\ at' = [at EXCEPT ![p] = "idle"] /\ storage' = [storage EXCEPT ![p] = NoStorage]
      /\ whole' = [whole EXCEPT ![p] = FALSE] /\ steps' = [steps EXCEPT ![p] = <<>>]
      /\ answer' = [answer EXCEPT ![p] = "none"] /\ away' = away
  BY DEF Over, ToStep
<1>3. VectorTypeOK'
  <2>1. <<>> \in Seq({"label", "table", "index"})
    OBVIOUS
  <2> QED BY <1>1, <1>2, <2>1 DEF VectorInv, VectorTypeOK, elements
<1>4. Held' /\ Called'
  BY <1>1, <1>2, VectorStorageAssumption
     DEF VectorInv, VectorTypeOK, Held, Called, VectorStorageAssumption
<1>5. Making'
  <2> SUFFICES ASSUME made' # {} PROVE \E q \in Sessions : locked' = q /\ OnlyMade(q)'
    BY DEF Making
  <2>1. PICK q \in Sessions : locked = q /\ OnlyMade(q)
    BY DEF VectorInv, Making
  <2>2. locked # p /\ made' = made /\ locked' = locked /\ q # p
    BY <2>1
  <2>3. at'[q] = at[q] /\ storage'[q] = storage[q]
    BY <1>1, <1>2, <2>2 DEF VectorInv, VectorTypeOK
  <2> QED BY <2>1, <2>2, <2>3 DEF OnlyMade, IndexOf
<1>6. Answered'
  <2> SUFFICES ASSUME NEW q \in Sessions, made' # {}, at'[q] = "left", answer'[q] = "ready"
               PROVE  IsThere(SeenBy(q), storage[q])'
    BY DEF Answered
  <2>1. q # p /\ at[q] = "left"
    BY <1>1, <1>2
  <2>2. storage'[q] = storage[q] /\ answer[q] = "ready"
    BY <1>2, <2>1 DEF VectorInv, VectorTypeOK
  <2>3. locked # p /\ UNCHANGED <<made, locked>>
    OBVIOUS
  <2>4. locked = q /\ IsThere(SeenBy(q), storage[q])
    BY <2>1, <2>2, <2>3 DEF VectorInv, Held, Answered
  <2> QED BY <2>2, <2>3, <2>4, SeenKept DEF IsThere, IndexOf, ShapeOf
<1>7. Consistent(held)' /\ Keyed'
  BY DEF VectorInv, Consistent, Keyed, elements
<1>8. VectorsAreThere'
  BY DEF VectorsAreThere, IsThere, IndexOf, ShapeOf
<1> QED BY <1>3, <1>4, <1>5, <1>6, <1>7, <1>8 DEF VectorInv

LEMMA StepRolledBack ==
    ASSUME VectorInv, NEW p \in Sessions, RolledBack(p)
    PROVE  VectorInv'
BY StepOver DEF RolledBack, VectorInv, VectorTypeOK, VectorsAreThere

(* A change of what is committed, while nothing is made under the lock.    *)
LEMMA StepCommitted ==
    ASSUME VectorInv, made = {}, UNCHANGED <<made, locked, sessions>>,
           held' \in Catalog, vertices' \subseteq given', given' \subseteq Ids, rows' \subseteq Ids,
           strange' \subseteq rows', Consistent(held)', Keyed', ready' \subseteq Storages,
           \A s \in ready' : IsThere(held', s)
    PROVE  VectorInv'
<1> USE DEF sessions
<1>1. VectorTypeOK'
  BY DEF VectorInv, VectorTypeOK, Catalog
<1>2. Held' /\ Called'
  BY DEF VectorInv, Held, Called
<1>3. Making' /\ Answered'
  BY DEF Making, Answered
<1>4. VectorsAreThere'
  BY DEF VectorsAreThere, IsThere, IndexOf, ShapeOf
<1> QED BY <1>1, <1>2, <1>3, <1>4 DEF VectorInv

-----------------------------------------------------------------------------
(* The steps of a call.                                                    *)
LEMMA StepCall ==
    ASSUME VectorInv, NEW p \in Sessions, NEW s \in Storages, NEW index \in BOOLEAN,
           NEW step \in {"probing", "inspecting"}, Call(p, s, step, index)
    PROVE  VectorInv'
<1>1. /\ UNCHANGED <<held, made, locked, elements, away, steps, answer, ready>>
      /\ at[p] = "idle" /\ at' = [at EXCEPT ![p] = step]
      /\ storage' = [storage EXCEPT ![p] = s] /\ whole' = [whole EXCEPT ![p] = index /\ s.indexed]
  BY DEF Call, ToStep
<1>2. s.indexed \in BOOLEAN
  BY StorageType
<1>3. /\ storage' \in [Sessions -> Storages \cup {NoStorage}] /\ storage'[p] \in Storages
      /\ \A q \in Sessions \ {p} : storage'[q] = storage[q]
      /\ steps' \in [Sessions -> Seq({"label", "table", "index"})]
  BY <1>1 DEF VectorInv, VectorTypeOK
<1>4. whole' \in [Sessions -> BOOLEAN]
  BY <1>1, <1>2 DEF VectorInv, VectorTypeOK
<1> QED BY <1>1, <1>3, <1>4, StepOn

LEMMA MissingType ==
    ASSUME NEW c, NEW s, NEW index
    PROVE  Missing(c, s, index) \in Seq({"label", "table", "index"})
<1> DEFINE S == Seq({"label", "table", "index"})
           a == IF c.label THEN <<>> ELSE <<"label">>
           b == IF s.design = "table" /\ c.table = NoType THEN <<"table">> ELSE <<>>
           d == IF index /\ IndexOf(c, s) = NoIndex THEN <<"index">> ELSE <<>>
<1>1. a \in S /\ b \in S /\ d \in S
  <2>1. <<>> \in S /\ <<"label">> \in S /\ <<"table">> \in S /\ <<"index">> \in S
    OBVIOUS
  <2> QED BY <2>1
<1> HIDE DEF a, b, d
<1>2. (a \o b) \o d \in S
  BY <1>1
<1> QED BY <1>2 DEF Missing, Creating, a, b, d

(* A call that goes on to its next step and leaves the rest alone.         *)
LEMMA StepNext ==
    ASSUME VectorInv, NEW p \in Sessions, NEW step, at' = [at EXCEPT ![p] = step],
           UNCHANGED <<held, made, locked, elements, away, storage, whole, answer, ready>>,
           step \in {"waiting", "making", "building"}, at[p] \in {"probing", "looking", "inspecting"},
           step = "making" <=> at[p] = "looking",
           steps' \in [Sessions -> Seq({"label", "table", "index"})]
    PROVE  VectorInv'
<1>1. storage[p] \in Storages
  BY DEF VectorInv, Called
<1>2. storage \in [Sessions -> Storages \cup {NoStorage}] /\ whole \in [Sessions -> BOOLEAN]
  BY DEF VectorInv, VectorTypeOK
<1> QED BY <1>1, <1>2, StepOn

LEMMA StepProbe ==
    ASSUME VectorInv, NEW p \in Sessions, Probe(p)
    PROVE  VectorInv'
<1>1. at[p] = "probing" /\ storage[p] \in Storages /\ locked # p /\ held \in Catalog
  BY DEF Probe, VectorInv, VectorTypeOK, Called, Held, Catalog
<1>2. CASE RolledBack(p)
  BY <1>2, StepRolledBack
<1>3. ASSUME ready' = IF Found(held, storage[p]) = "ready" THEN ready \cup {storage[p]} ELSE ready,
             Over(p), UNCHANGED <<held, made, locked, elements>>
      PROVE  VectorInv'
  <2>1. Found(held, storage[p]) = "ready" => IsThere(held, storage[p])
    BY <1>1, FoundAs
  <2>2. ready' \subseteq Storages /\ \A s \in ready' : IsThere(held, s)
    BY <1>1, <1>3, <2>1 DEF VectorInv, VectorTypeOK, VectorsAreThere
  <2> QED BY <1>1, <1>3, <2>2, StepOver
<1>4. ASSUME ToStep(p, "waiting"),
             UNCHANGED <<held, made, locked, elements, away, storage, whole, steps, answer, ready>>
      PROVE  VectorInv'
  <2>1. steps' \in [Sessions -> Seq({"label", "table", "index"})]
    BY <1>4 DEF VectorInv, VectorTypeOK
  <2>2. UNCHANGED <<held, made, locked, elements, away, storage, whole, answer, ready>>
    BY <1>4
  <2>3. at' = [at EXCEPT ![p] = "waiting"] /\ "waiting" # "making"
    BY <1>4 DEF ToStep
  <2>4. at[p] \in {"probing", "looking", "inspecting"} /\ at[p] # "looking"
    BY <1>1
  <2> QED BY <2>1, <2>2, <2>3, <2>4, StepNext
<1> QED BY <1>2, <1>3, <1>4 DEF Probe

LEMMA StepTakeLock ==
    ASSUME VectorInv, NEW p \in Sessions, TakeLock(p)
    PROVE  VectorInv'
<1>1. /\ UNCHANGED <<held, made, elements, away, storage, whole, steps, answer, ready>>
      /\ at[p] = "waiting" /\ locked = NoSession /\ locked' = p
      /\ at' = [at EXCEPT ![p] = "looking"]
  BY DEF TakeLock, ToStep
<1>2. at \in [Sessions -> {"idle", "probing", "waiting", "looking", "making", "left",
                           "inspecting", "building"}]
  BY DEF VectorInv, VectorTypeOK
<1>3. made = {}
  BY <1>1, VectorStorageAssumption DEF VectorInv, Making, VectorStorageAssumption
<1>4. VectorTypeOK'
  BY <1>1, <1>2 DEF VectorInv, VectorTypeOK, elements
<1>5. Held' /\ Called'
  BY <1>1, <1>2, VectorStorageAssumption DEF VectorInv, Held, Called, VectorStorageAssumption
<1>6. Making' /\ Answered'
  BY <1>1, <1>3 DEF Making, Answered
<1>7. Consistent(held)' /\ Keyed' /\ VectorsAreThere'
  BY <1>1 DEF VectorInv, Consistent, Keyed, VectorsAreThere, elements, IsThere, IndexOf, ShapeOf
<1> QED BY <1>4, <1>5, <1>6, <1>7 DEF VectorInv

LEMMA StepLook ==
    ASSUME VectorInv, NEW p \in Sessions, Look(p)
    PROVE  VectorInv'
<1>1. at[p] = "looking"
  BY DEF Look
<1>2. CASE RolledBack(p)
  BY <1>2, StepRolledBack
<1>3. ASSUME NEW missing \in Seq({"label", "table", "index"}),
             steps' = [steps EXCEPT ![p] = missing], ToStep(p, "making"),
             UNCHANGED <<held, made, locked, elements, away, storage, whole, answer, ready>>
      PROVE  VectorInv'
  <2>1. steps' \in [Sessions -> Seq({"label", "table", "index"})]
    BY <1>3 DEF VectorInv, VectorTypeOK
  <2>2. at' = [at EXCEPT ![p] = "making"]
    BY <1>3 DEF ToStep
  <2>3. at[p] \in {"probing", "looking", "inspecting"} /\ at[p] = "looking"
    BY <1>1
  <2> QED BY <1>3, <2>1, <2>2, <2>3, StepNext
<1> DEFINE missing == Missing(held, storage[p], whole[p])
<1>4. missing \in Seq({"label", "table", "index"})
  BY MissingType
<1>5. \/ RolledBack(p)
      \/ /\ steps' = [steps EXCEPT ![p] = missing] /\ ToStep(p, "making")
         /\ UNCHANGED <<held, made, locked, elements, away, storage, whole, answer, ready>>
  BY DEF Look
<1> HIDE DEF missing
<1> QED BY <1>2, <1>3, <1>4, <1>5

LEMMA StepInspect ==
    ASSUME VectorInv, NEW p \in Sessions, Inspect(p)
    PROVE  VectorInv'
<1>1. at[p] = "inspecting"
  BY DEF Inspect
<1>2. CASE RolledBack(p)
  BY <1>2, StepRolledBack
<1>3. ASSUME ToStep(p, "building"),
             UNCHANGED <<held, made, locked, elements, away, storage, whole, steps, answer, ready>>
      PROVE  VectorInv'
  BY <1>1, <1>3, StepNext DEF VectorInv, VectorTypeOK, ToStep
<1> QED BY <1>2, <1>3 DEF Inspect

(* A statement under the lock makes what is neither committed nor made.    *)
LEMMA StepMake ==
    ASSUME VectorInv, NEW p \in Sessions, Make(p)
    PROVE  VectorInv'
<1> DEFINE what == Head(steps[p])
           s == storage[p]
<1>1. at[p] = "making" /\ locked = p /\ s \in Storages
  BY DEF Make, VectorInv, Held, Called
<1>2. CASE RolledBack(p)
  BY <1>2, StepRolledBack
<1>3. ASSUME Stands(SeenBy(p), what, s) \/ Possible(SeenBy(p), what, s),
             made' = IF Stands(SeenBy(p), what, s) THEN made ELSE made \cup {what},
             steps' = [steps EXCEPT ![p] = Tail(@)], steps[p] # <<>>,
             UNCHANGED <<held, locked, elements, away, at, storage, whole, answer, ready>>
      PROVE  VectorInv'
  <2>1. /\ steps[p] \in Seq({"label", "table", "index"})
        /\ what \in {"label", "table", "index"} /\ Tail(steps[p]) \in Seq({"label", "table", "index"})
    BY <1>3 DEF VectorInv, VectorTypeOK
  <2>2. VectorTypeOK'
    BY <1>3, <2>1 DEF VectorInv, VectorTypeOK, elements
  <2>3. Held' /\ Called'
    BY <1>3 DEF VectorInv, Held, Called
  <2>4. /\ SeenBy(p).label = (held.label \/ "label" \in made)
        /\ SeenBy(p).table = IF "table" \in made THEN s.typed ELSE held.table
        /\ SeenBy(p).onTable = IF "index" \in made /\ s.design = "table"
                               THEN ShapeOf(s) ELSE held.onTable
        /\ SeenBy(p).onLabel = IF "index" \in made /\ s.design # "table"
                               THEN ShapeOf(s) ELSE held.onLabel
    BY <1>1, SeenAs DEF VectorInv, VectorTypeOK, Catalog
  <2>5. s.typed # NoType /\ ShapeOf(s) # NoIndex
    BY <1>1, StorageType
  <2>6. OnlyMade(p) \/ made = {}
    BY <1>1 DEF VectorInv, Making
  <2>7. Making'
    <3> SUFFICES ASSUME made' # {} PROVE OnlyMade(p)'
      BY <1>1, <1>3 DEF Making
    <3>1. CASE made' = made
      BY <1>3, <2>6, <3>1 DEF OnlyMade, IndexOf
    <3>2. CASE ~Stands(SeenBy(p), what, s) /\ made' = made \cup {what}
      <4>1. CASE what = "label"
        <5>1. ~held.label
          BY <2>4, <3>2, <4>1 DEF Stands
        <5> QED BY <1>1, <1>3, <2>6, <3>2, <4>1, <5>1 DEF OnlyMade, IndexOf
      <4>2. CASE what = "table"
        <5>1. held.table = NoType
          BY <2>4, <2>5, <3>2, <4>2 DEF Stands
        <5> QED BY <1>1, <1>3, <2>6, <3>2, <4>2, <5>1 DEF OnlyMade, IndexOf
      <4>3. CASE what = "index"
        <5>1. IndexOf(SeenBy(p), s) = NoIndex /\ Possible(SeenBy(p), what, s)
          BY <1>3, <3>2, <4>3 DEF Stands
        <5>2. IndexOf(held, s) = NoIndex
          BY <2>4, <2>5, <5>1 DEF IndexOf
        <5>3. /\ s.design = "table" => held.table # NoType \/ "table" \in made
              /\ s.design # "table" => held.label \/ "label" \in made
          BY <2>4, <4>3, <5>1 DEF Possible
        <5> QED BY <1>1, <1>3, <2>6, <3>2, <4>3, <5>2, <5>3 DEF OnlyMade, IndexOf
      <4> QED BY <2>1, <4>1, <4>2, <4>3
    <3> QED BY <1>3, <3>1, <3>2
  <2>8. Answered'
    BY <1>1, <1>3 DEF VectorInv, Held, Answered
  <2>9. Consistent(held)' /\ Keyed' /\ VectorsAreThere'
    BY <1>3 DEF VectorInv, Consistent, Keyed, VectorsAreThere, elements, IsThere, IndexOf, ShapeOf
  <2> QED BY <2>2, <2>3, <2>7, <2>8, <2>9 DEF VectorInv
<1> QED BY <1>2, <1>3 DEF Make

LEMMA StepLookAfter ==
    ASSUME VectorInv, NEW p \in Sessions, LookAfter(p)
    PROVE  VectorInv'
<1> DEFINE s == storage[p]
<1>1. at[p] = "making" /\ locked = p /\ s \in Storages
  BY DEF LookAfter, VectorInv, Held, Called
<1>2. CASE RolledBack(p)
  BY <1>2, StepRolledBack
<1>3. ASSUME answer' = [answer EXCEPT ![p] = Found(SeenBy(p), s)],
             at' = [at EXCEPT ![p] = "left"],
             ready' = IF made = {} /\ answer'[p] = "ready" THEN ready \cup {s} ELSE ready,
             UNCHANGED <<held, made, locked, elements, away, storage, whole, steps>>
      PROVE  VectorInv'
  <2>1. SeenBy(p) \in Catalog
    BY <1>1, SeenAs DEF VectorInv, VectorTypeOK, Catalog
  <2>2. Found(SeenBy(p), s) = "ready" => IsThere(SeenBy(p), s)
    BY <1>1, <2>1, FoundAs
  <2>3. Found(SeenBy(p), s) \in States
    BY DEF Found, FoundInTable, FoundInProperties, StateOfIndex, States
  <2>4. at \in [Sessions -> {"idle", "probing", "waiting", "looking", "making", "left",
                             "inspecting", "building"}]
        /\ answer \in [Sessions -> States \cup {"none"}]
    BY DEF VectorInv, VectorTypeOK
  <2>5. answer'[p] = Found(SeenBy(p), s)
    BY <1>3, <2>4
  <2>6. VectorTypeOK'
    <3>1. at' \in [Sessions -> {"idle", "probing", "waiting", "looking", "making", "left",
                                "inspecting", "building"}]
          /\ answer' \in [Sessions -> States \cup {"none"}]
      BY <1>3, <2>3, <2>4
    <3>2. ready' \subseteq Storages
      BY <1>1, <1>3 DEF VectorInv, VectorTypeOK
    <3> QED BY <1>3, <3>1, <3>2 DEF VectorInv, VectorTypeOK, elements
  <2>7. Held' /\ Called'
    BY <1>1, <1>3, <2>4 DEF VectorInv, Held, Called
  <2>8. Making'
    BY <1>1, <1>3, <2>4 DEF VectorInv, Making, OnlyMade, IndexOf
  <2>9. Answered'
    <3> SUFFICES ASSUME NEW q \in Sessions, made # {}, at'[q] = "left", answer'[q] = "ready"
                 PROVE  IsThere(SeenBy(q), storage[q])'
      BY <1>3 DEF Answered
    <3>1. q = p
      BY <1>1, <1>3, <2>4 DEF VectorInv, Held
    <3>2. IsThere(SeenBy(p), s)
      BY <2>2, <2>5, <3>1
    <3>3. SeenBy(p)' = SeenBy(p) /\ storage'[p] = s
      BY <1>1, <1>3, SeenKept
    <3> QED BY <3>1, <3>2, <3>3 DEF IsThere, IndexOf, ShapeOf
  <2>10. Consistent(held)' /\ Keyed'
    BY <1>3 DEF VectorInv, Consistent, Keyed, elements
  <2>11. VectorsAreThere'
    <3>1. made = {} => SeenBy(p) = held
      BY DEF SeenBy, WithAll
    <3>2. \A t \in ready' : IsThere(held, t)
      BY <1>3, <2>2, <2>5, <3>1 DEF VectorInv, VectorsAreThere
    <3> QED BY <1>3, <3>2 DEF VectorsAreThere, IsThere, IndexOf, ShapeOf
  <2> QED BY <2>6, <2>7, <2>8, <2>9, <2>10, <2>11 DEF VectorInv
<1> QED BY <1>2, <1>3 DEF LookAfter, ToStep

(* What a transaction made is committed: it took nothing's place.          *)
LEMMA StepCommit ==
    ASSUME VectorInv, NEW p \in Sessions, Commit(p)
    PROVE  VectorInv'
<1> DEFINE s == storage[p]
           c == SeenBy(p)
<1>1. at[p] = "left" /\ locked = p /\ s \in Storages
  BY DEF Commit, VectorInv, Held, Called
<1>2. /\ held' = c /\ made' = {} /\ locked' = NoSession /\ UNCHANGED elements
      /\ ready' = IF made # {} /\ answer[p] = "ready" THEN ready \cup {s} ELSE ready
      /\ at' = [at EXCEPT ![p] = "idle"] /\ storage' = [storage EXCEPT ![p] = NoStorage]
      /\ whole' = [whole EXCEPT ![p] = FALSE] /\ steps' = [steps EXCEPT ![p] = <<>>]
      /\ answer' = [answer EXCEPT ![p] = "none"] /\ away' = away
  BY DEF Commit, Over, ToStep
<1>3. /\ c \in Catalog
      /\ c.label = (held.label \/ "label" \in made)
      /\ c.column = IF "label" \in made
                    THEN IF s.design = "column" THEN s.typed ELSE NoType
                    ELSE held.column
      /\ c.table = IF "table" \in made THEN s.typed ELSE held.table
      /\ c.keyed = (held.keyed \/ "table" \in made)
      /\ c.onTable = IF "index" \in made /\ s.design = "table" THEN ShapeOf(s) ELSE held.onTable
      /\ c.onLabel = IF "index" \in made /\ s.design # "table" THEN ShapeOf(s) ELSE held.onLabel
  BY <1>1, SeenAs DEF VectorInv, VectorTypeOK, Catalog
<1>4. s.typed # NoType
  BY <1>1, StorageType
<1>5. /\ "label" \in made => ~held.label
      /\ "table" \in made => held.table = NoType
      /\ "index" \in made =>
            /\ IndexOf(held, s) = NoIndex
            /\ s.design = "table" => held.table # NoType \/ "table" \in made
            /\ s.design # "table" => held.label \/ "label" \in made
  BY <1>1 DEF VectorInv, Making, OnlyMade
<1>6. made # {} /\ answer[p] = "ready" => IsThere(c, s)
  BY <1>1 DEF VectorInv, Answered
<1> HIDE DEF c, s
<1>7. VectorTypeOK'
  <2>1. <<>> \in Seq({"label", "table", "index"})
    OBVIOUS
  <2>2. ready' \subseteq Storages /\ held' \in Catalog
    BY <1>1, <1>2, <1>3 DEF VectorInv, VectorTypeOK
  <2> QED BY <1>2, <2>1, <2>2 DEF VectorInv, VectorTypeOK, Catalog, elements
<1>8. Held' /\ Called'
  BY <1>1, <1>2, VectorStorageAssumption
     DEF VectorInv, VectorTypeOK, Held, Called, VectorStorageAssumption
<1>9. Making' /\ Answered'
  BY <1>2 DEF Making, Answered
<1>10. Consistent(held)'
  BY <1>2, <1>3, <1>4, <1>5 DEF VectorInv, Consistent
<1>11. Keyed'
  <2>1. c.table = NoType => held.table = NoType
    BY <1>3, <1>4
  <2>2. c.keyed => held.keyed \/ held.table = NoType
    BY <1>3, <1>5
  <2> QED BY <1>2, <2>1, <2>2 DEF VectorInv, VectorTypeOK, Keyed, elements
<1>12. VectorsAreThere'
  <2> SUFFICES ASSUME NEW t \in ready' PROVE IsThere(c, t)
    BY <1>2 DEF VectorsAreThere, IsThere, IndexOf, ShapeOf
  <2>1. CASE t \in ready
    <3>1. IsThere(held, t)
      BY <2>1 DEF VectorInv, VectorsAreThere
    <3>2. t \in Storages /\ t.typed # NoType /\ ShapeOf(t) # NoIndex
      BY <2>1, StorageType DEF VectorInv, VectorTypeOK
    <3>3. t.design = "table" => c.table = t.typed /\ c.keyed
      BY <1>3, <1>5, <3>1, <3>2 DEF IsThere
    <3>4. t.design # "table" => c.label
      BY <1>3, <3>1 DEF IsThere
    <3>5. t.design = "column" => c.column = t.typed
      BY <1>3, <1>5, <3>1 DEF IsThere
    <3>6. t.indexed => IndexOf(c, t) = ShapeOf(t)
      BY <1>3, <1>5, <3>1, <3>2 DEF IsThere, IndexOf
    <3> QED BY <3>3, <3>4, <3>5, <3>6 DEF IsThere
  <2>2. CASE t \notin ready
    BY <1>2, <1>6, <2>2
  <2> QED BY <2>1, <2>2
<1> QED BY <1>7, <1>8, <1>9, <1>10, <1>11, <1>12 DEF VectorInv

(* A change of what is committed, made without the lock, that takes the    *)
(* place of nothing that is there or is being made.                        *)
LEMMA StepAside ==
    ASSUME VectorInv, UNCHANGED <<made, locked, elements, ready>>, held' \in Catalog,
           at' \in [Sessions -> {"idle", "probing", "waiting", "looking", "making", "left",
                                 "inspecting", "building"}],
           storage' \in [Sessions -> Storages \cup {NoStorage}],
           whole' \in [Sessions -> BOOLEAN], away' \subseteq Sessions,
           steps' \in [Sessions -> Seq({"label", "table", "index"})],
           answer' \in [Sessions -> States \cup {"none"}],
           Held', Called',
           \A q \in Sessions :
               \/ UNCHANGED <<at[q], storage[q], answer[q]>>
               \/ locked # q /\ at'[q] = "idle",
           Consistent(held)',
           UNCHANGED <<held.table, held.keyed>>,
           held.label => held'.label /\ held'.column = held.column,
           "label" \in made => held'.label = held.label,
           \A t \in Storages : IndexOf(held, t) # NoIndex => IndexOf(held', t) = IndexOf(held, t),
           "index" \in made => UNCHANGED <<held.onLabel, held.onTable>>
    PROVE  VectorInv'
<1>1. VectorTypeOK'
  BY DEF VectorInv, VectorTypeOK, Catalog, elements
<1>2. Making'
  <2> SUFFICES ASSUME made # {} PROVE \E q \in Sessions : locked = q /\ OnlyMade(q)'
    BY DEF Making
  <2>1. PICK q \in Sessions : locked = q /\ OnlyMade(q)
    BY DEF VectorInv, Making
  <2>2. at'[q] = at[q] /\ storage'[q] = storage[q]
    BY <2>1
  <2>3. held \in Catalog
    BY DEF VectorInv, VectorTypeOK, Catalog
  <2> QED BY <2>1, <2>2, <2>3 DEF OnlyMade, IndexOf, Catalog
<1>3. ASSUME NEW t \in Storages, IsThere(held, t) PROVE IsThere(held', t)
  <2>1. ShapeOf(t) # NoIndex
    BY StorageType
  <2> QED BY <1>3, <2>1 DEF IsThere
<1>4. Answered'
  <2> SUFFICES ASSUME NEW q \in Sessions, made # {}, at'[q] = "left", answer'[q] = "ready"
               PROVE  IsThere(SeenBy(q), storage[q])'
    BY DEF Answered
  <2> DEFINE t == storage[q]
             c == WithAll(held, made, t)
             d == WithAll(held', made, t)
  <2>1. at[q] = "left" /\ answer[q] = "ready" /\ storage'[q] = t
    OBVIOUS
  <2>2. locked = q /\ t \in Storages /\ IsThere(SeenBy(q), t)
    BY <2>1 DEF VectorInv, Held, Called, Answered
  <2>3. SeenBy(q) = c /\ SeenBy(q)' = d
    BY <2>1, <2>2 DEF SeenBy
  <2>4. held \in Catalog
    BY DEF VectorInv, VectorTypeOK, Catalog
  <2>5. /\ c.label = (held.label \/ "label" \in made)
        /\ c.column = IF "label" \in made
                      THEN IF t.design = "column" THEN t.typed ELSE NoType
                      ELSE held.column
        /\ c.table = IF "table" \in made THEN t.typed ELSE held.table
        /\ c.keyed = (held.keyed \/ "table" \in made)
        /\ c.onTable = IF "index" \in made /\ t.design = "table" THEN ShapeOf(t) ELSE held.onTable
        /\ c.onLabel = IF "index" \in made /\ t.design # "table" THEN ShapeOf(t) ELSE held.onLabel
    BY <2>2, <2>4, AllAs
  <2>6. /\ d.label = (held'.label \/ "label" \in made)
        /\ d.column = IF "label" \in made
                      THEN IF t.design = "column" THEN t.typed ELSE NoType
                      ELSE held'.column
        /\ d.table = IF "table" \in made THEN t.typed ELSE held'.table
        /\ d.keyed = (held'.keyed \/ "table" \in made)
        /\ d.onTable = IF "index" \in made /\ t.design = "table" THEN ShapeOf(t) ELSE held'.onTable
        /\ d.onLabel = IF "index" \in made /\ t.design # "table" THEN ShapeOf(t) ELSE held'.onLabel
    BY <2>2, AllAs
  <2> HIDE DEF c, d
  <2>7. IsThere(c, t)
    BY <2>2, <2>3
  <2>8. ShapeOf(t) # NoIndex
    BY <2>2, StorageType
  <2>9. t.design = "table" => d.table = t.typed /\ d.keyed
    BY <2>5, <2>6, <2>7 DEF IsThere
  <2>10. /\ t.design # "table" => d.label
         /\ t.design = "column" => d.column = t.typed
    <3>1. "label" \notin made => held.label = c.label /\ held.column = c.column
      BY <2>4, <2>5 DEF Catalog
    <3>2. t.design # "table" => c.label
      BY <2>7 DEF IsThere
    <3>3. t.design = "column" => c.column = t.typed
      BY <2>7 DEF IsThere
    <3>4. CASE "label" \in made
      BY <2>6, <3>4
    <3>5. CASE "label" \notin made
      BY <2>6, <3>1, <3>2, <3>3, <3>5
    <3> QED BY <3>4, <3>5
  <2>11. t.indexed => IndexOf(d, t) = ShapeOf(t)
    <3> SUFFICES ASSUME t.indexed PROVE IndexOf(d, t) = ShapeOf(t)
      OBVIOUS
    <3>1. IndexOf(c, t) = ShapeOf(t)
      BY <2>7 DEF IsThere
    <3>2. CASE "index" \in made
      BY <2>5, <2>6, <3>1, <3>2 DEF IndexOf
    <3>3. CASE "index" \notin made
      <4>1. IndexOf(c, t) = IndexOf(held, t) /\ IndexOf(d, t) = IndexOf(held', t)
        BY <2>5, <2>6, <3>3 DEF IndexOf
      <4>2. IndexOf(held', t) = IndexOf(held, t)
        BY <2>2, <2>8, <3>1, <4>1
      <4> QED BY <3>1, <4>1, <4>2
    <3> QED BY <3>2, <3>3
  <2>12. IsThere(d, t)
    BY <2>9, <2>10, <2>11 DEF IsThere
  <2> QED BY <2>1, <2>3, <2>12 DEF IsThere, IndexOf, ShapeOf
<1>5. VectorsAreThere'
  <2>1. \A t \in ready : IsThere(held', t)
    BY <1>3 DEF VectorInv, VectorTypeOK, VectorsAreThere
  <2> QED BY <2>1 DEF VectorsAreThere, IsThere, IndexOf, ShapeOf
<1>6. Keyed'
  BY DEF VectorInv, Keyed, elements
<1> QED BY <1>1, <1>2, <1>4, <1>5, <1>6 DEF VectorInv

LEMMA StepBuildIndex ==
    ASSUME VectorInv, NEW p \in Sessions, BuildIndex(p)
    PROVE  VectorInv'
<1> DEFINE s == storage[p]
<1>1. /\ at[p] = "building" /\ "index" \notin made /\ UNCHANGED <<made, locked, elements, ready>>
      /\ held' = IF Stands(held, "index", s) \/ ~Possible(held, "index", s)
                 THEN held ELSE With(held, "index", s)
      /\ at' = [at EXCEPT ![p] = "idle"] /\ storage' = [storage EXCEPT ![p] = NoStorage]
      /\ whole' = [whole EXCEPT ![p] = FALSE] /\ steps' = [steps EXCEPT ![p] = <<>>]
      /\ answer' = [answer EXCEPT ![p] = "none"] /\ away' = away
  BY DEF BuildIndex, Over, ToStep
<1>2. s \in Storages /\ locked # p /\ held \in Catalog
  BY <1>1 DEF VectorInv, VectorTypeOK, Called, Held, Catalog
<1>3. /\ at \in [Sessions -> {"idle", "probing", "waiting", "looking", "making", "left",
                              "inspecting", "building"}]
      /\ storage \in [Sessions -> Storages \cup {NoStorage}]
      /\ answer \in [Sessions -> States \cup {"none"}]
  BY DEF VectorInv, VectorTypeOK
<1>4. /\ at' \in [Sessions -> {"idle", "probing", "waiting", "looking", "making", "left",
                               "inspecting", "building"}]
      /\ storage' \in [Sessions -> Storages \cup {NoStorage}]
      /\ whole' \in [Sessions -> BOOLEAN] /\ away' \subseteq Sessions
      /\ steps' \in [Sessions -> Seq({"label", "table", "index"})]
      /\ answer' \in [Sessions -> States \cup {"none"}]
  <2>1. <<>> \in Seq({"label", "table", "index"})
    OBVIOUS
  <2> QED BY <1>1, <2>1 DEF VectorInv, VectorTypeOK
<1>5. Held' /\ Called'
  BY <1>1, <1>2, <1>3 DEF VectorInv, Held, Called
<1>6. \A q \in Sessions :
          \/ UNCHANGED <<at[q], storage[q], answer[q]>>
          \/ locked # q /\ at'[q] = "idle"
  BY <1>1, <1>2, <1>3
<1>7. /\ held' \in Catalog /\ Consistent(held)'
      /\ UNCHANGED <<held.table, held.keyed, held.label, held.column>>
      /\ \A t \in Storages : IndexOf(held, t) # NoIndex => IndexOf(held', t) = IndexOf(held, t)
  <2>1. CASE held' = held
    BY <1>2, <2>1 DEF VectorInv, Consistent
  <2>2. CASE /\ ~Stands(held, "index", s) /\ Possible(held, "index", s)
             /\ held' = With(held, "index", s)
    <3>1. IndexOf(held, s) = NoIndex /\ ShapeOf(s) \in Indexes
      BY <1>2, <2>2, StandsAs, StorageType
    <3>2. CASE s.design = "table"
      <4>1. held.table # NoType /\ held' = [held EXCEPT !.onTable = ShapeOf(s)]
        BY <2>2, <3>2, WithAs DEF Possible
      <4> QED BY <1>2, <3>1, <3>2, <4>1 DEF VectorInv, Consistent, Catalog, IndexOf
    <3>3. CASE s.design # "table"
      <4>1. held.label /\ held' = [held EXCEPT !.onLabel = ShapeOf(s)]
        BY <2>2, <3>3, WithAs DEF Possible
      <4> QED BY <1>2, <3>1, <3>3, <4>1 DEF VectorInv, Consistent, Catalog, IndexOf
    <3> QED BY <3>2, <3>3
  <2> QED BY <1>1, <2>1, <2>2
<1> HIDE DEF s
<1> QED BY <1>1, <1>4, <1>5, <1>6, <1>7, StepAside

LEMMA StepWriteMakesLabel ==
    ASSUME VectorInv, WriteMakesLabel
    PROVE  VectorInv'
<1>1. /\ ~held.label /\ "label" \notin made
      /\ held' = [held EXCEPT !.label = TRUE, !.column = NoType]
      /\ UNCHANGED <<made, locked, elements, ready>>
      /\ UNCHANGED <<away, at, storage, whole, steps, answer>>
  BY DEF WriteMakesLabel, sessions
<1>2. held \in Catalog /\ NoType \in Types
  BY DEF VectorInv, VectorTypeOK, Catalog, Types
<1>3. /\ held' \in Catalog /\ held'.label
      /\ UNCHANGED <<held.table, held.keyed, held.onLabel, held.onTable>>
  BY <1>1, <1>2 DEF Catalog
<1>4. \A t \in Storages : IndexOf(held', t) = IndexOf(held, t)
  BY <1>3 DEF IndexOf
<1>5. Consistent(held)' /\ Held' /\ Called'
  BY <1>1, <1>3 DEF VectorInv, Consistent, Held, Called
<1>6. /\ at' \in [Sessions -> {"idle", "probing", "waiting", "looking", "making", "left",
                               "inspecting", "building"}]
      /\ storage' \in [Sessions -> Storages \cup {NoStorage}]
      /\ whole' \in [Sessions -> BOOLEAN] /\ away' \subseteq Sessions
      /\ steps' \in [Sessions -> Seq({"label", "table", "index"})]
      /\ answer' \in [Sessions -> States \cup {"none"}]
  BY <1>1 DEF VectorInv, VectorTypeOK
<1>7. \A q \in Sessions : UNCHANGED <<at[q], storage[q], answer[q]>>
  BY <1>1
<1> QED BY <1>1, <1>3, <1>4, <1>5, <1>6, <1>7, StepAside

-----------------------------------------------------------------------------
(* Statements of one step.                                                 *)
LEMMA StepDropVectors ==
    ASSUME VectorInv, NEW p \in Sessions, NEW s \in Storages, DropVectors(p, s)
    PROVE  VectorInv'
<1>1. made = {} /\ UNCHANGED <<made, locked, vertices, given, sessions>>
  BY DEF DropVectors, Free
<1>2. held \in Catalog /\ NoType \in Types /\ NoIndex \in Indexes
  BY DEF VectorInv, VectorTypeOK, Catalog, Types, Indexes
<1>3. \A t \in ready : IsThere(held, t)
  BY DEF VectorInv, VectorsAreThere
<1>4. CASE s.design = "table"
  <2>1. /\ held' = [held EXCEPT !.table = NoType, !.keyed = FALSE, !.onTable = NoIndex]
        /\ rows' = {} /\ strange' = {} /\ ready' = ready \ {t \in ready : t.design = "table"}
    BY <1>4 DEF DropVectors, Without
  <2>2. held' \in Catalog /\ Consistent(held)' /\ Keyed'
    BY <1>2, <2>1 DEF VectorInv, Consistent, Keyed, Catalog
  <2>3. \A t \in ready' : IsThere(held', t)
    BY <1>2, <1>3, <2>1 DEF IsThere, IndexOf, Catalog
  <2> QED BY <1>1, <2>1, <2>2, <2>3, StepCommitted DEF VectorInv, VectorTypeOK
<1>5. CASE s.design # "table"
  <2>1. /\ held' = [held EXCEPT !.onLabel = NoIndex] /\ UNCHANGED <<rows, strange>>
        /\ ready' = ready \ {t \in ready : t.design \in {"column", "property"}}
    BY <1>5 DEF DropVectors, Without
  <2>2. held' \in Catalog /\ Consistent(held)' /\ Keyed'
    BY <1>1, <1>2, <2>1 DEF VectorInv, Consistent, Keyed, Catalog
  <2>3. ready' \subseteq Storages /\ \A t \in ready' : t \in ready /\ t.design = "table"
    BY <2>1, StorageType DEF VectorInv, VectorTypeOK
  <2>4. \A t \in ready' : IsThere(held', t)
    BY <1>2, <1>3, <2>1, <2>3 DEF IsThere, IndexOf, Catalog
  <2> QED BY <1>1, <2>1, <2>2, <2>3, <2>4, StepCommitted DEF VectorInv, VectorTypeOK
<1> QED BY <1>4, <1>5

(* What becomes of the rows and the vertices, the catalog left as it is.   *)
LEMMA StepElements ==
    ASSUME VectorInv, made = {}, UNCHANGED <<held, made, locked, sessions, ready>>,
           vertices' \subseteq given', given' \subseteq Ids, rows' \subseteq Ids, strange' \subseteq rows',
           held.table = NoType => rows' = {},
           held.keyed => strange' = {} /\ rows' \subseteq vertices'
    PROVE  VectorInv'
<1>1. Keyed' /\ Consistent(held)' /\ held' \in Catalog
  BY DEF VectorInv, VectorTypeOK, Consistent, Keyed, Catalog
<1>2. ready' \subseteq Storages /\ \A s \in ready' : IsThere(held', s)
  BY DEF VectorInv, VectorTypeOK, VectorsAreThere
<1> QED BY <1>1, <1>2, StepCommitted

LEMMA StepWriteVectors ==
    ASSUME VectorInv, NEW p \in Sessions, NEW s \in Storages, NEW ids \in SUBSET Ids,
           NEW upsert \in BOOLEAN, WriteVectors(p, s, ids, upsert)
    PROVE  VectorInv'
<1>1. /\ made = {} /\ held.table = s.typed /\ (held.keyed => ids \subseteq vertices)
      /\ rows' = rows \cup ids /\ strange' = (strange \ ids) \cup (ids \ vertices)
      /\ UNCHANGED <<held, made, locked, vertices, given, sessions, ready>>
  BY DEF WriteVectors, Free
<1>2. held.table # NoType
  BY <1>1, StorageType
<1> QED BY <1>1, <1>2, StepElements DEF VectorInv, VectorTypeOK, Keyed

LEMMA StepDeleteVectors ==
    ASSUME VectorInv, NEW p \in Sessions, NEW s \in Storages, NEW ids \in SUBSET Ids,
           DeleteVectors(p, s, ids)
    PROVE  VectorInv'
BY StepElements DEF DeleteVectors, Free, VectorInv, VectorTypeOK, Keyed

LEMMA StepDropLabel ==
    ASSUME VectorInv, DropLabel
    PROVE  VectorInv'
<1>1. /\ made = {} /\ UNCHANGED <<made, locked, rows, sessions>>
      /\ held' = [held EXCEPT !.label = FALSE, !.column = NoType, !.keyed = FALSE, !.onLabel = NoIndex]
      /\ vertices' = {} /\ given' = {} /\ strange' = rows /\ ready' = {}
  BY DEF DropLabel
<1>2. held \in Catalog /\ NoType \in Types /\ NoIndex \in Indexes
  BY DEF VectorInv, VectorTypeOK, Catalog, Types, Indexes
<1>3. held' \in Catalog /\ Consistent(held)' /\ Keyed'
  BY <1>1, <1>2 DEF VectorInv, Consistent, Keyed, Catalog
<1> QED BY <1>1, <1>3, StepCommitted DEF VectorInv, VectorTypeOK

LEMMA StepVertex ==
    ASSUME VectorInv, NEW i \in Ids, CreateVertex(i) \/ DeleteVertex(i)
    PROVE  VectorInv'
<1>1. CASE CreateVertex(i)
  BY <1>1, StepElements DEF CreateVertex, VectorInv, VectorTypeOK, Keyed
<1>2. CASE DeleteVertex(i)
  <2>1. /\ i \in vertices /\ made = {} /\ vertices' = vertices \ {i}
        /\ rows' = IF held.keyed THEN rows \ {i} ELSE rows
        /\ strange' = strange \cup ({i} \cap rows')
        /\ UNCHANGED <<held, made, locked, given, sessions, ready>>
    BY <1>2 DEF DeleteVertex
  <2>2. strange' \subseteq rows' /\ rows' \subseteq Ids
    BY <2>1 DEF VectorInv, VectorTypeOK, Keyed
  <2>3. /\ held.table = NoType => rows' = {}
        /\ held.keyed => strange' = {} /\ rows' \subseteq vertices'
    BY <2>1 DEF VectorInv, Keyed
  <2> QED BY <2>1, <2>2, <2>3, StepElements DEF VectorInv, VectorTypeOK
<1> QED BY <1>1, <1>2

LEMMA StepTruncate ==
    ASSUME VectorInv, Truncate
    PROVE  VectorInv'
BY StepElements DEF Truncate, VectorInv, VectorTypeOK

-----------------------------------------------------------------------------
LEMMA StepVectors == VectorInv /\ [VectorNext]_vectors => VectorInv'
<1> SUFFICES ASSUME VectorInv, [VectorNext]_vectors PROVE VectorInv'
  OBVIOUS
<1>1. CASE UNCHANGED vectors
  <2>1. UNCHANGED <<held, made, locked, elements, sessions, ready>>
    BY <1>1 DEF vectors
  <2>2. VectorTypeOK' /\ Held' /\ Called'
    BY <2>1 DEF VectorInv, VectorTypeOK, Held, Called, elements, sessions
  <2>3. Making' /\ Consistent(held)' /\ Keyed' /\ VectorsAreThere'
    BY <2>1 DEF VectorInv, Making, OnlyMade, Consistent, Keyed, VectorsAreThere, elements, sessions,
                IsThere, IndexOf, ShapeOf
  <2>4. Answered'
    <3> SUFFICES ASSUME NEW q \in Sessions, made # {}, at[q] = "left", answer[q] = "ready"
                 PROVE  IsThere(SeenBy(q), storage[q])'
      BY <2>1 DEF Answered, sessions
    <3>1. locked = q /\ IsThere(SeenBy(q), storage[q]) /\ storage'[q] = storage[q]
      BY <2>1 DEF VectorInv, Held, Answered, sessions
    <3> QED BY <2>1, <3>1, SeenKept DEF IsThere, IndexOf, ShapeOf
  <2> QED BY <2>2, <2>3, <2>4 DEF VectorInv
<1>2. ASSUME NEW p \in Sessions,
             \/ \E s \in Storages, b \in BOOLEAN : EnsureVectors(p, s, b)
             \/ \E s \in Storages : Build(p, s)
      PROVE  VectorInv'
  BY <1>2, StepCall DEF EnsureVectors, Build
<1>3. ASSUME NEW p \in Sessions,
             \/ Probe(p) \/ TakeLock(p) \/ Look(p) \/ Make(p) \/ LookAfter(p) \/ Commit(p)
             \/ LoseVectors(p) \/ Inspect(p) \/ BuildIndex(p)
      PROVE  VectorInv'
  BY <1>3, StepProbe, StepTakeLock, StepLook, StepMake, StepLookAfter, StepCommit, StepRolledBack,
     StepInspect, StepBuildIndex DEF LoseVectors
<1>4. ASSUME NEW p \in Sessions, NEW s \in Storages,
             \/ DropVectors(p, s)
             \/ \E ids \in SUBSET Ids \ {{}} :
                   DeleteVectors(p, s, ids) \/ \E b \in BOOLEAN : WriteVectors(p, s, ids, b)
      PROVE  VectorInv'
  BY <1>4, StepDropVectors, StepDeleteVectors, StepWriteVectors
<1>5. CASE \/ \E i \in Ids : CreateVertex(i) \/ DeleteVertex(i)
           \/ WriteMakesLabel \/ DropLabel \/ Truncate
  BY <1>5, StepVertex, StepWriteMakesLabel, StepDropLabel, StepTruncate
<1> QED BY <1>1, <1>2, <1>3, <1>4, <1>5 DEF VectorNext

THEOREM VectorInvariance == VectorSpec => []VectorInv
BY InitVectors, StepVectors, PTL DEF VectorSpec

(* The variables of VectorStorage keep their types.                        *)
THEOREM VectorTypes == VectorSpec => []VectorTypeOK
<1>1. VectorInv => VectorTypeOK
  BY DEF VectorInv
<1> QED BY <1>1, VectorInvariance, PTL

(* VectorsAreThere: what ensure_vectors answered to be ready stays there,  *)
(* whoever makes, builds and writes meanwhile, until somebody drops of it. *)
THEOREM AnsweredIsThere == VectorSpec => []VectorsAreThere
<1>1. VectorInv => VectorsAreThere
  BY DEF VectorInv
<1> QED BY <1>1, VectorInvariance, PTL

(* HitsAreTheirs: a table answered ready has its key, and a table with its *)
(* key has no row of a vertex that is gone.                                *)
THEOREM NoHitOfAnother == VectorSpec => []HitsAreTheirs
<1>1. VectorInv => HitsAreTheirs
  BY DEF VectorInv, VectorsAreThere, IsThere, Keyed, HitsAreTheirs
<1> QED BY <1>1, VectorInvariance, PTL
=============================================================================
