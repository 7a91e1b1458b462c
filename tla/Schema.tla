-------------------------------- MODULE Schema --------------------------------
(***************************************************************************)
(* Reconciling what a graph declares: ensure_labels, ensure_indexes and    *)
(* ensure_constraints, with the plan each makes before the graph's schema  *)
(* lock and again under it (_reconciled and schema_lock in                 *)
(* connection_async.py, reconcile_* in introspect.py).                     *)
(*                                                                         *)
(* Several processes, each with one connection: in autocommit, where a     *)
(* call is a transaction, or with a transaction open around its calls,     *)
(* where the call is a savepoint in it and the lock lasts until its end.   *)
(* A transaction reads the catalog afresh in each statement, or - if it is *)
(* REPEATABLE READ or stricter - as it was at its first.  The server's     *)
(* part is external: the catalog, DDL that a rollback undoes, the advisory *)
(* lock.  So is a write that names a label nobody declared, which makes it *)
(* without the lock.                                                       *)
(***************************************************************************)
EXTENDS Integers, FiniteSets

CONSTANTS
    Processes, NoProcess,
    Calls,        \* the calls of ensure_* there may be
    Existing,     \* what the graph declares to begin with
    Altered,      \* what the catalog does not report as it was asked for
    Wrapped,      \* the processes that may have a transaction around calls
    Stable        \* those whose transactions may read from one snapshot

Kinds == {"label", "column", "index", "constraint"}

(* What a graph declares: a label, a column of it, an index over a key of  *)
(* it, a constraint by a name.  Only the last two have variants.           *)
Thing(what, of, over, once) ==
    [key |-> over, unique |-> once, label |-> of, kind |-> what]

Same(t, u) == t.kind = u.kind /\ t.label = u.label /\ t.key = u.key

NoCall == [on |-> "nothing", wants |-> {}, dropExtra |-> FALSE, dryRun |-> FALSE]

Things == Existing \cup UNION {c.wants : c \in Calls}

(* A label is known by its name, a column comes with its label, and of the *)
(* constraints of a label each has a name of its own: the server holds a   *)
(* graph to it, and reconcile_constraints what it is asked for.            *)
OneByName(S) == \A t, u \in S : t.kind = "constraint" /\ Same(t, u) => t = u
Labelled(S) ==
    \A t \in S : t.kind = "column" => \E u \in S : u.kind = "label" /\ u.label = t.label

ASSUME SchemaAssumption ==
    /\ IsFiniteSet(Processes) /\ NoProcess \notin Processes
    /\ \A t \in Existing : t.kind \in Kinds
    /\ \A t \in Altered : t.kind = "index" /\ t \in Things
    /\ Wrapped \subseteq Processes /\ Stable \subseteq Processes
    /\ \A t, u \in Things : t.kind = "label" /\ u.kind = "label" /\ t.label = u.label => t = u
    /\ OneByName(Existing) /\ Labelled(Existing)
    /\ \A c \in Calls :
          /\ c.on \in {"label", "index", "constraint"}
          /\ c.dropExtra \in BOOLEAN /\ c.dryRun \in BOOLEAN
          /\ \A t \in c.wants :
                \/ t.kind = c.on
                \/ c.on = "label" /\ t.kind = "column"
          /\ OneByName(c.wants) /\ Labelled(c.wants)

VARIABLES
    catalog,    \* how many of each thing are committed
    change,     \* what each process's open transaction has added or dropped
    holder,     \* who has the graph's schema lock
    outer,      \* the processes with a transaction around their calls
    frozen,     \* the processes whose transactions read from one snapshot
    snapshot,   \* that snapshot; the empty function before the first statement
    pc, call,   \* each process's step, and the call it is in
    declared,   \* the columns read by ensure_labels as it began
    todo,       \* the statements still to run
    mark,       \* the savepoint: [change, held]
    overtaken,  \* the labels made by a write (history)
    refused     \* <<process, kind>> of the statements refused (history)

local == <<pc, call, declared, todo, mark>>
history == <<overtaken, refused>>
vars == <<catalog, change, holder, outer, frozen, snapshot, local, history>>

None == <<>>
Nothing == [t \in Things |-> 0]
Blank == [change |-> Nothing, held |-> FALSE]
Ops == [do : {"create", "drop"}, thing : Things]

TypeOK ==
    /\ catalog \in [Things -> Nat]
    /\ change \in [Processes -> [Things -> Int]]
    /\ holder \in Processes \cup {NoProcess}
    /\ outer \subseteq Processes /\ frozen \subseteq Processes
    /\ snapshot \in [Processes -> {None} \cup [Things -> Nat]]
    /\ pc \in [Processes -> {"idle", "declaring", "planning", "waiting",
                             "replanning", "running", "settling", "leaving"}]
    /\ call \in [Processes -> Calls \cup {NoCall}]
    /\ declared \in [Processes -> SUBSET Things]
    /\ todo \in [Processes -> SUBSET Ops]
    /\ mark \in [Processes -> [change : [Things -> Int], held : BOOLEAN]]
    /\ overtaken \subseteq Things /\ refused \subseteq Processes \X Kinds

Init ==
    /\ catalog = [t \in Things |-> IF t \in Existing THEN 1 ELSE 0]
    /\ change = [p \in Processes |-> Nothing]
    /\ holder = NoProcess
    /\ outer \in SUBSET Wrapped /\ frozen \in SUBSET Stable
    /\ snapshot = [p \in Processes |-> None]
    /\ pc = [p \in Processes |-> "idle"]
    /\ call = [p \in Processes |-> NoCall]
    /\ declared = [p \in Processes |-> {}]
    /\ todo = [p \in Processes |-> {}]
    /\ mark = [p \in Processes |-> Blank]
    /\ overtaken = {} /\ refused = {}

-----------------------------------------------------------------------------
(* What p reads, and what the server checks its statements against.        *)
Plus(c, d) == [t \in Things |-> c[t] + d[t]]
Truth(p) == Plus(catalog, change[p])
Base(p) == IF snapshot[p] = None THEN catalog ELSE snapshot[p]
Seen(p) == Plus(Base(p), change[p])
There(seen) == {t \in Things : seen[t] > 0}

(* The first statement of a transaction fixes what a frozen one reads.     *)
Read(p) == snapshot' = IF p \in frozen /\ p \in outer
                       THEN [snapshot EXCEPT ![p] = Base(p)] ELSE snapshot

Create(t) == [do |-> "create", thing |-> t]
Drop(t) == [do |-> "drop", thing |-> t]

(* reconcile_labels: a label is made with its columns; a column is added   *)
(* to a label that is there unless the reading named it.                   *)
ReconcileLabels(c, seen, columns) ==
    LET labels == {t \in c.wants : t.kind = "label"}
        missing == labels \ There(seen)
        of(t) == {u \in missing : u.label = t.label}
    IN {Create(t) : t \in missing}
         \cup {Create(t) : t \in {u \in c.wants : u.kind = "column" /\ of(u) = {}} \ columns}

(* reconcile_indexes and reconcile_constraints: matched by what they are   *)
(* over, or by name; of several the same the listing's last.  One that is  *)
(* unique and should not be, or the reverse, is dropped and made again.    *)
AnyLabel(c, t) == t.kind = c.on
SpokenFor(c, t) == t.kind = c.on /\ \E w \in c.wants : w.label = t.label

Reconcile(c, listed, dropExtra) ==
    LET found(w) == {t \in listed : Same(t, w)}
    IN {Create(w) : w \in {u \in c.wants : u \notin found(u)}}
         \cup {Drop(t) : t \in {u \in listed : \E w \in c.wants : Same(u, w) /\ u # w}}
         \cup {Drop(t) : t \in {u \in listed : /\ dropExtra /\ SpokenFor(c, u)
                                               /\ \A w \in c.wants : ~Same(u, w)}}

(* One of each, as the dictionary the listing is read into keeps it.       *)
Listings(c, seen) ==
    LET there == {t \in There(seen) \ Altered : t.kind = c.on}
        rivals == {t \in there : \E u \in there \ {t} : Same(t, u)}
    IN {(there \ rivals) \cup l :
          l \in {r \in SUBSET rivals : /\ \A t \in rivals : \E u \in r : Same(t, u)
                                     /\ \A t, u \in r : Same(t, u) => t = u}}

Plans(p) ==
    IF call[p].on = "label" THEN {ReconcileLabels(call[p], Seen(p), declared[p])}
    ELSE {Reconcile(call[p], l, call[p].dropExtra) : l \in Listings(call[p], Seen(p))}

NeverOutstanding(p) == FALSE

Outstanding(p) ==
    /\ call[p].on # "label"
    /\ \A l \in Listings(call[p], Seen(p)) : Reconcile(call[p], l, FALSE) # {}

-----------------------------------------------------------------------------
Goto(p, step) == pc' = [pc EXCEPT ![p] = step]
(* The call is over, and what it held with it.                             *)
Return(p) ==
    /\ Goto(p, "idle")
    /\ call' = [call EXCEPT ![p] = NoCall]
    /\ declared' = [declared EXCEPT ![p] = {}]
    /\ todo' = [todo EXCEPT ![p] = {}]
    /\ mark' = [mark EXCEPT ![p] = Blank]

Ensure(p, c) ==
    /\ pc[p] = "idle"
    /\ call' = [call EXCEPT ![p] = c]
    /\ Goto(p, IF \E t \in c.wants : t.kind = "column" THEN "declaring" ELSE "planning")
    /\ UNCHANGED <<catalog, change, holder, outer, frozen, snapshot, declared, todo, mark, history>>

(* declared_properties, once: neither plan reads it again.                 *)
Declare(p) ==
    /\ pc[p] = "declaring"
    /\ declared' = [declared EXCEPT ![p] = {t \in There(Seen(p)) : t.kind = "column"}]
    /\ Goto(p, "planning") /\ Read(p)
    /\ UNCHANGED <<catalog, change, holder, outer, frozen, call, todo, mark, history>>

(* Worked out first without the lock: a graph that matches takes none.     *)
Plan(p) ==
    /\ pc[p] = "planning"
    /\ \E ops \in Plans(p) :
          IF call[p].dryRun \/ ops = {} THEN Return(p)
          ELSE /\ todo' = [todo EXCEPT ![p] = ops]
               /\ mark' = [mark EXCEPT ![p] = [change |-> change[p], held |-> holder = p]]
               /\ Goto(p, "waiting")
               /\ UNCHANGED <<call, declared>>
    /\ Read(p)
    /\ UNCHANGED <<catalog, change, holder, outer, frozen, history>>

(* schema_lock: the statement that asks for the lock is what a new         *)
(* transaction's snapshot is taken by, however long it then waits.         *)
Wait(p) ==
    /\ pc[p] = "waiting"
    /\ p \in frozen /\ snapshot[p] = None
    /\ snapshot' = [snapshot EXCEPT ![p] = catalog]
    /\ UNCHANGED <<catalog, change, holder, outer, frozen, local, history>>

Lock(p) ==
    /\ pc[p] = "waiting"
    /\ p \in frozen => snapshot[p] # None
    /\ holder \in {NoProcess, p}
    /\ holder' = p
    /\ Goto(p, "replanning")
    /\ UNCHANGED <<catalog, change, outer, frozen, snapshot, call, declared, todo, mark, history>>

(* Worked out again under the lock.                                        *)
AsPlanned(p) == {todo[p]}
PlansAgain(p) == Plans(p)

Replan(p) ==
    /\ pc[p] = "replanning"
    /\ \E ops \in PlansAgain(p) :
          /\ todo' = [todo EXCEPT ![p] = ops]
          /\ Goto(p, IF ops = {} THEN "leaving" ELSE "running")
    /\ UNCHANGED <<catalog, change, holder, outer, frozen, snapshot, call, declared, mark, history>>

-----------------------------------------------------------------------------
(* A statement that failed: the block around it rolls back, to where the   *)
(* savepoint was set if there is a transaction around, and with it goes a  *)
(* lock taken since.                                                       *)
Fail(p) ==
    /\ change' = [change EXCEPT ![p] = mark[p].change]
    /\ holder' = IF mark[p].held THEN holder ELSE NoProcess
    /\ snapshot' = IF p \in outer THEN snapshot ELSE [snapshot EXCEPT ![p] = None]
    /\ Return(p)
    /\ UNCHANGED <<catalog, outer, frozen, overtaken>>

(* The next statement of the plan, whose order is the caller's; what is    *)
(* made again has been dropped first.                                      *)
Turn(p, op) ==
    /\ pc[p] = "running" /\ op \in todo[p]
    /\ op.do = "create" => \A o \in todo[p] : o.do = "drop" => ~Same(o.thing, op.thing)

(* A label is created if it does not exist; a column, a constraint, or the *)
(* dropping of what is gone, is refused.  An index without a name is not.  *)
Refused(p, op) ==
    \/ op.do = "drop" /\ Truth(p)[op.thing] = 0
    \/ /\ op.do = "create" /\ op.thing.kind \in {"column", "constraint"}
       /\ \E t \in Things : Same(t, op.thing) /\ Truth(p)[t] > 0

MadeBare(p, op) == IF op.do = "create" THEN {op.thing} ELSE {}

MadeWith(p, label) ==
    IF Truth(p)[label] > 0 THEN {}
    ELSE {t \in call[p].wants : t.kind \in {"label", "column"} /\ t.label = label.label}

Made(p, op) ==
    IF op.do = "drop" THEN {}
    ELSE IF op.thing.kind = "label" THEN MadeWith(p, op.thing) ELSE {op.thing}

Run(p, op) ==
    /\ Turn(p, op) /\ ~Refused(p, op)
    /\ change' = [change EXCEPT ![p] =
                    [t \in Things |-> IF op = Drop(t) THEN change[p][t] - 1
                                     ELSE IF t \in Made(p, op) THEN change[p][t] + 1
                                     ELSE change[p][t]]]
    /\ todo' = [todo EXCEPT ![p] = @ \ {op}]
    /\ Goto(p, IF todo[p] = {op} THEN "settling" ELSE "running")
    /\ UNCHANGED <<catalog, holder, outer, frozen, snapshot, call, declared, mark, history>>

RunRefused(p, op) ==
    /\ Turn(p, op) /\ Refused(p, op)
    /\ Fail(p)
    /\ refused' = refused \cup {<<p, op.thing.kind>>}

(* _settled, inside the lock's block still: the catalog is read again, and *)
(* a difference raises.  After labels the label table is filled instead.   *)
Settle(p) ==
    /\ pc[p] = "settling" /\ ~Outstanding(p)
    /\ Goto(p, "leaving")
    /\ UNCHANGED <<catalog, change, holder, outer, frozen, snapshot, call, declared, todo, mark,
                   history>>

SettleRaises(p) ==
    /\ pc[p] = "settling" /\ Outstanding(p)
    /\ Fail(p)
    /\ UNCHANGED refused

(* The end of a transaction of p's.                                        *)
End(p, commits) ==
    /\ catalog' = IF commits THEN Truth(p) ELSE catalog
    /\ change' = [change EXCEPT ![p] = Nothing]
    /\ holder' = IF holder = p THEN NoProcess ELSE holder
    /\ snapshot' = [snapshot EXCEPT ![p] = None]

Leave(p) ==
    /\ pc[p] = "leaving"
    /\ IF p \in outer THEN UNCHANGED <<catalog, change, holder, snapshot>> ELSE End(p, TRUE)
    /\ Return(p)
    /\ UNCHANGED <<outer, frozen, history>>

EndOuter(p, commits) ==
    /\ p \in outer /\ pc[p] = "idle"
    /\ End(p, commits)
    /\ UNCHANGED <<outer, frozen, local, history>>

(* The connection is lost, and its transaction with it.                    *)
Lose(p) ==
    /\ pc[p] # "idle"
    /\ End(p, FALSE)
    /\ Return(p)
    /\ UNCHANGED <<outer, frozen, history>>

(* A write makes the label it names; one that is being made it waits for.  *)
WriteMakes(t) ==
    /\ t.kind = "label" /\ catalog[t] = 0
    /\ \A p \in Processes : change[p][t] = 0
    /\ catalog' = [catalog EXCEPT ![t] = 1]
    /\ overtaken' = overtaken \cup {t}
    /\ UNCHANGED <<change, holder, outer, frozen, snapshot, local, refused>>

Next ==
    \/ \E p \in Processes :
          \/ \E c \in Calls : Ensure(p, c)
          \/ Declare(p) \/ Plan(p) \/ Wait(p) \/ Lock(p) \/ Replan(p)
          \/ \E op \in todo[p] : Run(p, op) \/ RunRefused(p, op)
          \/ Settle(p) \/ SettleRaises(p) \/ Leave(p) \/ Lose(p)
          \/ \E b \in BOOLEAN : EndOuter(p, b)
    \/ \E t \in Things : WriteMakes(t)

Spec == Init /\ [][Next]_vars

-----------------------------------------------------------------------------
Afresh == frozen = {}

(* One index over a key, of those the catalog prints as they were written. *)
OneOverAKey(S) == \A t, u \in S \ Altered : t.kind = "index" /\ Same(t, u) => t = u

(* Nothing is made twice, an index without a name included, which the      *)
(* server would make as often as it is asked - if transactions read what   *)
(* is there, and a key had one index to begin with: of two, one unique,    *)
(* the listing keeps either and the other may be made again.               *)
NothingTwice ==
    Afresh /\ OneOverAKey(Existing) => \A t \in Things : catalog[t] <= 1

(* Processes that reconcile do not get in one another's way: none has a    *)
(* statement refused because another came first.  Except for a column,     *)
(* whose reading is as old as the call.                                    *)
OnlyColumnsRefused == \A r \in refused : r[1] \in frozen \/ r[2] = "column"

(* Two that reconcile one graph: nothing is made twice and neither is       *)
(* refused what the other came first with.                                 *)
TakeTurns == NothingTwice /\ OnlyColumnsRefused

(* When a call that took the lock returns, what it asked for is there.     *)
(* Except the columns of a label that a write made in the meantime; and of  *)
(* a call in a transaction at REPEATABLE READ, which plans from a snapshot  *)
(* as old as the transaction, nothing is said.                             *)
AskedForIsThere ==
    [][\A p \in Processes \ frozen : Leave(p) =>
          \A t \in call[p].wants \ Altered :
             \/ Truth(p)[t] > 0
             \/ t.kind = "column" /\ \E u \in overtaken : u.label = t.label]_vars

(* A call that cannot have what it asks for leaves nothing behind.         *)
UnsettledLeavesNothing == \A t \in Altered \ Existing : catalog[t] = 0

(* What no call has asked to be dropped or made otherwise.                 *)
Spared ==
    {t \in Existing : \A c \in Calls : \A w \in c.wants :
        /\ c.dropExtra /\ c.on = t.kind => w.label # t.label
        /\ Same(w, t) => w = t}

(* A call reaches only what it names: nothing is dropped of a label that   *)
(* no call asking for the rest to be dropped has spoken of (for_labels).   *)
OthersKept == \A t \in Spared : catalog[t] > 0

=============================================================================
